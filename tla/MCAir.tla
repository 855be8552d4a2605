-------------------------------- MODULE MCAir --------------------------------
(* Recordings of the tests (tests/fixtures/signalduino.json), one or two of each code and each weather *)
(* station, with what the tests say that they are.  The bits are written as digits of four.          *)
EXTENDS Air

BitsOf(digits, length) == Slice(FlattenSeq([k \in DOMAIN digits |-> NibbleOf(digits[k])]), 0, length)

Telegram(kind, id, x, clock, bits, heard) ==
  [kind |-> kind, id |-> id, x |-> x, clock |-> clock, bits |-> bits, heard |-> heard]

Decoded(id, clock, length, digits, heard) == Telegram("MC", id, 0, clock, BitsOf(digits, length), heard)
Pulses(id, length, digits, heard) == Telegram("pulses", id, 0, 0, BitsOf(digits, length), heard)
Station(id, x, digits, heard) == Telegram("SD_WS", id, x, 0, BitsOf(digits, 4 * Len(digits)), heard)

Reads(device, values) == [device |-> device, values |-> values]
Says(id, digits) == [protocol |-> id, bits |-> BitsOf(digits, 4 * Len(digits))]

MCTelegrams ==
  {
   Decoded(12, 487, 90, <<10, 8, 12, 2, 3, 4, 5, 10, 13, 13, 8, 14, 0, 11, 9, 9, 15, 5, 8, 6, 15, 9,
      12>>, {Reads(<<12, 30, 1>>, {<<"temperature", 2960>>, <<"humidity", 5400>>, <<"battery_low",
      0>>})}),
   Decoded(57, 330, 21, <<13, 5, 5, 11, 5, 8>>, {Says(57, <<2, 10, 10, 4, 10, 7>>)}),
   Decoded(18, 1457, 32, <<8, 15, 15, 15, 7, 15, 0, 15>>, {Says(18, <<5, 0, 0, 10, 4, 13, 1, 0, 0, 14,
      0, 0, 1, 0, 0, 0, 0, 0, 2, 1, 0, 0>>)}),
   Decoded(96, 215, 41, <<2, 3, 8, 1, 2, 6, 13, 10, 10, 5, 8>>, {Says(96, <<4, 7, 0, 2, 4, 13, 11, 5,
      4, 11>>)}),
   Decoded(119, 508, 49, <<9, 13, 4, 15, 3, 15, 7, 5, 5, 4, 12, 9, 8>>, {Says(119, <<2, 12, 1, 7, 5,
      15, 3, 0, 0, 1, 5, 2>>)}),
   Decoded(43, 671, 56, <<6, 2, 14, 11, 7, 7, 5, 13, 7, 3, 8, 1, 4, 4>>, {Says(43, <<6, 2, 14, 11, 7,
      7, 5, 13, 7, 3, 8, 1, 4, 4>>)}),
   Decoded(12, 482, 71, <<5, 1, 15, 4, 6, 7, 14, 10, 3, 14, 0, 15, 14, 12, 14, 14, 14, 14>>,
      {Reads(<<12, 31, 1>>, {<<"temperature", 80>>, <<"battery_low", 1>>})}),
   Decoded(47, 247, 104, <<10, 10, 9, 9, 9, 5, 5, 9, 9, 5, 9, 10, 6, 9, 5, 9, 9, 6, 10, 6, 5, 10, 9, 5,
      6, 6>>, {Reads(<<47>>, {<<"temperature_food", 2500>>, <<"temperature_bbq", 2100>>})}),
   Decoded(129, 486, 128, <<0, 0, 2, 11, 3, 4, 2, 7, 15, 2, 14, 14, 5, 8, 12, 3, 15, 9, 7, 11, 14, 4,
      10, 5, 3, 14, 5, 14, 11, 7, 9, 11>>, {Reads(<<129, "", -1>>, {<<"battery_low", 1>>, <<"humidity",
      9000>>, <<"illuminance", 11510500>>, <<"rain", 153660>>, <<"temperature", 1840>>, <<"uv_index",
      720>>, <<"wind_direction", 16700>>, <<"wind_gust", 170>>, <<"wind_speed", 130>>})}),
   Decoded(58, 494, 161, <<8, 0, 0, 10, 14, 5, 14, 3, 10, 14, 7, 15, 13, 4, 4, 11, 12, 0, 0, 5, 7, 2,
      15, 1, 13, 7, 3, 15, 14, 10, 2, 5, 14, 0, 0, 2, 11, 9, 7, 8, 8>>, {Reads(<<58, "", 2>>,
      {<<"battery_low", 0>>, <<"temperature", 2220>>})}),
   Pulses(45, 101, <<2, 11, 12, 10, 14, 5, 0, 0, 0, 0, 3, 2, 0, 0, 0, 0, 0, 0, 11, 2, 8, 9, 4, 7, 0,
      0>>, {Says(45, <<2, 11, 12, 10, 14, 5, 0, 0, 0, 0, 3, 2, 0, 0, 0, 0, 0, 0, 11, 2, 8, 9>>)}),
   Pulses(60, 60, <<0, 0, 3, 1, 0, 8, 6, 7, 1, 0, 11, 4, 11, 11, 10>>, {Says(60, <<0, 1, 9, 0, 0, 1, 4,
      6>>)}),
   Pulses(60, 61, <<0, 0, 3, 1, 0, 8, 6, 7, 1, 0, 11, 4, 11, 11, 10, 8>>, {Says(60, <<0, 1, 9, 0, 0, 1,
      4, 6>>)}),
   Pulses(66, 44, <<10, 0, 8, 4, 7, 3, 2, 0, 7, 3, 12>>, {Says(66, <<10, 0, 8, 4, 7, 3, 2, 7, 3,
      12>>)}),
   Pulses(67, 33, <<5, 0, 4, 8, 11, 11, 0, 0, 0>>, {Says(67, <<10, 0, 9, 1, 7, 6, 0, 7, 6, 0>>)}),
   Pulses(70, 58, <<0, 0, 0, 11, 3, 3, 9, 7, 11, 9, 0, 1, 9, 10, 4>>, {Says(70, <<6, 6, 14, 5, 13, 12,
      0, 1>>)}),
   Pulses(73, 67, <<0, 0, 0, 8, 11, 9, 0, 2, 0, 0, 11, 6, 8, 0, 0, 6, 6>>, {Says(73, <<1, 7, 4, 0, 0,
      0, 0, 0, 11, 6, 0, 0>>)}),
   Pulses(74, 59, <<0, 0, 0, 4, 6, 0, 9, 0, 0, 7, 8, 0, 1, 11, 6>>, {Says(74, <<1, 8, 4, 8, 0, 7, 0, 0,
      0, 0>>)}),
   Pulses(74, 58, <<0, 0, 0, 8, 12, 1, 2, 0, 0, 15, 0, 0, 3, 6, 12>>, {Says(74, <<1, 8, 4, 8, 0, 7, 0,
      0, 0, 0>>)}),
   Pulses(80, 108, <<0, 0, 0, 0, 3, 0, 1, 8, 0, 14, 13, 4, 4, 6, 2, 1, 12, 0, 8, 0, 7, 0, 7, 4, 1, 7,
      10>>, {Says(80, <<0, 1, 0, 1, 5, 11, 8, 8, 0, 8, 0, 3, 0, 0, 8, 3, 0, 5>>)}),
   Station(27, 0, <<1, 1, 3, 12, 4, 9, 11, 0, 4, 8, 0, 6>>, {Reads(<<27, "", 2>>, {<<"battery_low",
      0>>, <<"humidity", 4800>>, <<"temperature", 1550>>})}),
   Station(33, 0, <<0, 5, 0, 1, 13, 13, 8, 0, 0, 3, 8>>, {Reads(<<33, "", 1>>, {<<"battery_low", 0>>,
      <<"temperature", 2420>>})}),
   Station(37, 0, <<13, 9, 1, 6, 5, 12, 3, 0, 7, 11>>, {Reads(<<37, "", 1>>, {<<"battery_low", 0>>,
      <<"humidity", 4800>>, <<"temperature", 2270>>})}),
   Station(38, 0, <<1, 2, 10, 2, 12, 5, 13, 0, 12>>, {Reads(<<38, "", 2>>, {<<"battery_low", 0>>,
      <<"temperature", 2090>>})}),
   Station(44, 0, <<13, 1, 2, 1, 6, 0, 6, 5, 2, 14, 13, 14, 9, 15, 9, 11, 1, 0>>, {Reads(<<44, "", 1>>,
      {<<"battery_low", 0>>, <<"humidity", 6800>>, <<"temperature", 320>>})}),
   Station(44, 1, <<1, 1, 4, 2, 0, 5, 0, 4, 14, 14, 11, 13, 15, 10, 15, 11, 1, 12>>, {Reads(<<44, "",
      2>>, {<<"battery_low", 0>>, <<"humidity", 8800>>, <<"temperature", 2820>>})}),
   Station(50, 0, <<15, 15, 5, 5, 0, 5, 4, 1, 15, 15, 9, 10>>, {Reads(<<50, "", 1>>, {<<"humidity",
      500>>, <<"temperature", 2500>>})}),
   Station(51, 0, <<1, 1, 2, 2, 5, 15, 11, 4, 0, 1>>, {Reads(<<51, "", 1>>, {<<"battery_low", 0>>,
      <<"humidity", 4000>>, <<"temperature", 1730>>})}),
   Station(53, 0, <<0, 7, 0, 0, 13, 15, 7, 10, 4, 14, 0>>, {Reads(<<53, "", 1>>, {<<"battery_low", 0>>,
      <<"humidity", 6100>>, <<"temperature", 2230>>})}),
   Station(54, 0, <<3, 13, 9, 12, 4, 3, 0, 6, 1, 8, 10, 10, 0, 1, 3, 4, 0>>, {Reads(<<54, "", -1>>,
      {<<"battery_low", 0>>, <<"rain", 7366>>})}),
   Station(58, 0, <<4, 6, 8, 7, 1, 4, 6, 0, 0, 10, 14, 13, 0>>, {Reads(<<58, "", 2>>, {<<"battery_low",
      0>>, <<"temperature", 2220>>})}),
   Station(64, 0, <<15, 15, 4, 11, 11, 0, 10, 14, 4, 10, 1, 12, 0, 15>>, {Reads(<<64, "", 0>>,
      {<<"battery_low", 0>>, <<"humidity", 7400>>, <<"temperature", 1740>>})}),
   Station(71, 0, <<5, 8, 9, 10, 8, 2, 9, 15, 13, 15, 15, 4>>, {Reads(<<71, "", 1>>, {<<"temperature",
      2420>>})}),
   Station(84, 0, <<0, 3, 3, 11, 1, 15, 12, 3, 2, 8>>, {Reads(<<84, "", 2>>, {<<"battery_low", 0>>,
      <<"humidity", 5900>>, <<"temperature", -610>>})}),
   Station(85, 0, <<0, 12, 4, 5, 12, 6, 0, 1, 2, 4, 11, 0, 5, 5, 4, 15, 8>>, {Reads(<<85, "", 1>>,
      {<<"battery_low", 0>>, <<"humidity", 8500>>, <<"temperature", 870>>})}),
   Station(89, 0, <<15, 0, 1, 2, 3, 3, 3, 14, 0, 1>>, {Reads(<<89, "", 2>>, {<<"battery_low", 0>>,
      <<"humidity", 6200>>, <<"temperature", 630>>})}),
   Station(94, 0, <<0, 13, 8, 3, 0, 6, 6, 1, 11, 3, 6, 6, 12>>, {Reads(<<94, "", -1>>,
      {<<"temperature", -1460>>})}),
   Station(106, 0, <<2, 6, 3, 2, 13, 12>>, {Reads(<<106, "", -1>>, {<<"temperature", 2260>>})}),
   Station(110, 0, <<9, 12, 1, 11, 0, 6, 0, 0, 0, 1, 14, 10, 0, 5, 10, 13, 4>>, {Reads(<<110, "", -1>>,
      {<<"battery_low", 0>>, <<"rain", 2660>>, <<"temperature", 1630>>})}),
   Station(111, 0, <<5, 11, 8, 8, 6, 0, 15, 1, 1, 0, 12, 4, 0, 0, 12, 9>>, {Reads(<<111, "", -1>>,
      {<<"distance", 11100>>, <<"temperature", 1680>>})}),
   Station(113, 0, <<2, 15, 0, 6, 14, 8, 9, 6, 13, 1, 4, 14>>, {Reads(<<113, "", -1>>,
      {<<"temperature", 20300>>, <<"temperature_2", 30000>>})}),
   Station(120, 0, <<15, 14, 10, 11, 0, 4, 9, 14, 10, 8, 0, 4, 0, 8, 0, 12, 5, 3, 10, 12>>,
      {Reads(<<120, "", -1>>, {<<"battery_low", 0>>, <<"humidity", 8400>>, <<"rain", 47310>>,
      <<"temperature", 1910>>, <<"wind_gust", 130>>, <<"wind_speed", 70>>})}),
   Station(122, 0, <<9, 2, 6, 3, 0, 1, 3, 6, 0, 1, 3, 6, 0, 1, 4, 0, 0, 1, 6, 8, 0, 0, 0, 0, 11, 8,
      8>>, {Reads(<<122, "", -1>>, {<<"battery_low", 0>>, <<"temperature", 3600>>, <<"temperature_2",
      3200>>, <<"temperature_3", 3100>>, <<"temperature_4", 3100>>})}),
   Station(129, 0, <<15, 15, 13, 4, 12, 0, 14, 0, 0, 2, 0, 3, 1, 11, 0, 0, 0, 0, 8, 4, 12, 0, 2, 4, 15,
      15, 15, 11, 15, 11, 0, 6>>, {Reads(<<129, "", -1>>, {<<"battery_low", 0>>, <<"humidity", 3600>>,
      <<"rain", 0>>, <<"temperature", 2760>>, <<"wind_direction", 2700>>, <<"wind_gust", 30>>,
      <<"wind_speed", 20>>})}),
   Station(48, 0, <<15, 15, 4, 9, 12, 0, 15, 3, 15, 15, 13, 9>>, {Reads(<<48, "", -1>>,
      {<<"temperature", 2430>>})}),
   Station(135, 0, <<8, 13, 9, 2, 14, 5, 5, 12, 0>>, {Reads(<<135, "", 1>>, {<<"battery_low", 0>>,
      <<"temperature", 2410>>})}),
   Station(136, 0, <<8, 3, 11, 5, 9, 10, 1, 11, 12, 5, 4, 10, 0, 0, 12, 13, 3, 10, 0, 0, 8, 0, 13, 2,
      0, 0>>, {Reads(<<136, "", 1>>, {<<"battery_low", 0>>, <<"humidity", 5800>>, <<"temperature", 2050>>,
      <<"wind_direction", 18000>>, <<"wind_speed", 0>>})})}

==============================================================================
