-------------------------------- MODULE SdWs --------------------------------
(***************************************************************************)
(* The weather stations of clients/sd_ws.py: the bits of a message become  *)
(* what Home Assistant shows of them, if the message has the form and the  *)
(* check of its protocol.  One operator for each entry of DECODERS.        *)
(*                                                                         *)
(* Bits are counted from 0, as in the code; a digit is four of them.  A    *)
(* reading is the device and a set of pairs of a subtype and its value, in *)
(* hundredths (reading_signals rounds to them), those without a subtype    *)
(* left out.  The lengths of messages are those their protocols let        *)
(* through.                                                                *)
(***************************************************************************)
EXTENDS Packets

\* bin_num, and the digits of the raw message.
Num(b, first, last) == Number(SubSeq(b, first + 1, IF last < Len(b) THEN last + 1 ELSE Len(b)))
Digit(b, k) == Num(b, 4 * k, 4 * k + 3)
DigitsOf(b) == Len(b) \div 4
Byte(b, k) == Num(b, 8 * k, 8 * k + 7)
BitAt(b, i) == b[i + 1]
Span(b, first, last) == SubSeq(b, first + 1, last + 1)

\* A quotient rounded to a whole number, of a tie the higher one.
Quotient(n, d) == (2 * n + d) \div (2 * d)

\* perl_round(n / d, 1), in hundredths.
Tenths(n, d) == 10 * Quotient(10 * n, d)

-----------------------------------------------------------------------------
(* Checks.  A register is the sequence of its bits, the highest first.      *)

Xor(a, b) == [i \in DOMAIN a |-> (a[i] + b[i]) % 2]
XorIf(bit, a, b) == IF bit = 1 THEN Xor(a, b) ELSE a
Left(r) == Tail(r) \o <<0>>
Right(r) == <<0>> \o Front(r)

Poly31 == <<0, 0, 1, 1, 0, 0, 0, 1>>
Zero8 == <<0, 0, 0, 0, 0, 0, 0, 0>>

\* The bytes of some bits (hex_bytes fills up the last one).
BytesOf(bits) ==
  [k \in 1..((Len(bits) + 7) \div 8) |->
     [i \in 1..8 |-> IF (8 * k - 8 + i) \in DOMAIN bits THEN bits[8 * k - 8 + i] ELSE 0]]

\* What becomes of a register in the eight steps of crc8, with polynomial 0x31.
Shifted8 == [r \in [1..8 -> {0, 1}] |-> FoldLeft(LAMBDA s, i : XorIf(Head(s), Left(s), Poly31), r, Zero8)]

Crc8(bits, init) == FoldLeft(LAMBDA crc, byte : Shifted8[Xor(crc, byte)], init, BytesOf(bits))

\* The sum of parts of some width, from bit 0 to before the last.
Sum(b, width, last) == FoldLeft(LAMBDA s, k : s + Num(b, width * (k - 1), width * k - 1), 0,
                                [k \in 1..(last \div width) |-> k])

\* _nibble_sums_ok.
NibbleSumsOk(b) ==
  LET sum1 == Digit(b, 0) + Digit(b, 2) + Digit(b, 4) + 6
      sum2 == Digit(b, 1) + Digit(b, 3) + Digit(b, 5) + 6 + sum1 \div 16
  IN sum1 % 16 = Digit(b, 6) /\ sum2 % 16 = Digit(b, 7)

\* _crc_33: a register of four bits, shifted to the right.
Crc33(b) ==
  LET step(crc, bit) == IF bit = Last(crc) THEN Right(crc) ELSE Xor(Right(crc), <<1, 1, 0, 0>>)
      crc == FoldLeft(step, <<0, 0, 0, 0>>, Span(b, 0, 33))
  IN Xor(crc, Reverse(Span(b, 34, 37))) = Reverse(Span(b, 38, 41))

\* Variant: the temperature is not compared.
TemeoFieldsBut == {<<0, 8>>, <<10, 2>>, <<9, 1>>, <<13, 7>>, <<12, 1>>}

TemeoFields == {<<0, 8>>, <<10, 2>>, <<9, 1>>, <<13, 7>>, <<12, 1>>, <<21, 11>>}

\* _crc_44: each field is repeated inverted 32 bits later.
Crc44(b) ==
  \A f \in TemeoFields : \A i \in f[1]..(f[1] + f[2] - 1) : BitAt(b, i) # BitAt(b, i + 32)

\* _lfsr_digest8_reflect, of seven bytes: the key shifts with the bits, from the last to the first.
\* The key's bits above the eighth are cut off in the end.
Digest54(b) ==
  LET step(s, bit) == [sum |-> XorIf(bit, s.sum, s.key), key |-> XorIf(Head(s.key), Left(s.key), Poly31)]
      start == [sum |-> Zero8, key |-> <<1, 1, 1, 1, 0, 1, 0, 0>>]
  IN FoldLeft(step, start, Reverse(Span(b, 0, 55))).sum

\* _crc_58: a mask that rotates to the right.
Digest58(b) ==
  LET rotated(m) == XorIf(Last(m), <<Last(m)>> \o Front(m), <<0, 0, 0, 1, 1, 0, 0, 0>>)
      step(s, bit) == [mask |-> rotated(s.mask), sum |-> XorIf(bit, s.sum, rotated(s.mask))]
      start == [mask |-> <<0, 1, 1, 1, 1, 1, 0, 0>>, sum |-> <<0, 1, 1, 0, 0, 1, 0, 0>>]
  IN FoldLeft(step, start, Span(b, 0, 39)).sum

\* _crc_64: the WH2A adds a sum.
Crc64(b) ==
  /\ Crc8(Span(b, 8, 47), Zero8) = Zero8
  /\ DigitsOf(b) = 14 => (1 + Sum(b, 8, 48)) % 256 = Byte(b, 6)

\* _crc_111.
Crc111(b) == FoldLeft(LAMBDA x, k : Xor(x, Span(b, 8 * k - 8, 8 * k - 1)), Zero8, [k \in 1..9 |-> k]) = Zero8

-----------------------------------------------------------------------------
(* Readings.                                                                *)

Reading(subtype, value) == {<<subtype, value>>}
Temperature(value) == Reading("temperature", value)
Humidity(percent) == Reading("humidity", 100 * percent)
Rain(value) == Reading("rain", value)

\* _ok_low.
Battery(b, i, ok) == Reading("battery_low", IF BitAt(b, i) = ok THEN 0 ELSE 1)

Signed(n, negative) == IF negative = 1 THEN -n ELSE n

Barbecue == {106, 113, 122}  \* BBQ_PROTOCOLS
NoChannel == -1

Shown(protocol, v) ==
  \/ v[1] \in {"temperature", "temperature_2"} /\ (protocol \in Barbecue \/ v[2] \in -5999..6999)
  \/ v[1] \in {"temperature_3", "temperature_4"} /\ (protocol = 122 \/ v[2] \in -5999..6999)
  \/ v[1] = "humidity" /\ v[2] \in 1..9999
  \/ v[1] \notin {"temperature", "temperature_2", "temperature_3", "temperature_4", "humidity"}

Implausible(protocol, v) ==
  \/ v[1] = "temperature" /\ v[2] \notin -3000..7000 /\ protocol \notin Barbecue
  \/ v[1] = "humidity" /\ v[2] > 10000

\* parse, when the form and the check are right or wrong.  Two protocols have a model more, for those
\* that send a humidity.
Read(protocol, ok, channel, values) ==
  LET model == IF protocol \in {33, 58} /\ \E v \in values : v[1] = "humidity" /\ v[2] # 0 THEN "H" ELSE ""
  IN IF ~ ok \/ \E v \in values : Implausible(protocol, v) THEN {}
     ELSE {[device |-> <<protocol, model, channel>>, values |-> {v \in values : Shown(protocol, v)}]}

-----------------------------------------------------------------------------
(* The protocols.                                                           *)

\* 27: EFTH-800.
Efth800(b) ==
  Read(27, /\ DigitsOf(b) = 12 /\ Digit(b, 7) \in {0, 8} /\ Digit(b, 8) <= 9 /\ Digit(b, 9) <= 9
           /\ Crc8(Span(b, 0, 39), Zero8) = Span(b, 40, 47),
       Num(b, 1, 3) + 1,
       Temperature(10 * (Num(b, 18, 27) - IF BitAt(b, 17) = 0 THEN 1024 ELSE 0))
         \union Humidity(Num(b, 32, 35) * 10 + Num(b, 36, 39)) \union Battery(b, 16, 0))

\* 33: S522, E0001PA, TX-EZ6.
S522(b) ==
  Read(33, DigitsOf(b) = 11 /\ Crc33(b), Num(b, 12, 13) + 1,
       Temperature(Tenths(Num(b, 22, 25) * 256 + Num(b, 18, 21) * 16 + Num(b, 14, 17) - 1220, 18))
         \union Humidity(Num(b, 30, 33) * 16 + Num(b, 26, 29)) \union Battery(b, 34, 0))

\* 37: Bresser 7009994.
Bresser(b) ==
  Read(37, /\ DigitsOf(b) \in {10, 11} /\ Digit(b, 2) \notin {0, 4, 8, 12} /\ Digit(b, 6) <= 7
           /\ Sum(b, 8, 32) % 256 = Byte(b, 4),
       Num(b, 10, 11),
       Temperature(Tenths(10 * (Num(b, 12, 23) - 1220) + 9, 180)) \union Humidity(Byte(b, 3))
         \union Battery(b, 8, 0))

\* 38: NC-3911, and 135: TFA 30.3255.02.
Thermometer(protocol, b) ==
  Read(protocol, DigitsOf(b) \in (IF protocol = 38 THEN {9} ELSE {8, 9}) /\ NibbleSumsOk(b), Num(b, 10, 11),
       Temperature(10 * (Num(b, 12, 23) - 500)) \union Battery(b, 8, 1))

\* Two numbers put together as decimal digits.
Joined(a, c) == IF c > 9 THEN 100 * a + c ELSE 10 * a + c

\* _temp_44 and _hum_44.
TemeoTemperature(b) ==
  LET tenth == Num(b, 28, 31)
      t == 100 * Joined(Num(b, 21, 23), Num(b, 24, 27)) + (IF tenth > 9 THEN tenth ELSE 10 * tenth)
  IN IF t > 6000 THEN {} ELSE Temperature(Signed(t, BitAt(b, 12)))

TemeoHumidity(b) ==
  LET h == Joined(Num(b, 0, 3), Num(b, 4, 7))
  IN IF h \in 1..100 THEN Humidity(h) ELSE {}

\* 44: BresserTemeo.  The bit before the others says that the humidity is above 79.
Temeo(received, x) ==
  LET b == <<x>> \o received
  IN Read(44, Len(received) = 72 /\ Crc44(b), Num(b, 10, 11),
          TemeoTemperature(b) \union TemeoHumidity(b) \union Battery(b, 9, 0))

\* 48: TFA 30.3212.
Joker(b) ==
  Read(48, /\ DigitsOf(b) >= 12 /\ Byte(b, 0) = 255 /\ Digit(b, 2) = 4 /\ Byte(b, 4) = 255
           /\ Crc8(Span(b, 0, 47), <<1, 1, 1, 1, 1, 1, 1, 1>>) = Zero8,
       NoChannel, Temperature(Signed(10 * Num(b, 21, 31), BitAt(b, 20))))

\* 50: XT300.
Xt300(b) ==
  Read(50, /\ DigitsOf(b) >= 12 /\ Byte(b, 0) = 255 /\ Digit(b, 2) = 5 /\ Byte(b, 4) = 255
           /\ (Sum(b, 8, 40) - Byte(b, 0)) % 256 = Byte(b, 5),
       Num(b, 14, 15), Temperature(100 * (Byte(b, 3) - 40)) \union Humidity(Byte(b, 2)))

\* 51: Auriol IAN 275901.
Auriol275901(b) ==
  Read(51, DigitsOf(b) = 10 /\ Digit(b, 9) \in 1..3, Num(b, 38, 39),
       Temperature(Tenths(Num(b, 16, 27) - 1220, 18)) \union Humidity(Num(b, 28, 31) * 10 + Num(b, 32, 35))
         \union Battery(b, 13, 0))

\* 53: Auriol IAN 314695.
Auriol314695(b) ==
  Read(53, DigitsOf(b) = 11 /\ Digit(b, 8) = 4 /\ Sum(b, 4, 36) % 64 = Num(b, 36, 41), Num(b, 10, 11) + 1,
       Temperature(10 * (Num(b, 12, 23) - 4096 * BitAt(b, 12))) \union Humidity(Num(b, 24, 30))
         \union Battery(b, 8, 0))

\* _rain_counter_54 and _rain_counter_110: the counter starts ten before it wraps.
RainCount(counter) == IF counter > 65525 THEN counter - 65526 ELSE counter + 10

\* 54: TFA Drop 30.3233.01.
Drop(b) ==
  Read(54, /\ DigitsOf(b) \in {16, 17} /\ Digit(b, 0) = 3 /\ Byte(b, 5) = 170
           /\ Digest54(b) = Span(b, 56, 63),
       NoChannel, Rain(Quotient(254 * RainCount(Byte(b, 4) + Byte(b, 6) * 256), 10)) \union Battery(b, 24, 0))

\* 58: TFA 30.3208.02, FT007xx.
Ft007(b) ==
  Read(58, DigitsOf(b) >= 13 /\ Digit(b, 0) = 4 /\ Digit(b, 1) \in {5, 6} /\ Digest58(b) = Span(b, 40, 47),
       Num(b, 17, 19) + 1,
       Temperature(Tenths((Num(b, 20, 31) - 720) * 139, 2500))
         \union Humidity(IF Digit(b, 1) = 5 THEN Byte(b, 4) ELSE 0) \union Battery(b, 16, 0))

\* Variant: a message whose first bits were lost is shifted once.
ShiftedOnce(b) == IF Byte(b, 0) \in {253, 254} THEN <<1>> \o Front(b) ELSE b

\* _prematch_64: the preamble is made whole.
Shifted(b) ==
  LET shift(r) == <<1>> \o Front(r)
  IN CASE Byte(b, 0) = 254 -> shift(b)
       [] Byte(b, 0) = 253 -> shift(shift(b))
       [] OTHER -> b

\* 64: WH2, WH2A.
Wh2(received) ==
  LET b == Shifted(received)
  IN Read(64, Byte(b, 0) = 255 /\ Crc64(b), 0,
          Temperature(Signed(10 * Num(b, 21, 31), BitAt(b, 20))) \union Humidity(Byte(b, 4))
            \union Battery(b, 32, 0))

\* 71: PV-8644.
Pv8644(b) ==
  Read(71, DigitsOf(b) >= 10 /\ Digit(b, 0) = 5 /\ Digit(b, 7) = 15, Num(b, 26, 27),
       Temperature(10 * (Num(b, 12, 23) - 2448)))

Signed12(b, first) == LET raw == Num(b, first, first + 11) IN IF raw > 1023 THEN raw - 4096 ELSE raw

\* 84: Auriol IAN 283582.
Auriol283582(b) ==
  Read(84, DigitsOf(b) \in {10, 11} /\ Digit(b, 4) \notin {3, 7, 11, 15}, Num(b, 18, 19) + 1,
       Temperature(10 * Signed12(b, 20)) \union Humidity(Byte(b, 1)) \union Battery(b, 16, 0))

\* 85: TFA 30.3222.02.  A message has a temperature and a humidity, or a wind speed.
Tfa3222(b) ==
  LET values == CASE Num(b, 30, 31) = 1 -> Temperature(10 * (Num(b, 32, 43) - 500)) \union Humidity(Byte(b, 6))
                  [] Num(b, 30, 31) = 2 -> Reading("wind_speed", 10 * Num(b, 32, 43))
                  [] OTHER -> {}
  IN Read(85, DigitsOf(b) >= 16 /\ Crc8(Span(b, 0, 55), Zero8) = Span(b, 56, 63), Num(b, 26, 27) + 1,
          values \union Battery(b, 24, 0))

\* 89: TFA 30.3221.02.
Tfa3221(b) ==
  Read(89, DigitsOf(b) = 10 /\ Digit(b, 2) \notin {3, 7, 11, 15}, Num(b, 10, 11) + 1,
       Temperature(10 * (Num(b, 12, 23) - 500)) \union Humidity(Byte(b, 3)) \union Battery(b, 8, 0))

\* Each 1 is sent as 110.
Unstuffed(b) ==
  LET from[i \in 1..(Len(b) + 3)] ==
        CASE i > Len(b) -> <<>>
          [] i + 2 <= Len(b) /\ SubSeq(b, i, i + 2) = <<1, 1, 0>> -> <<1>> \o from[i + 3]
          [] OTHER -> <<b[i]>> \o from[i + 1]
  IN from[1]

\* 94: Atech.  Getting its id rewrites the bits before the temperature is read from them.
Atech(received) ==
  LET b == Unstuffed(received)
      digits == <<Num(b, 12, 15), Num(b, 16, 19), Num(b, 20, 23)>>
      t == 1000 * digits[1] + 100 * digits[2] + 10 * digits[3]
  IN Read(94, TRUE, NoChannel, IF \E i \in 1..3 : digits[i] > 9 THEN {} ELSE Temperature(Signed(t, Num(b, 10, 10))))

\* 106: GT-TMBBQ-01.
Tmbbq(b) == Read(106, TRUE, NoChannel, Temperature(Tenths(Num(b, 8, 21) - 2440, 36)))

\* 110: ADE WS1907.
Ws1907(b) ==
  Read(110, Sum(b, 8, 56) % 256 = Byte(b, 7), NoChannel,
       Temperature(Tenths(Byte(b, 6) * 256 + Byte(b, 5) - 1220, 18))
         \union Rain(10 * RainCount(Byte(b, 4) * 256 + Byte(b, 3))) \union Battery(b, 16, 0))

\* 111: TS-FT002, after its preamble 5F.
Ft002(received) ==
  LET b == <<0, 1, 0, 1, 1, 1, 1, 1>> \o received
      reversed(first) == Number(Reverse(Span(b, first, first + 3)))
  IN Read(111, DigitsOf(b) >= 18 /\ Byte(b, 2) = 136 /\ Crc111(b), NoChannel,
          Reading("distance", 100 * (reversed(24) * 16 + reversed(28) * 256 + reversed(32)))
            \union Temperature(10 * (reversed(48) * 16 + reversed(52) * 256 + reversed(40) - 400)))

\* 113: GFGT 433 B1.
Gfgt433(b) ==
  LET degrees(high, low) == 100 * Quotient((Num(b, high, high + 1) * 256 + Num(b, low, low + 7) - 122) * 5, 9)
  IN Read(113, TRUE, NoChannel,
          Temperature(degrees(12, 16)) \union Reading("temperature_2", degrees(14, 24)))

\* 120: TFA 35.1077.54.S2.  It sends the time now and then, which is not shown.
Tfa351077(b) ==
  LET weather == Temperature(10 * Num(b, 21, 30) - 4000) \union Humidity(Num(b, 31, 38))
                   \union Reading("wind_speed", Tenths(Num(b, 39, 46), 3))
                   \union Reading("wind_gust", Tenths(Num(b, 47, 54), 3)) \union Rain(30 * Num(b, 55, 70))
  IN Read(120, Crc8(Span(b, 8, Len(b) - 1), Zero8) = Zero8, NoChannel,
          (IF BitAt(b, 19) = 1 THEN {} ELSE weather) \union Battery(b, 20, 0))

\* 122: TM40, four probes that may be unplugged.
Tm40(b) ==
  LET probe(subtype, flags, first) ==
        IF Num(b, flags, flags + 2) # 0 THEN {} ELSE Reading(subtype, 10 * Num(b, first, first + 15))
  IN Read(122, TRUE, NoChannel,
          probe("temperature", 93, 64) \union probe("temperature_2", 89, 48)
            \union probe("temperature_3", 85, 32) \union probe("temperature_4", 81, 16) \union Battery(b, 88, 0))

\* 129: Sainlogic FT-0835.  A direction beyond the list of names is an error, and no reading.
Ft0835(b) ==
  LET direction == BitAt(b, 29) * 256 + Byte(b, 6)
      light == IF Byte(b, 14) = 251 THEN {}
               ELSE Reading("illuminance", 100 * (BitAt(b, 72) * 65536 + Num(b, 96, 111)))
                      \union Reading("uv_index", 10 * Byte(b, 14))
  IN Read(129, Num(b, 0, 15) = 65492 /\ Crc8(Span(b, 16, 127), <<1, 1, 0, 0, 0, 0, 0, 0>>) = Zero8 /\ direction <= 371,
          NoChannel,
          Temperature(Tenths(Num(b, 76, 87) - 720, 18)) \union Humidity(Num(b, 88, 95))
            \union Reading("wind_speed", 10 * (BitAt(b, 31) * 256 + Byte(b, 4)))
            \union Reading("wind_gust", 10 * (BitAt(b, 30) * 256 + Byte(b, 5)))
            \union Reading("wind_direction", 100 * direction) \union Rain(10 * Num(b, 56, 71))
            \union light \union Battery(b, 28, 0))

\* 136: EMOS E06016.
Emos(b) ==
  Read(136, DigitsOf(b) = 26 /\ (335 + Sum(b, 8, 88)) % 256 = Byte(b, 11), Num(b, 50, 51) + 1,
       Temperature(10 * Signed12(b, 52)) \union Humidity(Num(b, 65, 71))
         \union Reading("wind_speed", Tenths(Byte(b, 9) * 59, 200))
         \union Reading("wind_direction", 2250 * Num(b, 80, 83)) \union Battery(b, 85, 0))

\* parse: the decoder of a protocol, x that of a message whose preamble ends in an x.
SdWs(protocol, x, b) ==
  CASE protocol = 27 -> Efth800(b)
    [] protocol = 33 -> S522(b)
    [] protocol = 37 -> Bresser(b)
    [] protocol \in {38, 135} -> Thermometer(protocol, b)
    [] protocol = 44 -> Temeo(b, x)
    [] protocol = 48 -> Joker(b)
    [] protocol = 50 -> Xt300(b)
    [] protocol = 51 -> Auriol275901(b)
    [] protocol = 53 -> Auriol314695(b)
    [] protocol = 54 -> Drop(b)
    [] protocol = 58 -> Ft007(b)
    [] protocol = 64 -> Wh2(b)
    [] protocol = 71 -> Pv8644(b)
    [] protocol = 84 -> Auriol283582(b)
    [] protocol = 85 -> Tfa3222(b)
    [] protocol = 89 -> Tfa3221(b)
    [] protocol = 94 -> Atech(b)
    [] protocol = 106 -> Tmbbq(b)
    [] protocol = 110 -> Ws1907(b)
    [] protocol = 111 -> Ft002(b)
    [] protocol = 113 -> Gfgt433(b)
    [] protocol = 120 -> Tfa351077(b)
    [] protocol = 122 -> Tm40(b)
    [] protocol = 129 -> Ft0835(b)
    [] protocol = 136 -> Emos(b)

=============================================================================
