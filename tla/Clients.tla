------------------------------- MODULE Clients -------------------------------
(***************************************************************************)
(* The client modules of telegrams that Codes reads, but for those whose   *)
(* module is not modelled, where the message stands for its reading:       *)
(* clients/hideki.py, clients/sd_ws_maverick.py and, by SdWs,              *)
(* clients/sd_ws.py.                                                       *)
(***************************************************************************)
EXTENDS Codes

\* _second_check, of a byte.
SecondCheck(received) ==
  LET key == <<0, 1, 0, 1, 1, 1, 1, 1>>
      b == XorIf(Head(received), received, <<1, 0, 0, 1, 0, 1, 0, 1>>)
      c == XorIf(Last(b), Xor(b, Right(b)), key)
  IN Xor(XorIf(Last(c), b, key), Right(c))

\* How many bytes follow the third, in its bits.
HidekiCount(byte) == Number(Xor(Slice(byte, 2, 7), Slice(byte, 3, 8)))

\* decrypt_and_check: the bytes of a message, from byte 0, if both checks are right.
HidekiBytes(bits) ==
  LET raw == [k \in 0..(Len(bits) \div 8 - 1) |-> Slice(bits, 8 * k, 8 * k + 8)]
      count == HidekiCount(raw[2])
      checked == [i \in 1..(count + 1) |-> raw[i]]
      plain == [k \in DOMAIN raw |-> IF k \in DOMAIN checked THEN Xor(raw[k], Left(raw[k])) ELSE raw[k]]
      sum == FoldLeft(LAMBDA s, byte : SecondCheck(Xor(byte, s)), Zero8, checked)
  IN IF \/ 2 \notin DOMAIN raw \/ (count + 2) \notin DOMAIN raw \/ Number(raw[0]) # 117
        \/ XorOf(checked) # Zero8 \/ sum # raw[count + 2]
     THEN {} ELSE {plain}

HighDigit(byte) == Number(Slice(byte, 0, 4))
LowDigit(byte) == Number(Slice(byte, 4, 8))

\* _temperature and _windchill.
HidekiDegrees(low, high) ==
  LET tenths == 100 * LowDigit(high) + 10 * HighDigit(low) + LowDigit(low)
  IN 10 * Signed(tenths, 1 - Head(high))

\* Tenths of miles per hour, in hundredths of metres per second.
HidekiSpeed(hundreds, tens, ones) == Quotient((100 * hundreds + 10 * tens + ones) * 44704, 10000)

WindDirectionMap == <<0, 15, 13, 14, 9, 10, 12, 11, 1, 2, 4, 3, 8, 7, 5, 6>>

\* SENSOR_TYPES.
HidekiValues(type, d) ==
  CASE type = 30 -> Temperature(HidekiDegrees(d[4], d[5])) \union Humidity(10 * HighDigit(d[6]) + LowDigit(d[6]))
    [] type = 14 -> Rain(70 * (Number(d[4]) + 255 * Number(d[5])))
    [] type = 12 -> Temperature(HidekiDegrees(d[4], d[5]))
                      \union Reading("wind_chill", HidekiDegrees(d[6], d[7]))
                      \union Reading("wind_direction", 2250 * WindDirectionMap[HighDigit(d[11]) + 1])
                      \union Reading("wind_gust", HidekiSpeed(HighDigit(d[10]), LowDigit(d[10]), HighDigit(d[9])))
                      \union Reading("wind_speed", HidekiSpeed(LowDigit(d[9]), HighDigit(d[8]), LowDigit(d[8])))
    [] OTHER -> Temperature(HidekiDegrees(d[4], d[5]))

LastByteOf(type) == CASE type = 30 -> 7 [] type = 12 -> 11 [] OTHER -> 5

HidekiTypes == {30, 31, 14, 12, 13}

\* parse: a message that ends before its last value is none.
Hideki(bits) ==
  LET type(d) == Number(Slice(d[3], 3, 8))
      channel(d) == LET c == Number(Slice(d[1], 0, 3)) IN IF c >= 5 THEN c - 1 ELSE c
      battery(d) == Reading("battery_low", IF Slice(d[2], 0, 2) = <<1, 1>> THEN 0 ELSE 1)
      read == {d \in HidekiBytes(bits) : /\ 3 \in DOMAIN d /\ type(d) \in HidekiTypes
                                         /\ LastByteOf(type(d)) \in DOMAIN d}
  IN {[device |-> <<12, type(d), channel(d)>>, values |-> HidekiValues(type(d), d) \union battery(d)] : d \in read}

-----------------------------------------------------------------------------
(* sd_ws_maverick.py: five digits of two bits, each sent twice, are a       *)
(* temperature.                                                             *)

\* The digit that 5, 6, 9 or A stands for.
Quaternary(nibble) == 2 * nibble[1] + nibble[3]

Probe(subtype, bits) ==
  LET digits == [k \in 1..5 |-> Quaternary(Slice(bits, 4 * k - 4, 4 * k))]
      degrees == FoldLeft(LAMBDA n, digit : 4 * n + digit, 0, digits) - 532
  IN IF degrees \in 1..300 THEN Reading(subtype, 100 * degrees) ELSE {}

MaverickTypes == {85, 89, 102, 106}

Maverick(bits) ==
  IF Number(Slice(bits, 0, 8)) \notin MaverickTypes THEN {}
  ELSE {[device |-> <<47>>, values |-> Probe("temperature_food", Slice(bits, 8, 28))
                                         \union Probe("temperature_bbq", Slice(bits, 28, 48))]}

-----------------------------------------------------------------------------
\* process_line, of a message: one whose protocol has no client is dropped.
Client(message) ==
  CASE message.protocol = 12 -> Hideki(message.bits)
    [] message.protocol = 47 -> Maverick(message.bits)
    [] message.protocol \in {58, 129} -> SdWs(message.protocol, 0, message.bits)
    [] message.protocol = 52 -> {}
    [] OTHER -> {message}

=============================================================================
