-------------------------------- MODULE Codes --------------------------------
(***************************************************************************)
(* functions.py: what the bits of a received telegram must be for their    *)
(* protocol, and how they are rearranged into its message.  A function of  *)
(* postDemodulation reads the bits that pulses stand for (MS, MU), a       *)
(* method those that the firmware has decoded itself (MC).                 *)
(*                                                                         *)
(* Bits are counted from 0, as in the code.  Each yields the set of what   *)
(* it returns, the bits of the hexadecimal digits: empty if the telegram   *)
(* does not match.                                                         *)
(***************************************************************************)
EXTENDS SdWs, Demodulation

\* bits[first:end].
Slice(bits, first, end) == SubSeq(bits, first + 1, IF end < Len(bits) THEN end ELSE Len(bits))
From(bits, first) == Slice(bits, first, Len(bits))

\* bits.find(pattern, first): -1 if it is not found.
Find(bits, pattern, first) ==
  LET found == {i \in Occurrences(pattern, bits) : i > first}
  IN IF found = {} THEN -1 ELSE Min(found) - 1

Copies(bit, n) == [i \in 1..n |-> bit]
Inverted(bits) == [i \in DOMAIN bits |-> 1 - bits[i]]
Rev(bits, first, length) == Reverse(Slice(bits, first, first + length))
NibbleOf(n) == [k \in 1..4 |-> (n \div 2^(4 - k)) % 2]
ByteOf(n) == NibbleOf(n \div 16) \o NibbleOf(n % 16)

\* bin_to_hex, which groups the digits from the right.
Hex(bits) == Copies(0, (4 - (Len(bits) % 4)) % 4) \o bits

\* length_in_range.
InRange(protocol, length) == length \in protocol.min..protocol.max

SumOf(numbers) == FoldLeft(LAMBDA s, n : s + n, 0, numbers)
Even(bits) == SumOf(bits) % 2 = 0
Numbers(parts) == [k \in DOMAIN parts |-> Number(parts[k])]
XorOf(parts) == FoldLeft(Xor, Copies(0, Len(parts[1])), parts)
Chunks(bits, width) == [k \in 1..(Len(bits) \div width) |-> Slice(bits, width * (k - 1), width * k)]

-----------------------------------------------------------------------------
(* postDemodulation.                                                        *)

\* The bytes of a frame, each of which a bit of parity follows.
FrameBytes(frame) == [k \in 1..(Len(frame) \div 9) |-> Slice(frame, 9 * k - 9, 9 * k - 1)]

\* postDemo_EM: nine bytes and their sum, with a bit after each but the last.
PostDemoEM(bits) ==
  LET start == Find(bits, Copies(0, 9) \o <<1>>, 0)
      msg == From(bits, start + 10)
      bytes == FrameBytes(msg \o <<0>>)
  IN IF start <= 0 \/ Len(msg) # 89 \/ XorOf(bytes) # Zero8 THEN {}
     ELSE {FlattenSeq([k \in 1..9 |-> Reverse(bytes[k])])}

PostDemoRevolt(bits) ==
  IF SumOf(Numbers(Chunks(Slice(bits, 0, 88), 8))) % 256 # Number(Slice(bits, 88, 96)) THEN {}
  ELSE {Slice(bits, 0, 88)}

\* The bytes of an FHT frame, if its parities and its sum are right.
FhtBytes(frame) ==
  LET bytes == FrameBytes(frame)
      total == 12 + SumOf(Numbers(Front(bytes)))
  IN IF total % 256 = Number(Last(bytes)) /\ \A part \in ToSet(Chunks(frame, 9)) : Even(part)
     THEN {Front(bytes)} ELSE {}

\* postDemo_FHT80: a third byte is inserted.  A sum that is six lower is that of FS20.
PostDemoFHT80(bits) ==
  LET after == AfterStart(bits)
      frame == IF Len(after) = 55 THEN Front(after) ELSE after
  IN IF Len(frame) # 54 THEN {}
     ELSE {FlattenSeq(InsertAt(bytes, 4, Zero8)) : bytes \in {b \in FhtBytes(frame) : b[4][3] = 1}}

PostDemoFHT80TF(bits) ==
  LET frame == AfterStart(bits)
  IN IF Len(bits) < 46 \/ Len(frame) # 45 THEN {}
     ELSE {FlattenSeq(bytes) : bytes \in {b \in FhtBytes(frame) : b[4][3] = 0}}

WS2000Lengths == <<35, 50, 35, 50, 70, 40, 40, 85>>

\* The digits of a message of WS2000 in the order its client reads them, by where they are received.
WS2000Order(type) ==
  IF type \in {0, 2} THEN <<5, 0, 15, 10, 20>>
  ELSE <<5, 0, 15, 10, 25, 20>> \o (IF type \in {1, 3, 4, 7} THEN <<35, 30>> ELSE <<>>)
                                \o (IF type = 4 THEN <<45, 40, 55, 50>> ELSE <<>>)

\* postDemo_WS2000: a 1 before each digit, which is sent backwards; a check, and but for one form of
\* type 1 a sum.
PostDemoWS2000(bits) ==
  LET data == AfterStart(bits)
      length == Len(data) + 1
      start == Len(bits) - length
      short == length \in {45, 46}
      type == Number(Rev(data, 0, 4))
      whole == length - (length % 5) + IF type = 1 /\ short THEN 5 ELSE 0
      groups == {i \in 0..length : i % 5 = 0 /\ (i = 0 \/ i < length - 1)}
      digit(i) == Number(Rev(data, i, 4))
      checked == {i \in groups : i <= length - (IF short THEN 5 ELSE 10)}
      check(j) == Cardinality({i \in checked : NibbleOf(digit(i))[j] = 1}) % 2
      total == 5 + MapThenSumSet(digit, checked)
  IN IF \/ \A i \in DOMAIN bits : bits[i] = 0
        \/ type > 7
        \/ WS2000Lengths[type + 1] # whole \/ start > 10
        \/ \E i \in groups : i + 5 > length \/ (i > 0 /\ data[i] # 1)
        \/ \E j \in 1..4 : check(j) # 0
        \/ ~ short /\ digit(Max(groups)) # total % 16
     THEN {}
     ELSE {FlattenSeq([k \in DOMAIN WS2000Order(type) |-> Rev(data, WS2000Order(type)[k], 4)])}

PostDemoWS7035(bits) ==
  IF \/ Slice(bits, 0, 8) # <<1, 0, 1, 0, 0, 0, 0, 0>>
     \/ ~ Even(Slice(bits, 15, 28))
     \/ SumOf(Numbers(Chunks(Slice(bits, 0, 40), 4))) % 16 # Number(Slice(bits, 40, 44))
  THEN {} ELSE {Slice(bits, 0, 27) \o From(bits, 31)}

PostDemoWS7053(bits) ==
  LET start == Find(bits, <<1, 0, 1, 0, 0, 0, 0, 0>>, 0)
      msg == IF start > 0 THEN From(bits, start) \o <<0>> ELSE bits
  IN IF start < 0 \/ Len(msg) < 32 \/ ~ Even(Slice(msg, 15, 28)) THEN {}
     ELSE {Slice(msg, 0, 28) \o Slice(msg, 16, 24) \o Slice(msg, 28, 32)}

PostDemoLengtnPrefix(bits) == {ByteOf(Len(bits)) \o bits}

Convbit2Arctec(bits) == {FlattenSeq([i \in DOMAIN bits |-> <<bits[i], 1 - bits[i]>>])}

Float == 2

\* A float may only follow a 0.
Convbit2itv1(bits) ==
  LET after0(i) == i > 1 /\ bits[i - 1] = 0
  IN IF \E i \in DOMAIN bits : bits[i] = Float /\ ~ after0(i) THEN {}
     ELSE {[i \in DOMAIN bits |-> IF bits[i] = Float THEN 1 ELSE bits[i]]}

\* ConvHE800 and ConvHE_EU.
Filled(bits, length) == {bits \o Copies(0, length - Len(bits))}

\* POST_DEMODULATION, by the protocols that name them.
PostDemodulated(id, bits) ==
  CASE id = 80 -> PostDemoEM(bits)
    [] id = 45 -> PostDemoRevolt(bits)
    [] id = 74 -> PostDemoFS20(bits)
    [] id = 73 -> PostDemoFHT80(bits)
    [] id = 70 -> PostDemoFHT80TF(bits)
    [] id = 60 -> PostDemoWS2000(bits)
    [] id = 66 -> PostDemoWS7035(bits)
    [] id = 67 -> PostDemoWS7053(bits)
    [] OTHER -> {bits}

-----------------------------------------------------------------------------
(* Methods.                                                                 *)

MCRAW(protocol, bits, length) == IF length > protocol.max THEN {} ELSE {Hex(bits)}

\* mc2dmc: of the two halves of each bit, the second is compared with the first of the next.
Mc2Dmc(bits) == [k \in 1..(Len(bits) - 1) |-> IF bits[k] = bits[k + 1] THEN 1 ELSE 0]

\* The check of Funkbus, of the xor of all digits but its own.
FunkbusCheck(bytes) ==
  LET n == XorOf(Chunks(XorOf(bytes), 4))
  IN <<(n[1] + n[3]) % 2, n[1], (n[2] + n[4]) % 2, n[4]>>

\* mcBit2Funkbus.
McBit2Funkbus(protocol, bits, length) ==
  LET dmc == Mc2Dmc(bits)
      start == Find(dmc, <<0, 1, 1, 0, 0>>, 0)
      msg == <<0, 0, 1>> \o From(dmc, start)
      checked == Slice(msg, 0, 43) \o Copies(0, 5)
  IN IF \/ ~ InRange(protocol, length)
        \/ start \notin 0..4 \/ Len(msg) < 48
        \/ ~ Even(Slice(msg, 0, 44))
        \/ FunkbusCheck(Chunks(checked, 8)) # Slice(msg, 44, 48)
     THEN {} ELSE {Slice(msg, 0, 48)}

\* mcBit2Sainlogic: the ones that were lost before the start are put back.
McBit2Sainlogic(protocol, bits, length) ==
  LET start == Find(bits, <<0, 1, 0, 1, 0, 0>>, 0)
      whole == Slice(Copies(1, 10 - start) \o bits, 0, 128)
  IN CASE length > protocol.max -> {}
       [] length < 128 /\ (start \notin 0..10 \/ Len(whole) < protocol.min) -> {}
       [] length < 128 /\ start \in 0..10 /\ Len(whole) >= protocol.min -> {Hex(whole)}
       [] OTHER -> {Hex(bits)}

\* Where a part that begins with a pattern ends: where the pattern is found again, or with the bits.
EndOf(bits, pattern, first) ==
  LET again == Find(bits, pattern, first) IN IF again = -1 THEN Len(bits) ELSE again

McBit2AS(protocol, bits) ==
  LET sync == <<1, 1, 0, 0>>
      start == Find(bits, sync, 16)
  IN IF start < 0 \/ ~ InRange(protocol, EndOf(bits, sync, start + 16) - start) THEN {}
     ELSE {Hex(From(bits, start))}

McBit2Grothe(protocol, bits, length) ==
  LET cut == Slice(bits, 0, length)
      start == Find(cut, <<0, 1, 0, 0, 0, 1, 1, 1>>, 0)
      msg == IF start = 1 /\ Head(cut) = 0 THEN Tail(cut) ELSE cut
  IN IF start \notin 0..5 \/ ~ InRange(protocol, Len(msg)) THEN {} ELSE {Hex(msg)}

Hideki75 == <<1, 0, 1, 0, 1, 1, 1, 0>>

\* The bits as they were sent: inverted, if the start is only found so, or is found so earlier.
Upright(bits) ==
  LET start == Find(bits, Hideki75, 0)
      inverse == Find(bits, Inverted(Hideki75), 0)
  IN IF start < 0 \/ (inverse # -1 /\ start > 0 /\ inverse < start) THEN Inverted(bits) ELSE bits

\* mcBit2Hideki: a first bit that was lost is put back.  Bytes are sent backwards, with a parity.
McBit2Hideki(protocol, received, length) ==
  LET bits == Upright(IF length = 89 THEN <<1 - Head(received)>> \o received ELSE received)
      start == Find(bits, Hideki75, 0)
      end == EndOf(bits, Hideki75, start + 71)
      byte(i) == LET part == Rev(bits, i, 8) IN Copies(0, 8 - Len(part)) \o part
  IN IF start < 0 \/ ~ InRange(protocol, end - start) THEN {}
     ELSE {FlattenSeq([k \in 1..((end - start + 8) \div 9) |-> byte(start + 9 * (k - 1))])}

McBit2Maverick(bits) ==
  LET header == <<1,0,1,0, 1,0,1,0, 1,0,0,1, 1,0,0,1, 1,0,0,1, 0,1,0,1>>
      start == Find(bits, header, 0)
  IN IF start < 0 THEN {} ELSE {Hex(Slice(bits, start + 24, start + 24 + 104))}

OSV1Channels == {<<0, 0>>, <<1, 0>>, <<0, 1>>}

\* mcBit2OSV1: the message is put into the form of the later version, with a sum of its own.
McBit2OSV1(protocol, received, length) ==
  LET bits == IF Slice(received, 20, 21) = <<0>> THEN received ELSE Inverted(received)
      total == SumOf([k \in 1..3 |-> Number(Rev(bits, 8 * (k - 1), 8))])
      channel == Slice(bits, 6, 8)
      number == CASE channel = <<0, 0>> -> 1 [] channel = <<1, 0>> -> 2 [] OTHER -> 3
      message == NibbleOf(0) \o NibbleOf(10) \o NibbleOf(4) \o NibbleOf(13) \o NibbleOf(number) \o ByteOf(0)
                   \o Rev(bits, 0, 4) \o Rev(bits, 8, 4) \o <<0, bits[24], 0, 0>> \o Rev(bits, 16, 4)
                   \o Rev(bits, 12, 4) \o NibbleOf(0) \o <<bits[22], 0, 0, 0>> \o ByteOf(0)
      sum == (SumOf(Numbers(Chunks(message, 4))) - 10) % 256
  IN IF \/ ~ InRange(protocol, length)
        \/ (total % 256) + (total \div 256) # Number(Rev(bits, 24, 8))
        \/ channel \notin OSV1Channels
     THEN {} ELSE {ByteOf(80) \o message \o ByteOf(sum) \o ByteOf(0)}

McBit2OSPIR(bits) ==
  IF \E run \in {Copies(0, 14), Copies(1, 14)} : Find(bits, run, 0) # -1 THEN {Hex(bits)} ELSE {}

McBit2SomfyRTS(bits, length) == {Hex(IF length = 57 THEN Slice(bits, 1, 57) ELSE bits)}

\* mcBit2TFA, its messages: up to the next preamble, or the end.
TfaParts(bits, length) ==
  LET end(first) == LET next == Find(bits, Copies(1, 11) \o <<0, 1>>, first)
                    IN IF next < first THEN length ELSE next
      parts[first \in 0..(Len(bits) + 4)] ==
        <<Slice(bits, first, end(first))>>
          \o IF end(first) >= length THEN <<>> ELSE parts[Find(bits, <<1, 1, 0, 1>>, end(first)) + 4]
  IN parts[Find(bits, Copies(1, 9) \o <<1, 0, 1>>, 0) + 12]

\* Of the messages that were received at least twice, the one that was so first.
Trusted(messages) ==
  LET again == {j \in DOMAIN messages : \E i \in 1..(j - 1) : messages[i] = messages[j]}
  IN IF again = {} THEN {} ELSE {messages[Min(again)]}

McBit2TFA(protocol, bits, length) ==
  LET parts == TfaParts(bits, length)
      messages == SelectSeq(parts, LAMBDA part : InRange(protocol, Len(part)))
  IN IF Find(bits, Copies(1, 9) \o <<1, 0, 1>>, 0) = -1 \/ Len(parts) > 10 THEN {}
     ELSE Trusted([k \in DOMAIN messages |-> Hex(messages[k])])

-----------------------------------------------------------------------------
(* Telegrams that the firmware has decoded.                                 *)

\* protocols.json, those in manchester format whose method is above.
McProtocol(id, method, low, high, inverted, min, max) ==
  [id |-> id, method |-> method, low |-> low, high |-> high, inverted |-> inverted, min |-> min, max |-> max]

McProtocols ==
  {McProtocol(11, "AS", 380, 425, FALSE, 52, 56), McProtocol(12, "Hideki", 420, 510, FALSE, 71, 128),
   McProtocol(18, "OSV1", 1400, 1500, TRUE, 32, 32), McProtocol(43, "SomfyRTS", 610, 680, FALSE, 56, 57),
   McProtocol(47, "Maverick", 180, 260, FALSE, 100, 108), McProtocol(52, "OSPIR", 470, 640, TRUE, 30, 30),
   McProtocol(57, "MCRAW", 300, 360, TRUE, 21, 24), McProtocol(58, "TFA", 460, 520, TRUE, 52, 52),
   McProtocol(96, "Grothe", 170, 260, FALSE, 40, 49), McProtocol(119, "Funkbus", 490, 520, FALSE, 47, 52),
   McProtocol(129, "Sainlogic", 450, 550, TRUE, 128, 128)}

\* MC_METHODS.
Method(protocol, bits, length) ==
  CASE protocol.method = "MCRAW" -> MCRAW(protocol, bits, length)
    [] protocol.method = "AS" -> McBit2AS(protocol, bits)
    [] protocol.method = "Funkbus" -> McBit2Funkbus(protocol, bits, length)
    [] protocol.method = "Grothe" -> McBit2Grothe(protocol, bits, length)
    [] protocol.method = "Hideki" -> McBit2Hideki(protocol, bits, length)
    [] protocol.method = "Maverick" -> McBit2Maverick(bits)
    [] protocol.method = "OSPIR" -> McBit2OSPIR(bits)
    [] protocol.method = "OSV1" -> McBit2OSV1(protocol, bits, length)
    [] protocol.method = "Sainlogic" -> McBit2Sainlogic(protocol, bits, length)
    [] protocol.method = "SomfyRTS" -> McBit2SomfyRTS(bits, length)
    [] protocol.method = "TFA" -> McBit2TFA(protocol, bits, length)

\* modulematch.
Matching(id, bits) ==
  CASE id = 11 -> Len(bits) >= 28
    [] id = 12 -> Len(bits) > 8 /\ Slice(bits, 0, 8) = <<0, 1, 1, 1, 0, 1, 0, 1>>
    [] id = 43 -> Len(bits) >= 56
    [] id = 47 -> Len(bits) >= 48 /\ \A i \in 1..24 : bits[2 * i - 1] # bits[2 * i]
    [] id = 52 -> Slice(bits, 0, 12) = Copies(1, 12) \/ \E k \in 0..(Len(bits) \div 4) : Slice(bits, 4 * k, 4 * k + 12) = Copies(0, 12)
    [] id = 129 -> Slice(bits, 0, 8) = Copies(1, 8)
    [] OTHER -> TRUE

\* _parse_mc: the messages of every protocol whose clock it may be.  A line has whole digits, and
\* says how many of their bits were received, and the length of a half bit.
ParseMC(line) ==
  LET candidates == {p \in McProtocols : p.low < line.clock /\ line.clock < p.high /\ Len(line.bits) >= p.min}
      sent(p) == IF p.inverted # line.inverted THEN Inverted(line.bits) ELSE line.bits
      length == IF line.length < Len(line.bits) THEN line.length ELSE Len(line.bits)
      messages(p) == {m \in Method(p, sent(p), length) : Matching(p.id, m)}
  IN UNION {{[protocol |-> p.id, bits |-> m] : m \in messages(p)} : p \in candidates}

=============================================================================
