----------------------------- MODULE MCReceiver -----------------------------
(* Lines as the firmware reports them: whole, with a bit that flipped, cut  *)
(* at either end, broken by a pulse of somebody else, and with packets that *)
(* differ.                                                                  *)
EXTENDS Receiver, Sequences

D == INSTANCE Demodulation

\* The bits of n, the highest first.
Binary(n, width) == [i \in 1..width |-> (n \div 2^(width - i)) % 2]
Flip(bits, i) == [bits EXCEPT ![i] = 1 - @]
Head8 == <<0, 0, 0, 0, 1, 0, 1, 0>>
Parity(bits) == <<Cardinality({i \in DOMAIN bits : bits[i] = 1}) % 2>>
SumOf(numbers) == LET sum[i \in 0..Len(numbers)] == IF i = 0 THEN 0 ELSE sum[i - 1] + numbers[i]
                  IN sum[Len(numbers)]

\* A LaCrosse packet of the sensor with the given id: temperature in tenths above -50 degrees.
Body(id, value) == Binary(0, 4) \o Binary(id, 7) \o Parity(value) \o value \o SubSeq(value, 1, 8)
Summed(body) ==
  LET nibble(k) == D!Number(SubSeq(body, 4 * k - 3, 4 * k))
  IN Head8 \o body \o Binary((10 + SumOf([k \in 1..8 |-> nibble(k)])) % 16, 4)
LacrossePacket(id, t) ==
  Summed(Body(id, Binary(t \div 100, 4) \o Binary((t \div 10) % 10, 4) \o Binary(t % 10, 4)))

Line(type, pulses, timings, cp, sp, f) ==
  [type |-> type, P |-> [i \in 0..(Len(pulses) - 1) |-> pulses[i + 1]],
   D |-> [i \in DOMAIN timings |-> (CHOOSE k \in DOMAIN pulses : pulses[k] = timings[i]) - 1],
   CP |-> cp, SP |-> sp, F |-> f, M |-> D!AskOok]

InPairs(bits, one, zero) ==
  [i \in 1..(2 * Len(bits)) |->
     (IF bits[(i + 1) \div 2] = 1 THEN one ELSE zero)[IF i % 2 = 1 THEN 1 ELSE 2]]

Lacrosse(bits) ==
  Line("MU", <<500, 1250, -1000>>, InPairs(bits, <<500, -1000>>, <<1250, -1000>>), 0, 0, 43388)

\* A Nexus packet, of which a line has parts: the pulse at 150 is not the sensor's.
NexusPacket(t, h) == Binary(77, 8) \o <<1, 0, 0, 0>> \o Binary(t, 12) \o <<1, 1, 1, 1>> \o Binary(h, 8)
Gaps(bits) == InPairs(bits, <<500, -2000>>, <<500, -1000>>)
Nexus(timings) == Line("MU", <<500, -1000, -2000, -4000, 150>>, timings, 0, 0, 43392)
Sync == <<500, -4000>>
Part(bits, first, last) == Gaps(SubSeq(bits, first, last))

\* An FS20 command: preamble, bytes with their parities, checksum and a last bit.
WithParities(all) ==
  LET part(k) == Binary(all[k], 8) \o Parity(Binary(all[k], 8))
  IN Binary(1, 13) \o part(1) \o part(2) \o part(3) \o part(4) \o part(5) \o <<0>>
FS20Packet(bytes) == WithParities(Append(bytes, (6 + SumOf(bytes)) % 256))
FS20(bits) == Line("MU", <<400, -400, 600, -600>>, InPairs(bits, <<600, -600>>, <<400, -400>>), 0, 0, 86835)

Remote(bits) ==
  Line("MS", <<410, -12560, 1220, -410, -1205>>,
       <<410, -12560>> \o InPairs(bits, <<1220, -410>>, <<410, -1205>>), 0, 1, 43392)

\* A command of another hub as the tests receive it, each pulse by itself.
Minka(t) == [type |-> "MU", P |-> t.P, D |-> t.D, CP |-> 0, SP |-> 0, F |-> t.F, M |-> t.M]

Lacrosse1 == LacrossePacket(5, 715)
Lacrosse2 == LacrossePacket(5, 483)
Nexus1 == NexusPacket(235, 55)
Fs20On == FS20Packet(<<191, 37, 1, 17>>)
ItOn == Binary(5592405, 24)

LacrosseLines ==
  {Lacrosse(b) : b \in {Lacrosse1, SubSeq(Lacrosse1, 3, 44), Lacrosse2, SubSeq(Lacrosse1, 1, 43)}}
    \union {Lacrosse(Flip(Lacrosse1, i)) : i \in {24, 31, 44}}

\* In the fourth the end is of another packet, whose bits disagree where they overlap; in the last
\* three a bit of the temperature is wrong in one of two packets, and the end is of another packet
\* that has the same bits where they overlap, or does not overlap.
NexusLines == {
  Nexus(Sync \o Gaps(Nexus1) \o Sync),
  Nexus(Sync \o Part(Nexus1, 1, 30)),
  Nexus(Part(Nexus1, 20, 36) \o Sync \o Part(Nexus1, 1, 22) \o <<150>>),
  Nexus(Part(NexusPacket(234, 53), 18, 36) \o Sync \o Part(Nexus1, 1, 24) \o <<150>>),
  Nexus(Sync \o Gaps(Nexus1) \o Sync \o Part(Flip(Nexus1, 23), 1, 30)),
  Nexus(Part(NexusPacket(235, 54), 18, 36) \o Sync \o Part(Nexus1, 1, 24) \o <<150>>),
  Nexus(Part(NexusPacket(234, 54), 25, 36) \o Sync \o Part(Nexus1, 1, 24) \o <<150>>)}

\* Minka Aire's command for high with one bit wrong, which is that for off, and another one, which is
\* none at all.
MinkaHigh == Minka(D!Transmission(<<0, 0, 1, 0, 1, 0, 0, 1>>, "high"))
MinkaWrong(bit) == [MinkaHigh EXCEPT !.D[3 * bit] = 1 - @]

RemoteLines ==
  {FS20(Fs20On), Remote(ItOn), Remote(SubSeq(ItOn, 1, 23)), Remote(Flip(ItOn, 24))}
    \union {FS20(Flip(Fs20On, i)) : i \in {14, 20, 22, 50, 57}}
    \union {MinkaHigh, MinkaWrong(11), MinkaWrong(13)}

MCLines ==
  [lacrosse |-> LacrosseLines, nexus |-> NexusLines, remotes |-> RemoteLines,
   both |-> {Lacrosse(Flip(Lacrosse1, i)) : i \in {15, 24}} \union {Nexus(Sync \o Part(Nexus1, 1, 30))}]

MCDecoded == [l \in UNION {MCLines[p] : p \in DOMAIN MCLines} |-> D!ProcessSignalLine(l)]

Reading(coder, id, subtype, value) ==
  [type |-> "sensor", coder |-> coder, id |-> id, subtype |-> subtype, value |-> value, protocol |-> 0]

Command(command) ==
  [type |-> "command", coder |-> "minka_aire", id |-> <<0, 0, 1, 0, 1, 0, 0, 1>>, command |-> command]
Message(protocol, data) ==
  [type |-> "message", coder |-> "signalduino", protocol |-> protocol, data |-> data]

MCSent ==
  {Reading("lacrosse", 5, "temperature", 215), Reading("lacrosse", 5, "temperature", -17),
   Reading("nexus", 77, "temperature", 235), Reading("nexus", 77, "humidity", 550),
   Message(74, <<11, 15, 2, 5, 0, 1, 0, 0, 1, 1>>), Message(3, <<5, 5, 5, 5, 5, 5>>), Command("high")}

MCMistaken ==
  {Reading("nexus", 77, "temperature", 233), Reading("nexus", 77, "humidity", 540),
   Message(3, <<5, 5, 5, 5, 5, 4>>), Command("off"), Command("None")}
=============================================================================
