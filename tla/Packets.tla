------------------------------- MODULE Packets -------------------------------
(***************************************************************************)
(* What a received line is decoded to by the integration's own coders      *)
(* (protocol/signal.py, packetizers.py and coders/): the timings of a line *)
(* become runs of bits, and each coder that listens on the line's          *)
(* frequency and modulation reads its packets from them.  Commands go the  *)
(* other way.                                                              *)
(*                                                                         *)
(* A line is a record: type ("MS", "MU", "MC"), P (the lengths by their    *)
(* index), D (the indexes received), CP and SP (those of the clock and of  *)
(* the sync), F (the frequency in 10 kHz) and M (the modulation).          *)
(* Temperatures are in tenths, bits are 0 and 1.                           *)
(***************************************************************************)
EXTENDS Integers, Sequences, SequencesExt, FiniteSets, FiniteSetsExt

AskOok == 2  \* Modulation.ASK_OOK
OwnPacket == 0

Abs(n) == IF n < 0 THEN -n ELSE n
Sign(n) == IF n > 0 THEN 1 ELSE IF n < 0 THEN -1 ELSE 0

\* The number that bits spell, the first of them the highest.
Number(bits) == FoldLeft(LAMBDA n, bit : 2 * n + bit, 0, bits)

\* from_string: a line with an index that has no length, or none, is not read.
Readable(line) ==
  /\ line.type # "MC" /\ line.D # <<>>
  /\ \A i \in DOMAIN line.D : line.D[i] \in DOMAIN line.P /\ line.P[line.D[i]] # 0

Timings(line) == [i \in DOMAIN line.D |-> line.P[line.D[i]]]

\* find_closest: of the timings within tolerance the closest, the first seen of those; 0 if none.
FindClosest(timings, pulse, tolerance, ignoreSign) ==
  LET dist(i) == Abs(Abs(pulse) - Abs(timings[i]))
      good == {i \in DOMAIN timings : /\ ignoreSign \/ Sign(timings[i]) = Sign(pulse)
                                      /\ dist(i) <= tolerance}
      best == {i \in good : \A j \in good : dist(i) <= dist(j)}
  IN IF good = {} THEN 0 ELSE timings[Min(best)]

-----------------------------------------------------------------------------
(* Packetizers.  What a run of timings yields is a set of packets, as the   *)
(* same packet twice is reported once.                                      *)

\* _SignalCollector: the bits of the positions between flushes, each run that has the minimal length.
Collected(bitsAt, flushes, minLen) ==
  LET edges == {0, Len(bitsAt) + 1} \union flushes
      next(e) == Min({f \in edges : f > e})
      runs == {FlattenSeq(SubSeq(bitsAt, e + 1, next(e) - 1)) : e \in edges \ {Len(bitsAt) + 1}}
  IN {r \in runs : Len(r) >= minLen}

\* The bits of pulses that are a few times the length, if there is one.
BitsOfLength(length, timings, longest, minLen) ==
  LET count(i) == (2 * Abs(timings[i]) + length) \div (2 * length)
      fits == {i \in DOMAIN timings : count(i) \in 1..longest}
      bits(i) == [k \in 1..count(i) |-> IF timings[i] > 0 THEN 1 ELSE 0]
  IN IF length = 0 THEN {}
     ELSE Collected([i \in DOMAIN timings |-> IF i \in fits THEN bits(i) ELSE <<>>],
                    DOMAIN timings \ fits, minLen)

\* SignalPacketizerFixed._unpack_bits.
FixedBits(timings, pulse, tolerance, longest, minLen) ==
  BitsOfLength(Abs(FindClosest(timings, pulse, tolerance, TRUE)), timings, longest, minLen)

\* SignalPacketizerOnOffBit.unpack, of one run: after each 1 0 comes a bit.
OnOffBits(bits, minLen) ==
  LET prefixes == {i \in 1..(Len(bits) - 2) : bits[i] = 1 /\ bits[i + 1] = 0}
      RECURSIVE from(_)
      from(next) ==
        LET later == {i \in prefixes : i >= next}
        IN IF later = {} THEN {} ELSE {Min(later)} \union from(Min(later) + 3)
      aligned == from(1)
      run(a) == [k \in 1..Min({j \in 1..Len(bits) : a + 3 * j \notin aligned}) |-> bits[a + 3 * k - 1]]
  IN {r \in {run(a) : a \in {i \in aligned : i - 3 \notin aligned}} : Len(r) >= minLen}

\* The bits that follow fixed pulses, if all three lengths were found; two pulses that are not fixed
\* end a run.
BitsBetween(fixed, zero, one, timings, minLen) ==
  LET known(i) == timings[i] \in {fixed, zero, one}
      last(i) == IF i > 1 /\ known(i - 1) THEN timings[i - 1] ELSE fixed
      bit(i) == known(i) /\ timings[i] # fixed /\ last(i) = fixed
      flushes == {i \in DOMAIN timings : ~ known(i) \/ (timings[i] # fixed /\ last(i) # fixed)}
  IN IF 0 \in {fixed, zero, one} THEN {}
     ELSE Collected([i \in DOMAIN timings |-> IF ~ bit(i) THEN <<>>
                                               ELSE <<IF timings[i] = one THEN 1 ELSE 0>>], flushes, minLen)

\* SignalPacketizerFixedVariable.unpack, with a low pulse as the fixed one.
VariableBits(timings, fixedPulse, zeroPulse, onePulse, tolerance, minLen) ==
  LET closest(pulse) == FindClosest(timings, pulse, tolerance, FALSE)
  IN BitsBetween(closest(fixedPulse), closest(zeroPulse), closest(onePulse), timings, minLen)

Matches(pulse, tolerance, t) == Abs(t - pulse) <= tolerance

\* SignalPacketizerPulseDistance.unpack, its runs: bits between gaps, and where a sync gap is.
Runs(timings) ==
  LET bits(t) == CASE t > 0 -> <<>>
                   [] t <= 0 /\ Matches(-1000, 300, t) -> <<0>>
                   [] t <= 0 /\ Matches(-2000, 400, t) -> <<1>>
                   [] OTHER -> <<>>
      syncs == {i \in DOMAIN timings : timings[i] <= 0 /\ Matches(-4000, 600, timings[i])}
      pulses == {i \in DOMAIN timings : timings[i] > 0 /\ Matches(500, 250, timings[i])}
      inside == pulses \union {i \in DOMAIN timings : bits(timings[i]) # <<>>}
      edges == (0..(Len(timings) + 1)) \ inside
      run(a, b) == FlattenSeq([i \in 1..(b - a - 1) |-> bits(timings[a + i])])
      next(a) == Min({b \in edges : b > a})
      all == {[bits |-> run(a, next(a)), after |-> a \in syncs, before |-> next(a) \in syncs] :
                a \in edges \ {Len(timings) + 1}}
  IN {r \in all : r.bits # <<>>}

PacketBits == 36
MinBits == 28

\* Variant: where both have the same bits, they need not agree.
JoinAny(start, end) ==
  LET overlap == Len(start) + Len(end) - PacketBits
  IN IF Len(start) >= PacketBits \/ Len(end) >= PacketBits \/ overlap < 0 THEN {}
     ELSE {start \o SubSeq(end, overlap + 1, Len(end))}

\* The start of one repeat and the end of another, which must agree where they overlap.
Join(start, end) ==
  LET overlap == Len(start) + Len(end) - PacketBits
  IN IF \/ Len(start) >= PacketBits \/ Len(end) >= PacketBits \/ overlap < 0
        \/ SubSeq(start, PacketBits - Len(end) + 1, Len(start)) # SubSeq(end, 1, overlap)
     THEN {} ELSE {start \o SubSeq(end, overlap + 1, Len(end))}

Repeats(runs) ==
  LET whole == {r \in runs : r.after /\ Len(r.bits) >= MinBits}
      starts == {r \in runs : r.after /\ ~ r.before}
      ends == {r \in runs : r.before /\ ~ r.after}
  IN {r.bits : r \in whole} \union UNION {Join(s.bits, e.bits) : s \in starts, e \in ends}

NexusBits(timings) == Repeats(Runs(timings))

-----------------------------------------------------------------------------
(* Coders.                                                                  *)

Sensor(coder, id, subtype, value) ==
  [type |-> "sensor", coder |-> coder, id |-> id, subtype |-> subtype, value |-> value,
   protocol |-> OwnPacket]

Header == <<0, 0, 0, 0, 1, 0, 1, 0>>

\* match_and_strip_header_fuzzy: how many bits the header takes, of which two may be missing.
HeaderBits(bits) ==
  LET fits == {n \in (Len(Header) - 2)..Len(Header) :
                 SubSeq(bits, 1, n) = SubSeq(Header, Len(Header) - n + 1, Len(Header))}
  IN IF fits = {} THEN 0 ELSE Max(fits)

\* What follows the header.  The checksum is over nibbles, the header's last included.
DecodeStripped(b) ==
  LET num(from, n) == Number(SubSeq(b, from, from + n - 1))
      parity == FoldLeft(LAMBDA p, bit : (p + bit) % 2, 0, SubSeq(b, 13, 24))
      checksum == 10 + FoldLeft(LAMBDA s, k : s + num(4 * k + 1, 4), 0, [k \in 1..8 |-> k - 1])
      raw == 100 * num(13, 4) + 10 * num(17, 4) + num(21, 4)
  IN IF \/ Len(b) < 36
        \/ num(13, 4) # num(25, 4) \/ num(17, 4) # num(29, 4)
        \/ b[12] # parity \/ num(33, 4) # checksum % 16
     THEN {}
     ELSE CASE num(1, 4) = 0 -> {Sensor("lacrosse", num(5, 7), "temperature", raw - 500)}
            [] num(1, 4) = 14 -> {Sensor("lacrosse", num(5, 7), "humidity", raw)}
            [] OTHER -> {}

\* LacrosseSignalCoder.decode_internal.
DecodeLacrosse(bits) ==
  IF HeaderBits(bits) = 0 THEN {} ELSE DecodeStripped(SubSeq(bits, HeaderBits(bits) + 1, Len(bits)))

\* NexusSignalCoder.decode_internal.
DecodeNexus(bits) ==
  LET num(from, n) == Number(SubSeq(bits, from, from + n - 1))
      temperature == IF num(13, 12) >= 2048 THEN num(13, 12) - 4096 ELSE num(13, 12)
      humidity == num(29, 8)
      full == Len(bits) = PacketBits
  IN IF \/ Len(bits) \notin MinBits..PacketBits \/ num(25, 4) # 15
        \/ full /\ humidity > 100
     THEN {}
     ELSE {Sensor("nexus", num(1, 8), "temperature", temperature)}
          \union IF full THEN {Sensor("nexus", num(1, 8), "humidity", 10 * humidity)} ELSE {}

\* MinkaAireSignalCoder: COMMANDS, of which "light" is a second name of light_1.
Commands ==
  [off |-> <<1,0,1,0,0>>, low |-> <<0,0,1,0,0>>, medium |-> <<0,1,0,0,0>>,
   high |-> <<1,0,0,0,0>>, light_1 |-> <<0,1,0,1,0>>, light_2 |-> <<1,0,0,1,0>>]

MinkaCommand(id, command) ==
  [type |-> "command", coder |-> "minka_aire", id |-> id, command |-> command]

DecodeMinka(bits) ==
  LET named == {c \in DOMAIN Commands : Commands[c] = SubSeq(bits, 9, 13)}
  IN IF Len(bits) < 13 THEN {}
     ELSE {MinkaCommand(SubSeq(bits, 1, 8), IF named = {} THEN "None" ELSE CHOOSE c \in named : TRUE)}

-----------------------------------------------------------------------------
(* Sending (create_signal_line), and receiving (_process_raw_signal).       *)

\* The command line for the firmware: one pulse for each third of a bit.
Transmission(id, command) ==
  LET bits == id \o Commands[command]
      thirds == FlattenSeq([i \in DOMAIN bits |-> <<1, 0, bits[i]>>])
  IN [P |-> (0 :> -417 @@ 1 :> 417), D |-> thirds, F |-> 30420, M |-> AskOok, R |-> 10, S |-> 10000]

Coders == {"lacrosse", "minka_aire", "nexus"}  \* ALL_CODERS

Frequency == [lacrosse |-> 43388, minka_aire |-> 30420, nexus |-> 43392]

Unpack(coder, timings) ==
  CASE coder = "lacrosse" -> VariableBits(timings, -1075, 1400, 550, 200, 40)
    [] coder = "minka_aire" -> UNION {OnOffBits(bits, 13) : bits \in FixedBits(timings, 417, 100, 2, 39)}
    [] coder = "nexus" -> NexusBits(timings)

DecodeBits(coder, bits) ==
  CASE coder = "lacrosse" -> DecodeLacrosse(bits)
    [] coder = "minka_aire" -> DecodeMinka(bits)
    [] coder = "nexus" -> DecodeNexus(bits)

\* Every coder that is tuned to the line decodes it.
ProcessRawSignal(line) ==
  LET tuned == {c \in Coders : Abs(line.F - Frequency[c]) <= 100 /\ line.M = AskOok}
  IN UNION {UNION {DecodeBits(c, bits) : bits \in Unpack(c, Timings(line))} : c \in tuned}

=============================================================================
