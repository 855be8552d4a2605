---------------------------- MODULE Demodulation ----------------------------
(***************************************************************************)
(* What a received line becomes that the own coders do not decode:         *)
(* protocol/signalduino, which matches the line with SIGNALduino's         *)
(* protocols and hands each message to the client module of its protocol.  *)
(*                                                                         *)
(* Three of the protocols, one of each way a message is reported: a sensor *)
(* without a checksum, a remote with one, and a remote found by its sync   *)
(* pulse.  None of the three has a start, a float or a filter.             *)
(* Relative lengths are in tenths, as both sides of a comparison are       *)
(* rounded to them.  A message (dmsg) is its protocol and the digits after *)
(* the preamble.                                                           *)
(***************************************************************************)
EXTENDS Packets

\* protocols.json.  digits are those that modulematch asks for, removeZero that of the protocol.
It ==
  [id |-> 3, type |-> "MS", client |-> "IT", clock |-> -1, sync |-> <<10, -310>>,
   one |-> <<30, -10>>, zero |-> <<10, -30>>, min |-> 24, max |-> 24, digits |-> 6,
   removeZero |-> FALSE, fs20 |-> FALSE]

Tx3 ==
  [id |-> 8, type |-> "MU", client |-> "CUL_TX", clock |-> 470,
   one |-> <<10, -20>>, zero |-> <<20, -20>>, min |-> 43, max |-> 44, digits |-> 6,
   removeZero |-> TRUE, fs20 |-> FALSE]

Fs20 ==
  [id |-> 74, type |-> "MU", client |-> "FS20", clock |-> 400,
   one |-> <<15, -15>>, zero |-> <<10, -10>>, min |-> 50, max |-> 67, digits |-> 0,
   removeZero |-> FALSE, fs20 |-> TRUE]

Protocols == {It, Tx3, Fs20}

\* perl_round(value / clock, 1).
Rounded(value, clock) ==
  Sign(value) * Sign(clock) * ((20 * Abs(value) + Abs(clock)) \div (2 * Abs(clock)))

\* A length of fewer than two digits is not taken (_split_message).
Patterns(line, clock) ==
  [k \in {j \in DOMAIN line.P : Abs(line.P[j]) >= 10} |-> Rounded(line.P[k], clock)]

Near(length, value) ==
  LET gap == Abs(length - value)
  IN CASE Abs(value) > 160 -> 100 * gap <= 18 * Abs(value)
       [] Abs(value) \in 31..160 -> 10 * gap <= 3 * Abs(value)
       [] OTHER -> gap <= 10

Occurrences(string, data) ==
  {i \in 1..(Len(data) - Len(string) + 1) : SubSeq(data, i, i + Len(string) - 1) = string}

\* Of the ways to give each value searched for an index of its own, near to it, such that the
\* indexes are found in the data, the first one tried: the first value's candidates vary
\* fastest, the closest before the others.  <<>> if there is none.
PatternExists(search, patterns, data) ==
  LET before(v, a, b) == \/ Abs(patterns[a] - v) < Abs(patterns[b] - v)
                         \/ Abs(patterns[a] - v) = Abs(patterns[b] - v) /\ a < b
      near(v) == {k \in DOMAIN patterns : Near(patterns[k], v)}
      rank(v, k) == Cardinality({j \in near(v) : before(v, j, k)})
      first(v) == Min({i \in DOMAIN search : search[i] = v})
      tried(c) == MapThenSumSet(LAMBDA v : rank(v, c[v]) * 10^first(v), DOMAIN c)
      indexes(c) == [i \in DOMAIN search |-> c[search[i]]]
      found == {c \in [ToSet(search) -> DOMAIN patterns] :
                  /\ IsInjective(c) /\ \A v \in DOMAIN c : c[v] \in near(v)
                  /\ Occurrences(indexes(c), data) # {}}
  IN IF found = {} THEN <<>>
     ELSE indexes(CHOOSE c \in found : \A d \in found : tried(c) <= tried(d))

\* The pairs of indexes that stand for bits, a zero where both are found alike.
Bits(pairs, zero) == [i \in DOMAIN pairs |-> IF pairs[i] = zero THEN 0 ELSE 1]

Pairs(data) == [i \in 1..(Len(data) \div 2) |-> <<data[2 * i - 1], data[2 * i]>>]

-----------------------------------------------------------------------------
(* postDemo_FS20.                                                           *)

ParityOk(bits, start) == FoldLeft(LAMBDA p, b : p + b, 0, SubSeq(bits, start, start + 8)) % 2 = 0

\* What follows the preamble and the start bit.
AfterStart(bits) ==
  LET ones == {i \in DOMAIN bits : bits[i] = 1}
  IN IF ones = {} THEN <<>> ELSE SubSeq(bits, Min(ones) + 1, Len(bits))

WithoutLastBit(after) == IF Len(after) \in {46, 55} THEN Front(after) ELSE after

\* The bits without parities and checksum: none unless all are right.  A sum that is six higher is
\* that of another device (FHT80).
Checked(frame) ==
  LET bytes == [k \in 1..(Len(frame) \div 9) |-> SubSeq(frame, 9 * k - 8, 9 * k - 1)]
      data == Front(bytes)
      total == 6 + FoldLeft(LAMBDA s, byte : s + Number(byte), 0, data)
  IN IF \/ Len(frame) \notin {45, 54}
        \/ total % 256 # Number(Last(bytes))
        \/ \E k \in DOMAIN bytes : ~ ParityOk(frame, 9 * k - 8)
     THEN {}
     ELSE {FlattenSeq(IF Len(frame) = 45 THEN InsertAt(data, 4, <<0, 0, 0, 0, 0, 0, 0, 0>>) ELSE data)}

PostDemoFS20(bits) == Checked(WithoutLastBit(AfterStart(bits)))

\* _post_demodulate.
PostDemodulate(protocol, bits) == IF protocol.fs20 THEN PostDemoFS20(bits) ELSE {bits}

-----------------------------------------------------------------------------
(* Demodulation.                                                            *)

\* _pad, and bin_to_hex.
Digits(bits) ==
  LET padded == bits \o [i \in 1..((4 - (Len(bits) % 4)) % 4) |-> 0]
  IN [k \in 1..(Len(padded) \div 4) |-> Number(SubSeq(padded, 4 * k - 3, 4 * k))]

WithoutZeros(digits) ==
  LET others == {i \in DOMAIN digits : digits[i] # 0}
  IN IF others = {} THEN <<>> ELSE SubSeq(digits, Min(others), Len(digits))

\* The message, unless the protocol's modulematch does not match it.
Dispatchable(protocol, digits) ==
  IF Len(digits) < protocol.digits THEN {}
  ELSE {[protocol |-> protocol.id, client |-> protocol.client, digits |-> digits]}

\* What becomes of the bits of a signal that has a length the protocol may have.
Dispatched(protocol, bits) ==
  LET digits(post) == IF protocol.removeZero THEN WithoutZeros(Digits(post)) ELSE Digits(post)
  IN IF Len(bits) \notin protocol.min..protocol.max THEN {}
     ELSE UNION {Dispatchable(protocol, digits(post)) : post \in PostDemodulate(protocol, bits)}

\* Pairs up to the first that is no bit and no sync pulse.
Leading(pairs, known) ==
  SubSeq(pairs, 1, Min({i \in 1..(Len(pairs) + 1) : i > Len(pairs) \/ pairs[i] \notin known}) - 1)

\* The bits after the first sync pulse.
BitsAfter(sync, one, zero, data) ==
  LET pairs == Pairs(SubSeq(data, Min(Occurrences(sync, data)) + 2, Len(data)))
  IN Bits(SelectSeq(Leading(pairs, {sync, one, zero}), LAMBDA p : p \in {one, zero}), zero)

\* _parse_ms, for one protocol.
ParseMS(protocol, line) ==
  LET exists(search) == PatternExists(search, Patterns(line, line.P[line.CP]), line.D)
      found(sync, one, zero) == IF <<>> \in {sync, one, zero} THEN {}
                                ELSE Dispatched(protocol, BitsAfter(sync, one, zero, line.D))
  IN found(exists(protocol.sync), exists(protocol.one), exists(protocol.zero))

\* The longest runs of pairs that stand for bits, from the left, each of at least min of them.
Parts(data, lookup, min) ==
  LET starts == {i \in 1..(Len(data) - 1) : SubSeq(data, i, i + 1) \in lookup}
      end(i) == Min({j \in i..(Len(data) + 2) : (j - i) % 2 = 0 /\ j \notin starts})
      long == {i \in starts : end(i) - i >= 2 * min}
      RECURSIVE from(_)
      from(next) ==
        LET begins == {i \in long : i >= next}
            run(i) == {SubSeq(data, i, end(i) - 1)} \union from(end(i))
        IN IF begins = {} THEN {} ELSE run(Min(begins))
  IN from(1)

\* _parse_mu, for one protocol.
ParseMU(protocol, line) ==
  LET exists(search) == PatternExists(search, Patterns(line, protocol.clock), line.D)
      found(one, zero) == IF <<>> \in {one, zero} THEN {}
                          ELSE UNION {Dispatched(protocol, Bits(Pairs(part), zero)) :
                                        part \in Parts(line.D, {one, zero}, protocol.min)}
  IN found(exists(protocol.one), exists(protocol.zero))

Demodulate(line) ==
  UNION {IF line.type = "MS" THEN ParseMS(p, line) ELSE ParseMU(p, line) :
           p \in {q \in Protocols : q.type = line.type}}

-----------------------------------------------------------------------------
(* Clients.                                                                 *)

\* clients/cul_tx.py and reading_signals: a hexadecimal digit ends the number.
CulTx(message) ==
  LET a == [i \in 0..Len(message.digits) |-> IF i = 0 THEN 0 ELSE message.digits[i]]
      value == IF a[6] > 9 THEN 10 * a[5] ELSE 100 * a[5] + 10 * a[6] + (IF a[7] > 9 THEN 0 ELSE a[7])
      sensor(subtype, v) == [type |-> "sensor", coder |-> "cul_tx", id |-> 8 * a[3] + a[4] \div 2,
                             subtype |-> subtype, value |-> v, protocol |-> message.protocol]
  IN CASE Len(message.digits) < 10 -> {}
       [] a[5] # a[8] \/ a[6] # a[9] -> {}
       [] a[2] = 0 -> {sensor("temperature", value - 500)}
       [] a[2] = 14 /\ a[6] < 10 /\ a[7] < 10 -> {sensor("humidity", value)}
       [] OTHER -> {}

\* message_signal: the client of the protocol is not ported.
MessageSignal(message) ==
  [type |-> "message", coder |-> "signalduino", protocol |-> message.protocol, data |-> message.digits]

\* process_line but for the repeats: only lines of the firmware's own modulation.
ProcessLine(line) ==
  IF line.M # AskOok THEN {}
  ELSE UNION {IF m.client = "CUL_TX" THEN CulTx(m) ELSE {MessageSignal(m)} : m \in Demodulate(line)}

\* process_signal_line: SIGNALduino only sees what no own coder decodes.
ProcessSignalLine(line) ==
  LET unless(own) == IF own # {} THEN own ELSE ProcessLine(line)
  IN unless(IF Readable(line) THEN ProcessRawSignal(line) ELSE {})

=============================================================================
