----------------------------- MODULE MCDetector -----------------------------
(* Up to three transmissions in a row: frames with a sync pulse that        *)
(* are long enough, too short and too many for the buffer, a signal without *)
(* sync, Manchester signals with a gap and longer than the buffer, pulses   *)
(* of many lengths, a pulse that follows one of its own sign, silence, and  *)
(* frames of which every other pulse is too long for the others' pattern.   *)
EXTENDS Detector

Repeat(s, n) == FlattenSeq([k \in 1..n |-> s])

Silence == <<-MaxPulse>>
Code == <<0, 1, 1, 0, 1, 0, 0, 1, 0, 1, 0, 0, 0, 1, 1, 1, 0, 1, 0, 1, 1, 0, 0, 1>>

Cells2(bits, one, zero) ==
  Joined([k \in 1..Len(bits) |-> <<400, IF bits[k] = 1 THEN -one ELSE -zero>>])
Frame(n) == <<410, -8000>> \o Cells2(SubSeq(Code, 1, n), 1600, 800)

\* So long that they get a pattern of their own, which is merged when the message is processed.
Uneven(pulses) ==
  [k \in 1..Len(pulses) |-> IF k % 4 = 1 /\ pulses[k] = 400 THEN 510 ELSE pulses[k]]

Fragment(pulses, period, bits) == [pulses |-> pulses, period |-> period, bits |-> bits]

\* A Manchester signal: 1 is low then high, and equal halves of neighbours are one pulse.
Manchester(bits) ==
  LET pulse(level, length) == IF level = 0 THEN length ELSE -length
      between(k) == IF bits[k + 1] # bits[k]
                    THEN <<pulse(1 - bits[k], 610)>>
                    ELSE <<pulse(1 - bits[k], 310), pulse(bits[k], 300)>>
  IN <<pulse(bits[1], 300)>> \o Joined([k \in 1..(Len(bits) - 1) |-> between(k)])
       \o <<pulse(1 - Last(bits), 310)>>

Sent == <<0>> \o Code \o <<0, 1, 1>> \o Code
Most(s) == SubSeq(s, 1, Len(s) - 1)
Closed(pulses) == pulses \o (IF Last(pulses) > 0 THEN <<-4000, 300>> ELSE <<300>>) \o Silence

MCFragments == {
  Fragment(Repeat(Frame(24), 3) \o <<400>> \o Silence, 50, <<>>),
  Fragment(Repeat(Frame(18), 4) \o <<400>> \o Silence, 38, <<>>),
  Fragment(Repeat(Frame(20), 3) \o <<-3000, 400>> \o Silence, 0, <<>>),
  Fragment(Repeat(Frame(24), 6) \o <<400>> \o Silence, 50, <<>>),
  Fragment(<<250, -1800>> \o Cells2(Code \o Code, 900, 400) \o <<400>> \o Silence, 90, <<>>),
  Fragment(Closed(Manchester(Sent)), 0, Sent),
  Fragment(Most(Manchester(Sent)) \o <<-4000>> \o Closed(Manchester(Sent)), 0, Sent),
  Fragment(Closed(Manchester(Repeat(Sent, 4))), 0, <<>>),
  Fragment(Joined([k \in 1..60 |-> <<100 * 2^((k * k) % 7), -(110 * 2^((3 * k) % 7))>>]), 0, <<>>),
  Fragment(Uneven(Repeat(Frame(24), 3)) \o <<400>> \o Silence, 50, <<>>),
  Fragment(Silence, 0, <<>>) }
=============================================================================
