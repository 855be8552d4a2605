------------------------------ MODULE BitStore ------------------------------
(***************************************************************************)
(* Small values packed into the bytes of a fixed buffer (bitstore.h).      *)
(*                                                                         *)
(* A store is its cells, one per value that the buffer can hold, and the   *)
(* number of values in use; bytecount and bcnt follow from that number.    *)
(* Cells past the count keep what earlier values left there, and the       *)
(* program reads some of them.                                             *)
(***************************************************************************)
EXTENDS Integers

CONSTANTS
  BufSize,  \* bytes
  PerByte   \* values to a byte, 8 / valuelen

Capacity == BufSize * PerByte
Cells == 0..(Capacity - 1)

\* A static buffer holds zeros.
New == [cell |-> [i \in Cells |-> 0], count |-> 0]

\* reset: only the first byte is cleared.
Reset(s) == [cell |-> [i \in Cells |-> IF i < PerByte THEN 0 ELSE s.cell[i]], count |-> 0]

\* addValue refuses a value that would begin a byte past the buffer.
Full(s) == s.count > 0 /\ s.count % PerByte = 0 /\ (s.count - 1) \div PerByte >= BufSize - 1

\* Two values or-ed: each place that either of them has.
Has(n, place) == (n \div place) % 2 = 1
Ored(a, b) ==
  LET bit(place) == IF Has(a, place) \/ Has(b, place) THEN place ELSE 0
  IN bit(1) + bit(2) + bit(4) + bit(8)

\* Variant: the byte that is begun is not cleared.
AddDirty(s, value) ==
  IF Full(s) THEN s ELSE [cell |-> [s.cell EXCEPT ![s.count] = Ored(@, value)], count |-> s.count + 1]

\* addValue: the first value of a byte clears it, and a value is or-ed in.
AddValue(s, value) ==
  LET begins == s.count > 0 /\ s.count % PerByte = 0
      cleared(i) == IF begins /\ i \div PerByte = s.count \div PerByte THEN 0 ELSE s.cell[i]
  IN IF Full(s) THEN s
     ELSE [cell |-> [i \in Cells |-> IF i = s.count THEN Ored(cleared(i), value) ELSE cleared(i)],
           count |-> s.count + 1]

\* changeValue at every position that holds a value.
ChangeValues(s, from, to) ==
  [s EXCEPT !.cell = [i \in Cells |-> IF i < s.count /\ @[i] = from THEN to ELSE @[i]]]

\* operator[]: out of range it returns what was read before.
GetValue(s, pos, before) == IF pos \in Cells THEN s.cell[pos] ELSE before

\* moveLeft for two values to a byte.  Whole bytes are copied: a move by an odd number shifts them,
\* and clears the cell after the values when it writes their last byte by itself.
MoveLeft(s, begin) ==
  LET bytes == (s.count - 1) \div PerByte - begin \div PerByte
      odd == begin % PerByte # 0
      moved == PerByte * (IF odd THEN bytes ELSE bytes + 1)
      cleared == odd /\ s.count % 2 = 0
  IN IF begin = 0 \/ begin >= s.count THEN s
     ELSE IF begin = s.count - 1 THEN Reset(s)
     ELSE [cell |-> [i \in Cells |->
                       IF i < moved \/ (cleared /\ i = moved) THEN s.cell[i + begin]
                       ELSE IF cleared /\ i = moved + 1 THEN 0 ELSE s.cell[i]],
           count |-> s.count - begin]
=============================================================================
