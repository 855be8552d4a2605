---------------------------- MODULE BitStoreProofs ----------------------------
(***************************************************************************)
(* The message buffer is a sequence: whatever is added, moved, changed and *)
(* reset, in any order, the values of a store are those that were added    *)
(* and not moved out, for every size of the buffer.                        *)
(*                                                                         *)
(* A value is or-ed into its place, so that this needs every place it may  *)
(* come to be empty (Clean).  These are the facts the detector's buffer    *)
(* rests on (DetectorProofs).                                              *)
(***************************************************************************)
EXTENDS BitStore, Sequences, SequenceTheorems, TLAPS

VARIABLES
  store,  \* a buffer
  values  \* what it is to hold

Digits == 0..15

\* The buffer of the detector has two values to a byte.
BufferAssumption == PerByte = 2 /\ BufSize \in Nat \ {0}

Stores == [cell : [Cells -> Digits], count : 0..Capacity]

\* The place that the next value is or-ed into holds nothing: half of a byte is empty while the other
\* holds the last value, and all of it in an empty store.
Clean(s) ==
  /\ s.count % 2 = 1 => s.cell[s.count] = 0
  /\ s.count = 0 => s.cell[0] = 0 /\ s.cell[1] = 0

Values(s) == [k \in 1..s.count |-> s.cell[k - 1]]

\* Any calls, in any order, and what each is to do to the values: a move drops those before a place,
\* and also the last if that is all that is left.
Init == store = New /\ values = <<>>

Add(v) ==
  /\ store' = AddValue(store, v)
  /\ values' = IF Len(values) = Capacity THEN values ELSE Append(values, v)

Move(begin) ==
  /\ store' = MoveLeft(store, begin)
  /\ values' = CASE begin = 0 \/ begin >= Len(values) -> values
                 [] begin # 0 /\ begin = Len(values) - 1 -> <<>>
                 [] begin # 0 /\ begin < Len(values) - 1 -> SubSeq(values, begin + 1, Len(values))

Change(from, to) ==
  /\ store' = ChangeValues(store, from, to)
  /\ values' = [k \in 1..Len(values) |-> IF values[k] = from THEN to ELSE values[k]]

Empty == store' = Reset(store) /\ values' = <<>>

Next ==
  \/ \E v \in Digits : Add(v)
  \/ \E begin \in 0..Capacity : Move(begin)
  \/ \E from, to \in Digits : Change(from, to)
  \/ Empty

Spec == Init /\ [][Next]_<<store, values>>

BufferInv == store \in Stores /\ Clean(store) /\ values = Values(store)

-----------------------------------------------------------------------------
\* A value that is or-ed into an empty place is what is there.
LEMMA OredZero == ASSUME NEW v \in Digits PROVE Ored(0, v) = v /\ Ored(0, v) \in Digits
<1>1. v = (v % 2) + 2 * ((v \div 2) % 2) + 4 * ((v \div 4) % 2) + 8 * ((v \div 8) % 2)
  BY DEF Digits
<1>2. Ored(0, v) = v
  BY <1>1 DEF Ored, Has, Digits
<1> QED BY <1>2

\* Places and bytes.
LEMMA Places ==
  ASSUME BufferAssumption
  PROVE  /\ Capacity = 2 * BufSize /\ Capacity \in Nat /\ Capacity % 2 = 0
         /\ Cells = 0..(Capacity - 1) /\ {0, 1} \subseteq Cells
BY DEF BufferAssumption, Capacity, Cells

\* A store is full when it has no place, and not before.
LEMMA FullIsFull ==
  ASSUME BufferAssumption, NEW s \in Stores
  PROVE  Full(s) <=> s.count = Capacity
BY Places DEF BufferAssumption, Full, Stores

\* A new store is empty.
LEMMA NewIsEmpty ==
  ASSUME BufferAssumption
  PROVE  New \in Stores /\ Clean(New) /\ Values(New) = <<>>
BY Places DEF New, Stores, Clean, Values, Digits

\* A reset one as well, though only its first byte is.
LEMMA ResetIsEmpty ==
  ASSUME BufferAssumption, NEW s \in Stores
  PROVE  Reset(s) \in Stores /\ Clean(Reset(s)) /\ Values(Reset(s)) = <<>>
BY Places DEF Reset, Stores, Clean, Values, Digits, BufferAssumption

\* A value is appended as it is, unless the store is full (addValue).
LEMMA AddAppends ==
  ASSUME BufferAssumption, NEW s \in Stores, Clean(s), NEW v \in Digits
  PROVE  /\ AddValue(s, v) \in Stores /\ Clean(AddValue(s, v))
         /\ s.count = Capacity => AddValue(s, v) = s
         /\ s.count # Capacity => Values(AddValue(s, v)) = Append(Values(s), v)
<1>1. CASE s.count = Capacity
  BY <1>1, FullIsFull DEF AddValue
<1>2. CASE s.count # Capacity
  <2> DEFINE begins == s.count > 0 /\ s.count % PerByte = 0
             cleared(i) == IF begins /\ i \div PerByte = s.count \div PerByte THEN 0 ELSE s.cell[i]
             t == AddValue(s, v)
  <2>1. s.count \in 0..(Capacity - 1) /\ s.count + 1 \in 1..Capacity /\ s.count \in Cells
    BY <1>2, Places DEF Stores
  <2>2. t = [cell |-> [i \in Cells |-> IF i = s.count THEN Ored(cleared(i), v) ELSE cleared(i)], count |-> s.count + 1]
    BY <1>2, FullIsFull DEF AddValue
  <2>3. cleared(s.count) = 0
    BY <2>1, Places DEF Clean, BufferAssumption
  <2>4. \A i \in Cells : i < s.count => cleared(i) = s.cell[i]
    BY <2>1, Places DEF BufferAssumption
  <2>5. \A i \in Cells : cleared(i) \in Digits
    BY DEF Stores, Digits
  <2>6. s.count + 1 \in Cells /\ (s.count + 1) % 2 = 1 => cleared(s.count + 1) = 0
    <3> SUFFICES ASSUME s.count + 1 \in Cells, (s.count + 1) % 2 = 1 PROVE cleared(s.count + 1) = 0
      OBVIOUS
    <3>1. s.count % 2 = 0 /\ (s.count + 1) \div 2 = s.count \div 2
      BY <2>1
    <3>2. CASE s.count = 0
      BY <3>2, Places DEF Clean
    <3>3. CASE s.count # 0
      BY <3>1, <3>3, <2>1 DEF BufferAssumption
    <3> QED BY <3>2, <3>3
  <2> HIDE DEF cleared
  <2>7. t \in Stores
    BY <2>1, <2>2, <2>3, <2>5, OredZero DEF Stores
  <2>8. t.count = s.count + 1 /\ t.cell[s.count] = v /\ \A i \in Cells : i # s.count => t.cell[i] = cleared(i)
    BY <2>1, <2>2, <2>3, OredZero
  <2> HIDE DEF t
  <2>9. Clean(t)
    <3>1. (s.count + 1) % 2 = 1 => s.count + 1 \in Cells
      <4>1. (s.count + 1) % 2 = 1 => s.count + 1 # Capacity
        BY <2>1, Places
      <4>2. QED BY <4>1, <2>1, Places
    <3>2. QED BY <3>1, <2>1, <2>6, <2>8 DEF Clean
  <2>10. Values(t) = Append(Values(s), v)
    <3>1. Values(s) \in Seq(Digits) /\ Len(Values(s)) = s.count
      <4>1. \A k \in 1..s.count : s.cell[k - 1] \in Digits
        BY <2>1, Places DEF Stores
      <4>2. s.count \in Nat
        BY <2>1, Places
      <4>3. QED BY <4>1, <4>2 DEF Values
    <3>2. Append(Values(s), v) = [k \in 1..(s.count + 1) |-> IF k = s.count + 1 THEN v ELSE Values(s)[k]]
      <4> DEFINE a == Append(Values(s), v)
      <4>1. Len(a) = s.count + 1 /\ a \in Seq(Digits)
        BY <3>1, AppendProperties
      <4>2. \A k \in 1..(s.count + 1) : a[k] = IF k = s.count + 1 THEN v ELSE Values(s)[k]
        BY <3>1, <2>1, AppendProperties
      <4> HIDE DEF a
      <4>3. a = [k \in 1..(s.count + 1) |-> a[k]]
        BY <4>1, LenProperties
      <4>4. QED BY <4>2, <4>3 DEF a
    <3>3. \A k \in 1..(s.count + 1) : t.cell[k - 1] = IF k = s.count + 1 THEN v ELSE s.cell[k - 1]
      <4> TAKE k \in 1..(s.count + 1)
      <4>1. k - 1 \in Cells /\ (k - 1 = s.count <=> k = s.count + 1) /\ k - 1 <= s.count
        BY <2>1, Places
      <4>2. CASE k = s.count + 1
        BY <4>1, <4>2, <2>8
      <4>3. CASE k # s.count + 1
        <5>1. k - 1 # s.count /\ k - 1 < s.count
          BY <4>1, <4>3, <2>1, Places
        <5>2. t.cell[k - 1] = cleared(k - 1) /\ cleared(k - 1) = s.cell[k - 1]
          BY <4>1, <5>1, <2>4, <2>8
        <5>3. QED BY <5>2, <4>3
      <4>4. QED BY <4>2, <4>3
    <3>4. QED BY <3>2, <3>3, <2>8, <2>1 DEF Values
  <2> QED BY <2>7, <2>9, <2>10, <1>2 DEF t
<1> QED BY <1>1, <1>2

\* Each value that is changed, and no other (changeValue at every position).
LEMMA ChangeReplaces ==
  ASSUME BufferAssumption, NEW s \in Stores, Clean(s), NEW from \in Digits, NEW to \in Digits
  PROVE  /\ ChangeValues(s, from, to) \in Stores /\ Clean(ChangeValues(s, from, to))
         /\ Values(ChangeValues(s, from, to)) =
              [k \in 1..s.count |-> IF Values(s)[k] = from THEN to ELSE Values(s)[k]]
<1> DEFINE t == ChangeValues(s, from, to)
<1>1. /\ t.count = s.count
      /\ t.cell = [i \in Cells |-> IF i < s.count /\ s.cell[i] = from THEN to ELSE s.cell[i]]
      /\ t \in Stores
  BY DEF ChangeValues, Stores
<1>2. s.count \in 0..Capacity
  BY DEF Stores
<1> HIDE DEF t
<1>3. Clean(t)
  <2>1. s.count % 2 = 1 => s.count \in Cells
    <3>1. s.count % 2 = 1 => s.count # Capacity
      BY <1>2, Places
    <3>2. QED BY <3>1, <1>2, Places
  <2>2. QED BY <2>1, <1>1, <1>2, Places DEF Clean
<1>4. \A k \in 1..s.count : k - 1 \in Cells /\ k - 1 < s.count
  BY <1>2, Places
<1>5. Values(t) = [k \in 1..s.count |-> IF Values(s)[k] = from THEN to ELSE Values(s)[k]]
  BY <1>1, <1>4 DEF Values
<1> QED BY <1>1, <1>3, <1>5 DEF t

\* What is before a place is dropped, whether or not it begins a byte (moveLeft).
LEMMA MoveDrops ==
  ASSUME BufferAssumption, NEW s \in Stores, Clean(s), NEW begin \in 1..Capacity, begin < s.count - 1
  PROVE  /\ MoveLeft(s, begin) \in Stores /\ Clean(MoveLeft(s, begin))
         /\ Values(MoveLeft(s, begin)) = [k \in 1..(s.count - begin) |-> s.cell[begin + k - 1]]
<1> DEFINE bytes == (s.count - 1) \div 2 - begin \div 2
           odd == begin % 2 # 0
           moved == 2 * (IF odd THEN bytes ELSE bytes + 1)
           cleared == odd /\ s.count % 2 = 0
           t == MoveLeft(s, begin)
<1>1. s.count \in 3..Capacity /\ begin \in 1..(s.count - 2) /\ Capacity = 2 * BufSize /\ BufSize \in Nat \ {0}
  BY Places DEF Stores, BufferAssumption
<1>2. /\ t.count = s.count - begin
      /\ t.cell = [i \in Cells |-> IF i < moved \/ (cleared /\ i = moved) THEN s.cell[i + begin]
                                   ELSE IF cleared /\ i = moved + 1 THEN 0 ELSE s.cell[i]]
  BY <1>1 DEF MoveLeft, BufferAssumption
<1> DEFINE q == begin \div 2
           b == (s.count - 1) \div 2
<1>3. /\ q \in Nat /\ b \in Nat /\ bytes = b - q /\ q <= b
      /\ odd => begin = 2 * q + 1
      /\ ~ odd => begin = 2 * q
      /\ s.count % 2 = 0 => s.count = 2 * b + 2
      /\ s.count % 2 # 0 => s.count = 2 * b + 1
      /\ 2 * b + 2 <= Capacity
  BY <1>1
<1>4. /\ odd => moved = 2 * b - 2 * q
      /\ ~ odd => moved = 2 * b - 2 * q + 2
      /\ moved \in Nat
  BY <1>3
<1> HIDE DEF q, b, bytes, moved
\* A place that is written takes its value from one of the store.
<1>5. \A i \in Cells : i < moved \/ (cleared /\ i = moved) => i + begin \in Cells
  <2> SUFFICES ASSUME NEW i \in Cells, i < moved \/ (cleared /\ i = moved) PROVE i + begin <= Capacity - 1
    BY <1>1, Places
  <2>1. CASE odd /\ s.count % 2 = 0
    BY <2>1, <1>3, <1>4, Places
  <2>2. CASE odd /\ s.count % 2 # 0
    BY <2>2, <1>3, <1>4, Places
  <2>3. CASE ~ odd
    BY <2>3, <1>3, <1>4, Places
  <2> QED BY <2>1, <2>2, <2>3
\* All that is left is written.
<1>6. \A i \in 0..(s.count - begin - 1) : i \in Cells /\ (i < moved \/ (cleared /\ i = moved))
  BY <1>1, <1>3, <1>4, Places
<1>7. s.count - begin \in 2..Capacity
  BY <1>1
\* The place after it holds nothing if it is in the same byte.
<1>8. ASSUME (s.count - begin) % 2 = 1 PROVE t.cell[s.count - begin] = 0
  <2>1. s.count - begin \in Cells
    BY <1>1, <1>8, Places
  <2>2. CASE odd
    <3>1. s.count % 2 = 0 /\ s.count - begin = moved + 1
      BY <1>1, <1>3, <1>4, <1>8, <2>2
    <3>2. QED BY <3>1, <2>1, <2>2, <1>2, <1>4
  <2>3. CASE ~ odd
    <3>1. s.count % 2 = 1 /\ s.count - begin < moved /\ ~ cleared
      BY <1>1, <1>3, <1>4, <1>8, <2>3
    <3>2. t.cell[s.count - begin] = s.cell[s.count]
      BY <3>1, <2>1, <1>2, <1>1
    <3>3. QED BY <3>1, <3>2 DEF Clean
  <2> QED BY <2>2, <2>3
<1>9. t \in Stores
  <2>1. DOMAIN t = {"cell", "count"} /\ t = [cell |-> t.cell, count |-> t.count]
    BY <1>1 DEF MoveLeft, BufferAssumption
  <2>2. t.cell \in [Cells -> Digits]
    BY <1>2, <1>5 DEF Stores, Digits
  <2>3. QED BY <2>1, <2>2, <1>2, <1>7 DEF Stores
<1> HIDE DEF t, moved, cleared
<1>10. Clean(t)
  BY <1>2, <1>7, <1>8 DEF Clean
<1>11. Values(t) = [k \in 1..(s.count - begin) |-> s.cell[begin + k - 1]]
  <2>1. \A k \in 1..(s.count - begin) : t.cell[k - 1] = s.cell[begin + k - 1]
    <3> TAKE k \in 1..(s.count - begin)
    <3>1. k - 1 \in 0..(s.count - begin - 1) /\ (k - 1) + begin = begin + k - 1
      BY <1>1
    <3>2. QED BY <3>1, <1>2, <1>6
  <2>2. QED BY <2>1, <1>2 DEF Values
<1> QED BY <1>9, <1>10, <1>11 DEF t

-----------------------------------------------------------------------------
\* What a store holds is a sequence of digits, as long as its count.
LEMMA ValuesAreDigits ==
  ASSUME BufferAssumption, NEW s \in Stores
  PROVE  /\ Values(s) \in Seq(Digits) /\ Len(Values(s)) = s.count /\ s.count \in 0..Capacity
         /\ \A k \in 1..s.count : Values(s)[k] = s.cell[k - 1]
<1>1. s.count \in 0..Capacity /\ s.count \in Nat
  BY Places DEF Stores
<1>2. \A k \in 1..s.count : s.cell[k - 1] \in Digits
  BY <1>1, Places DEF Stores
<1> QED BY <1>1, <1>2 DEF Values

\* A move in the middle keeps what is from its place on.
LEMMA MoveKeepsRest ==
  ASSUME BufferAssumption, NEW s \in Stores, Clean(s), NEW begin \in 1..Capacity, begin < s.count - 1
  PROVE  Values(MoveLeft(s, begin)) = SubSeq(Values(s), begin + 1, Len(Values(s)))
<1> DEFINE rest == SubSeq(Values(s), begin + 1, s.count)
<1>1. /\ Values(s) \in Seq(Digits) /\ Len(Values(s)) = s.count /\ s.count \in Nat /\ begin \in Nat
      /\ \A k \in 1..s.count : Values(s)[k] = s.cell[k - 1]
  BY ValuesAreDigits, Places
<1>2. rest = [k \in 1..(s.count - begin) |-> Values(s)[begin + k]]
  BY <1>1
<1>3. \A k \in 1..(s.count - begin) : Values(s)[begin + k] = s.cell[begin + k - 1]
  BY <1>1
<1> HIDE DEF rest
<1>4. rest = [k \in 1..(s.count - begin) |-> s.cell[begin + k - 1]]
  BY <1>2, <1>3
<1> QED BY <1>1, <1>4, MoveDrops DEF rest

\* Each call does to the store what it is to do to the values, and leaves the next place empty.
LEMMA InvariantStep ==
  ASSUME BufferAssumption, BufferInv, [Next]_<<store, values>>
  PROVE  BufferInv'
<1>1. /\ store \in Stores /\ Clean(store) /\ values = Values(store)
      /\ Len(values) = store.count /\ store.count \in 0..Capacity
  BY ValuesAreDigits DEF BufferInv
<1>2. CASE UNCHANGED <<store, values>>
  BY <1>2 DEF BufferInv, Clean, Values
<1>3. ASSUME NEW v \in Digits, Add(v) PROVE BufferInv'
  <2>1. store' = AddValue(store, v) /\ store' \in Stores /\ Clean(store')
    BY <1>1, <1>3, AddAppends DEF Add
  <2>2. values' = Values(store')
    BY <1>1, <1>3, AddAppends DEF Add
  <2>3. QED BY <2>1, <2>2 DEF BufferInv, Clean, Values
<1>4. ASSUME NEW begin \in 0..Capacity, Move(begin) PROVE BufferInv'
  <2>1. CASE begin = 0 \/ begin >= store.count
    <3>1. store' = store
      BY <2>1, <1>4 DEF Move, MoveLeft
    <3>2. values' = values
      BY <2>1, <1>1, <1>4 DEF Move
    <3>3. QED BY <3>1, <3>2, <1>1 DEF BufferInv, Clean, Values
  <2>2. CASE begin # 0 /\ begin = store.count - 1
    <3>1. store' = Reset(store) /\ values' = <<>>
      BY <2>2, <1>1, <1>4, Places DEF Move, MoveLeft
    <3>2. store' \in Stores /\ Clean(store') /\ values' = Values(store')
      BY <3>1, <1>1, ResetIsEmpty
    <3>3. QED BY <3>2 DEF BufferInv, Clean, Values
  <2>3. CASE begin # 0 /\ begin < store.count - 1
    <3>1. begin \in 1..Capacity
      BY <2>3, Places
    <3>2. store' = MoveLeft(store, begin) /\ values' = SubSeq(values, begin + 1, Len(values))
      <4>1. begin # Len(values) - 1 /\ begin < Len(values) - 1 /\ ~ (begin >= Len(values))
        BY <2>3, <1>1, Places
      <4>2. QED BY <4>1, <2>3, <1>4 DEF Move
    <3>3. store' \in Stores /\ Clean(store') /\ values' = Values(store')
      BY <3>1, <3>2, <2>3, <1>1, MoveDrops, MoveKeepsRest
    <3>4. QED BY <3>3 DEF BufferInv, Clean, Values
  <2>4. QED BY <2>1, <2>2, <2>3, <1>1, Places
<1>5. ASSUME NEW from \in Digits, NEW to \in Digits, Change(from, to) PROVE BufferInv'
  <2>1. store' = ChangeValues(store, from, to) /\ store' \in Stores /\ Clean(store')
    BY <1>1, <1>5, ChangeReplaces DEF Change
  <2>2. values' = Values(store')
    BY <1>1, <1>5, ChangeReplaces DEF Change
  <2>3. QED BY <2>1, <2>2 DEF BufferInv, Clean, Values
<1>6. CASE Empty
  <2>1. store' \in Stores /\ Clean(store') /\ values' = Values(store')
    BY <1>1, <1>6, ResetIsEmpty DEF Empty
  <2>2. QED BY <2>1 DEF BufferInv, Clean, Values
<1> QED BY <1>2, <1>3, <1>4, <1>5, <1>6 DEF Next

\* Whatever is added, moved, changed and reset, in any order, the buffer reads back as the sequence
\* that these calls are to make (bitstore.h): no value is or-ed onto another one, lost at a byte's edge
\* or shifted, for a buffer of any size.
THEOREM BufferIsSequence == BufferAssumption => (Spec => [](values = Values(store)))
<1>1. BufferAssumption /\ Init => BufferInv
  BY NewIsEmpty DEF Init, BufferInv
<1>2. BufferAssumption /\ BufferInv /\ [Next]_<<store, values>> => BufferInv'
  BY InvariantStep
<1>3. BufferInv => values = Values(store)
  BY DEF BufferInv
<1> SUFFICES ASSUME BufferAssumption PROVE Spec => [](values = Values(store))
  OBVIOUS
<1> QED BY <1>1, <1>2, <1>3, PTL DEF Spec

=============================================================================
