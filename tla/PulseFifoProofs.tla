--------------------------- MODULE PulseFifoProofs ---------------------------
(***************************************************************************)
(* What the ring buffer guarantees for every size and any number of        *)
(* pulses, although its dequeue races with the interrupt handlers.         *)
(*                                                                         *)
(* Two invariants.  The counter lags: it is at most the number of unread   *)
(* pulses, less the one whose decrement is done and whose slot is not read *)
(* yet.  And as long as nothing was overwritten, the unread pulses lie in  *)
(* order in consecutive slots, from the one dequeue reads next.            *)
(***************************************************************************)
EXTENDS PulseFifo, TLAPS

\* The two uses of % in the counter's arithmetic.
LEMMA ModSmall == ASSUME NEW x \in Nat, NEW m \in Nat, x < m PROVE x % m = x
  BY SMT
LEMMA ModDecrement == ASSUME NEW x \in Nat, NEW m \in Nat, 0 < x, x < m PROVE (x + m - 1) % m = x - 1
  BY SMT

-----------------------------------------------------------------------------
(* Types.                                                                   *)

LEMMA SlotType == \A n \in Nat : Slot(n) \in [low : Nat, high : Nat]
  BY DEF Slot

LEMMA WrappedType == \A n \in 0..Size : Wrapped(n) \in Slots
  BY FifoAssumption DEF Wrapped, Slots

LEMMA FlushType ==
  ASSUME TypeOK, Flush
  PROVE  /\ count' = 0 /\ nextIn' = 0 /\ nextOut' = 0
         /\ written' = 0 /\ taken' = 0 /\ overrun' = "no"
         /\ UNCHANGED <<raw, out, pc, reg, val>>
  BY DEF Flush, Flushed

LEMMA TypeInit == Init => TypeOK
  BY FifoAssumption, SlotType DEF Init, TypeOK, Slots

LEMMA CountedUp ==
  ASSUME TypeOK, HasRoom
  PROVE  (count + 1) % Width = count + 1 /\ count + 1 <= Size
<1>1. count + 1 \in Nat /\ count + 1 <= Size /\ count + 1 < Width
  BY FifoAssumption DEF TypeOK, HasRoom
<1>2. QED BY <1>1, ModSmall, FifoAssumption

LEMMA EnqueueType ==
  ASSUME TypeOK, Enqueue
  PROVE  /\ count' \in 0..(Width - 1) /\ nextIn' \in 0..Size
         /\ raw' \in [Slots -> [low : Nat, high : Nat]]
         /\ written' \in Nat /\ overrun' \in {"no", "yes"}
<1>1. CASE HasRoom
  <2>1. count' = count + 1 /\ count + 1 <= Size
    BY <1>1, CountedUp DEF Enqueue, HasRoom, TypeOK
  <2>2. Slot(written + 1) \in [low : Nat, high : Nat]
    BY SlotType DEF TypeOK
  <2>3. Wrapped(nextIn) \in Slots
    BY WrappedType DEF TypeOK
  <2>4. raw' \in [Slots -> [low : Nat, high : Nat]]
    BY <1>1, <2>2, <2>3 DEF Enqueue, TypeOK
  <2>5. nextIn' \in 0..Size
    BY <1>1, <2>3, FifoAssumption DEF Enqueue, Slots
  <2>6. count' \in 0..(Width - 1)
    BY <2>1, FifoAssumption DEF TypeOK
  <2>7. written' \in Nat /\ overrun' \in {"no", "yes"}
    BY <1>1 DEF Enqueue, TypeOK
  <2>8. QED BY <2>4, <2>5, <2>6, <2>7
<1>2. CASE ~HasRoom
  BY <1>2 DEF Enqueue, TypeOK, ringVars
<1>3. QED BY <1>1, <1>2

LEMMA TypeNext == TypeOK /\ [Next]_vars => TypeOK'
<1> SUFFICES ASSUME TypeOK, [Next]_vars PROVE TypeOK'
  OBVIOUS
<1> USE FifoAssumption
<1>1. CASE HandleRxInterrupt \/ Timer1RxSystem
  BY <1>1, EnqueueType DEF HandleRxInterrupt, Timer1RxSystem, Captures, TypeOK
<1>2. CASE Enter \/ Check \/ Load \/ Decode
  BY <1>2 DEF Enter, Check, Empty, Load, Decode, MainOnly, ringVars, TypeOK
<1>3. CASE Store
  <2>1. (reg + Width - 1) % Width \in 0..(Width - 1)
    BY DEF TypeOK
  <2>2. QED BY <1>3, <2>1 DEF Store, TypeOK
<1>4. CASE Advance
  <2>1. Wrapped(nextOut) \in Slots
    BY WrappedType DEF TypeOK
  <2>2. Wrapped(nextOut) + 1 \in 0..Size
    BY <2>1 DEF Slots
  <2>3. QED BY <1>4, <2>1, <2>2 DEF Advance, Advanced, MainOnly, ringVars, TypeOK
<1>5. CASE ReadLow \/ ReadHigh
  <2>1. raw[out] \in [low : Nat, high : Nat]
    BY DEF TypeOK
  <2>2. val' \in [low : Nat, high : Nat]
    BY <1>5, <2>1 DEF ReadLow, ReadHigh, TypeOK
  <2>3. QED BY <1>5, <2>2 DEF ReadLow, ReadHigh, MainOnly, ringVars, TypeOK
<1>6. CASE BeginTransmission \/ EndTransmission
  BY <1>6, FlushType DEF BeginTransmission, EndTransmission, TypeOK
<1>7. CASE UNCHANGED vars
  BY <1>7 DEF vars, ringVars, TypeOK
<1>8. QED BY <1>1, <1>2, <1>3, <1>4, <1>5, <1>6, <1>7 DEF Next, LoopRxSystem

\* Every variable of the ring stays of its type; indices never leave the buffer.
THEOREM FifoTypeOK == Spec => []TypeOK
  BY TypeInit, TypeNext, PTL DEF Spec

-----------------------------------------------------------------------------
(* The counter.                                                             *)

\* Between the store of the decrement and the last read of the slot, the counter is one ahead.
Dequeuing == pc \in {"advance", "low", "high"}

CountInv ==
  /\ NoWrap
  /\ taken + count + (IF Dequeuing THEN 1 ELSE 0) <= written
  /\ pc \in {"load", "store"} => count >= 1
  /\ pc = "store" => reg >= 1 /\ reg <= count

LEMMA CountInit == Init => CountInv
  BY FifoAssumption DEF Init, CountInv, NoWrap, Dequeuing

LEMMA CountNext == TypeOK /\ CountInv /\ [Next]_vars => CountInv'
<1> SUFFICES ASSUME TypeOK, CountInv, [Next]_vars PROVE CountInv'
  OBVIOUS
<1> USE FifoAssumption DEF CountInv, NoWrap, Dequeuing, TypeOK
<1>1. CASE HandleRxInterrupt \/ Timer1RxSystem
  <2>1. CASE HasRoom
    <3>1. count' = count + 1 /\ written' = written + 1
      BY <1>1, <2>1, CountedUp DEF HandleRxInterrupt, Timer1RxSystem, Captures, Enqueue
    <3>2. QED BY <1>1, <2>1, <3>1 DEF HandleRxInterrupt, Timer1RxSystem, Captures, HasRoom
  <2>2. CASE ~HasRoom
    BY <1>1, <2>2 DEF HandleRxInterrupt, Timer1RxSystem, Captures, Enqueue, ringVars
  <2>3. QED BY <2>1, <2>2
<1>2. CASE Enter \/ Check \/ Load \/ Decode
  BY <1>2 DEF Enter, Check, NotEmpty, Empty, Load, Decode, MainOnly, ringVars
<1>3. CASE Store
  <2>1. count' = reg - 1
    BY <1>3, ModDecrement DEF Store
  <2>2. QED BY <1>3, <2>1 DEF Store
<1>4. CASE Advance \/ ReadLow \/ ReadHigh
  BY <1>4 DEF Advance, ReadLow, ReadHigh, MainOnly, ringVars
<1>5. CASE BeginTransmission \/ EndTransmission
  <2>1. pc' = "idle" /\ count' = 0 /\ written' = 0 /\ taken' = 0
    BY <1>5, FlushType DEF BeginTransmission, EndTransmission
  <2>2. QED BY <2>1
<1>6. CASE UNCHANGED vars
  BY <1>6 DEF vars, ringVars
<1>7. QED BY <1>1, <1>2, <1>3, <1>4, <1>5, <1>6 DEF Next, LoopRxSystem

LEMMA CountInvariant == Spec => [](TypeOK /\ CountInv)
<1>1. Init => TypeOK /\ CountInv
  BY TypeInit, CountInit
<1>2. TypeOK /\ CountInv /\ [Next]_vars => (TypeOK /\ CountInv)'
  BY TypeNext, CountNext
<1>3. QED BY <1>1, <1>2, PTL DEF Spec

\* The counter never counts a pulse that is not there, for every buffer size and any interleaving
\* of the handlers with the unmasked dequeue.
THEOREM CounterLags == Spec => []CountNeverOver
<1>1. TypeOK /\ CountInv => CountNeverOver
  BY DEF TypeOK, CountInv, CountNeverOver, Unread
<1>2. QED BY <1>1, CountInvariant, PTL

\* The unsigned counter never wraps below zero, and never exceeds the size.
THEOREM CounterNeverWraps == Spec => []NoWrap
<1>1. CountInv => NoWrap
  BY DEF CountInv
<1>2. QED BY <1>1, CountInvariant, PTL

\* Only slots that were written since the last flush are ever read.
THEOREM OnlyWrittenIsRead == Spec => []ReadsWritten
<1>1. TypeOK /\ CountInv => ReadsWritten
  BY DEF TypeOK, CountInv, ReadsWritten, Dequeuing
<1>2. QED BY <1>1, CountInvariant, PTL

-----------------------------------------------------------------------------
(* The order.                                                               *)

\* The slot of the next pulse to take, and the one `j` further.
Base == IF pc \in {"low", "high"} THEN out ELSE Wrapped(nextOut)
Place(j) == IF Base + j < Size THEN Base + j ELSE Base + j - Size

RingInv ==
  /\ Unread <= Size
  /\ \A j \in 0..(Size - 1) : j < Unread => raw[Place(j)] = Slot(taken + 1 + j)
  /\ Wrapped(nextIn) = Place(Unread)
  /\ pc \in {"low", "high"} => nextOut = out + 1
  /\ pc = "high" => val.low = taken + 1

OrderInv == overrun = "no" => RingInv /\ (pc = "decode" => val = Slot(taken))

LEMMA OrderInit == Init => OrderInv
  BY FifoAssumption DEF Init, OrderInv, RingInv, Unread, Wrapped, Place, Base

\* As long as nothing is overwritten, the new pulse goes behind the unread ones.
LEMMA OrderEnqueued ==
  ASSUME TypeOK, CountInv, OrderInv, Captures
  PROVE  OrderInv'
<1> USE FifoAssumption DEF TypeOK
<1>1. CASE ~HasRoom
  BY <1>1 DEF Captures, Enqueue, ringVars, OrderInv, RingInv, Unread, Place, Base
<1>2. CASE HasRoom /\ overrun' = "no"
  <2>1. overrun = "no" /\ Unread < Size
    BY <1>2 DEF Captures, Enqueue, Unread
  <2>2. UNCHANGED <<nextOut, out, pc, val, taken>> /\ written' = written + 1
    BY <1>2 DEF Captures, Enqueue
  <2>3. Unread \in Nat /\ Unread' = Unread + 1
    BY <2>2 DEF CountInv, Unread, Dequeuing
  <2>4. Base \in Slots /\ Base' = Base
    BY <2>2, WrappedType DEF Base
  <2>5. \A j \in 0..Size : Place(j)' = Place(j)
    BY <2>4 DEF Place
  <2>6. raw' = [raw EXCEPT ![Place(Unread)] = Slot(written + 1)] /\ Place(Unread) \in Slots
    <3>1. Wrapped(nextIn) = Place(Unread)
      BY <2>1 DEF OrderInv, RingInv
    <3>2. Place(Unread) \in Slots
      BY <2>1, <2>3, <2>4 DEF Place, Slots
    <3>3. QED BY <1>2, <3>1, <3>2 DEF Captures, Enqueue
  <2>7. ASSUME NEW j \in 0..(Size - 1), j < Unread'
        PROVE  raw'[Place(j)] = Slot(taken + 1 + j)
    <3>1. CASE j = Unread
      <4>1. taken + 1 + j = written + 1
        BY <3>1 DEF Unread
      <4>2. QED BY <2>6, <3>1, <4>1
    <3>2. CASE j < Unread
      <4>1. Place(j) # Place(Unread) /\ Place(j) \in Slots
        BY <2>1, <2>3, <2>4, <3>2 DEF Place, Slots
      <4>2. raw[Place(j)] = Slot(taken + 1 + j)
        BY <2>1, <3>2 DEF OrderInv, RingInv
      <4>3. QED BY <2>6, <4>1, <4>2
    <3>3. QED BY <2>3, <2>7, <3>1, <3>2
  <2>8. Wrapped(nextIn)' = Place(Unread + 1)
    <3>1. nextIn' = Place(Unread) + 1
      BY <1>2, <2>1 DEF Captures, Enqueue, OrderInv, RingInv
    <3>2. QED BY <2>1, <2>3, <2>4, <3>1 DEF Wrapped, Place, Slots
  <2>9. RingInv'
    <3>1. \A j \in 0..(Size - 1) : j < Unread' => raw'[Place(j)'] = Slot(taken' + 1 + j)
      BY <2>2, <2>5, <2>7
    <3>2. Wrapped(nextIn)' = Place(Unread)'
      BY <2>3, <2>4, <2>8 DEF Place
    <3>3. Unread' <= Size
      BY <2>1, <2>3
    <3>4. QED BY <2>1, <2>2, <3>1, <3>2, <3>3 DEF OrderInv, RingInv
  <2>10. QED BY <2>1, <2>2, <2>9 DEF OrderInv
<1>3. CASE overrun' # "no"
  BY <1>3 DEF OrderInv
<1>4. QED BY <1>1, <1>2, <1>3

\* The slot dequeue reads holds the next pulse; the rest moves up by one.
LEMMA OrderTaken ==
  ASSUME TypeOK, CountInv, OrderInv, ReadHigh
  PROVE  OrderInv'
<1> USE FifoAssumption DEF TypeOK
<1> SUFFICES ASSUME overrun = "no" PROVE RingInv' /\ val' = Slot(taken')
  BY DEF ReadHigh, MainOnly, OrderInv
<1>1. UNCHANGED <<nextOut, out, raw, nextIn, written>> /\ taken' = taken + 1 /\ pc' = "decode"
  BY DEF ReadHigh, MainOnly, ringVars
<1>2. Base = out /\ Base' = Wrapped(nextOut) /\ nextOut = out + 1 /\ pc = "high"
  BY <1>1 DEF ReadHigh, Base, OrderInv, RingInv
<1>3. Unread \in Nat /\ Unread > 0 /\ Unread' = Unread - 1 /\ Unread <= Size
  BY <1>1, <1>2 DEF CountInv, Unread, Dequeuing, OrderInv, RingInv
<1>4. ASSUME NEW j \in 0..(Size - 1) PROVE Place(j)' = Place(j + 1)
  BY <1>2 DEF Place, Wrapped, Slots
<1>5. raw[out] = Slot(taken + 1)
  <2>1. Place(0) = out
    BY <1>2 DEF Place, Slots
  <2>2. raw[Place(0)] = Slot(taken + 1 + 0)
    BY <1>3 DEF OrderInv, RingInv
  <2>3. QED BY <2>1, <2>2
<1>6. val' = Slot(taken')
  BY <1>1, <1>2, <1>5 DEF ReadHigh, OrderInv, RingInv, Slot
<1>7. ASSUME NEW j \in 0..(Size - 1), j < Unread'
      PROVE  raw'[Place(j)'] = Slot(taken' + 1 + j)
  <2>1. j + 1 \in 0..(Size - 1) /\ j + 1 < Unread
    BY <1>3, <1>7
  <2>2. raw[Place(j + 1)] = Slot(taken + 1 + (j + 1))
    BY <2>1 DEF OrderInv, RingInv
  <2>3. taken + 1 + (j + 1) = taken' + 1 + j
    BY <1>1
  <2>4. QED BY <1>1, <1>4, <2>2, <2>3
<1>8. Wrapped(nextIn)' = Place(Unread)'
  <2>1. Wrapped(nextIn) = Place(Unread)
    BY DEF OrderInv, RingInv
  <2>2. Unread' \in 0..(Size - 1) /\ Unread = Unread' + 1
    BY <1>3
  <2>3. Place(Unread)' = Place(Unread' + 1)
    <3> SUFFICES ASSUME NEW j \in 0..(Size - 1), j = Unread'
                 PROVE  Place(Unread)' = Place(j + 1)
      BY <2>2
    <3>1. Place(Unread)' = Place(j)'
      BY DEF Place
    <3>2. QED BY <1>4, <3>1
  <2>4. QED BY <1>1, <2>1, <2>2, <2>3 DEF Wrapped
<1>9. QED BY <1>1, <1>3, <1>6, <1>7, <1>8 DEF RingInv

LEMMA OrderNext == TypeOK /\ CountInv /\ OrderInv /\ [Next]_vars => OrderInv'
<1> SUFFICES ASSUME TypeOK, CountInv, OrderInv, [Next]_vars PROVE OrderInv'
  OBVIOUS
<1> USE FifoAssumption DEF TypeOK
<1>1. CASE HandleRxInterrupt \/ Timer1RxSystem
  BY <1>1, OrderEnqueued DEF HandleRxInterrupt, Timer1RxSystem
<1>2. CASE Enter \/ Check \/ Load \/ Decode
  BY <1>2 DEF Enter, Check, Empty, Load, Decode, MainOnly, ringVars, OrderInv, RingInv, Unread, Place, Base
<1>3. CASE Store
  BY <1>3 DEF Store, OrderInv, RingInv, Unread, Place, Base
<1>4. CASE Advance
  BY <1>4 DEF Advance, Advanced, MainOnly, ringVars, OrderInv, RingInv, Unread, Place, Base
<1>5. CASE ReadLow
  <2>1. ASSUME overrun = "no" PROVE val'.low = taken + 1
    <3>1. Place(0) = out /\ Unread > 0
      <4>1. Place(0) = out
        BY <1>5 DEF ReadLow, Place, Base, Slots
      <4>2. Unread > 0
        BY <1>5 DEF ReadLow, CountInv, Dequeuing, Unread
      <4>3. QED BY <4>1, <4>2
    <3>2. raw[Place(0)] = Slot(taken + 1 + 0)
      BY <2>1, <3>1 DEF OrderInv, RingInv
    <3>3. raw[out].low = taken + 1
      BY <3>1, <3>2 DEF Slot
    <3>4. QED BY <1>5, <3>3 DEF ReadLow
  <2>2. QED
    BY <1>5, <2>1 DEF ReadLow, MainOnly, ringVars, OrderInv, RingInv, Unread, Place, Base
<1>6. CASE ReadHigh
  BY <1>6, OrderTaken
<1>7. CASE BeginTransmission \/ EndTransmission
  <2>1. pc' = "idle" /\ nextIn' = 0 /\ nextOut' = 0 /\ written' = 0 /\ taken' = 0
    BY <1>7, FlushType DEF BeginTransmission, EndTransmission
  <2>2. QED BY <2>1 DEF OrderInv, RingInv, Unread, Wrapped, Place, Base
<1>8. CASE UNCHANGED vars
  BY <1>8 DEF vars, ringVars, OrderInv, RingInv, Unread, Place, Base
<1>9. QED BY <1>1, <1>2, <1>3, <1>4, <1>5, <1>6, <1>7, <1>8 DEF Next, LoopRxSystem

\* Whatever pulses the counter forgets, decode gets every pulse whole and in the order of capture,
\* until an unread pulse is overwritten; a flush starts over.
THEOREM PulsesInOrder == Spec => []InOrder
<1>1. Init => TypeOK /\ CountInv /\ OrderInv
  BY TypeInit, CountInit, OrderInit
<1>2. TypeOK /\ CountInv /\ OrderInv /\ [Next]_vars => (TypeOK /\ CountInv /\ OrderInv)'
  BY TypeNext, CountNext, OrderNext
<1>3. OrderInv => InOrder
  BY DEF OrderInv, InOrder
<1>4. QED BY <1>1, <1>2, <1>3, PTL DEF Spec
=============================================================================
