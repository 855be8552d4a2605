------------------------------ MODULE PulseFifo ------------------------------
(***************************************************************************)
(* The ring buffer between the interrupt handlers that measure pulses and  *)
(* the main loop that decodes them (SimpleFIFO as rf.cpp uses it).         *)
(*                                                                         *)
(* The handlers run with interrupts disabled, so enqueueing is one step.   *)
(* The main loop runs with interrupts enabled: its dequeue is interrupted  *)
(* between any two accesses to what it shares with the handlers, which are *)
(* the counter, decremented by a load and a store, and the two bytes of a  *)
(* slot, read one after the other.  nextOut and out are the main loop's.   *)
(*                                                                         *)
(* A pulse is the number of its capture since the last flush.              *)
(***************************************************************************)
EXTENDS Naturals

CONSTANTS
  Size,      \* FIFO_LENGTH
  Width,     \* numberOfElements is an unsigned number below this
  MaxPulses  \* bound: pulses captured between two flushes

ASSUME FifoAssumption == Size \in Nat \ {0} /\ Width \in Nat /\ Size < Width /\ MaxPulses \in Nat

VARIABLES
  count,     \* numberOfElements
  nextIn, nextOut, out,
  raw,       \* the slots, each the pulse its low and its high byte belong to
  pc,        \* where the main loop is
  reg,       \* numberOfElements as dequeue loaded it
  val,       \* the bytes of raw[out] read so far, then the value given to decode
  timer,     \* on: the timer interrupt comes; off: Timer1 is stopped
  pin,       \* attached: the pin change interrupt comes; or detached
  written, taken,  \* history: pulses enqueued and pulses dequeued since the last flush
  overrun          \* history: a pulse was overwritten before it was dequeued

ringVars == <<count, nextIn, raw>>
vars == <<ringVars, nextOut, out, pc, reg, val, timer, pin, written, taken, overrun>>

Slots == 0..(Size - 1)
Slot(pulse) == [low |-> pulse, high |-> pulse]

\* `%=` of an index, which has advanced by one at most since it was below Size.
Wrapped(index) == IF index = Size THEN 0 ELSE index

TypeOK ==
  /\ count \in 0..(Width - 1) /\ reg \in 0..(Width - 1)
  /\ nextIn \in 0..Size /\ nextOut \in 0..Size /\ out \in Slots
  /\ raw \in [Slots -> [low : Nat, high : Nat]]
  /\ val \in [low : Nat, high : Nat]
  /\ pc \in {"idle", "check", "load", "store", "advance", "low", "high", "decode"}
  /\ timer \in {"on", "off"} /\ pin \in {"attached", "detached"}
  /\ written \in Nat /\ taken \in Nat /\ overrun \in {"no", "yes"}

\* Receiving, as initRxSystem leaves it.
Init ==
  /\ count = 0 /\ nextIn = 0 /\ nextOut = 0 /\ out = 0 /\ reg = 0
  /\ raw = [s \in Slots |-> Slot(0)] /\ val = Slot(0)
  /\ pc = "idle" /\ timer = "on" /\ pin = "attached"
  /\ written = 0 /\ taken = 0 /\ overrun = "no"

-----------------------------------------------------------------------------
(* The interrupt handlers.                                                  *)

\* enqueue refuses an element when the counter says that all slots are used.
HasRoom == count < Size

Enqueue ==
  IF HasRoom
    THEN /\ count' = (count + 1) % Width
         /\ raw' = [raw EXCEPT ![Wrapped(nextIn)] = Slot(written + 1)]
         /\ nextIn' = Wrapped(nextIn) + 1
         /\ written' = written + 1
         /\ overrun' = IF written - taken < Size THEN overrun ELSE "yes"
    ELSE UNCHANGED <<ringVars, written, overrun>>

Captures == written < MaxPulses /\ Enqueue
            /\ UNCHANGED <<nextOut, out, pc, reg, val, taken, pin>>

\* handleRxInterrupt; what is shorter than minPulse is not enqueued, which is no step.
HandleRxInterrupt == pin = "attached" /\ Captures /\ UNCHANGED timer

\* timer1RxSystem: the line did not change for maxPulse.  setPeriod keeps the timer running.
Timer1RxSystem == timer = "on" /\ Captures /\ UNCHANGED timer

-----------------------------------------------------------------------------
(* loopRxSystem, one access to shared state at a time.                      *)

MainOnly == UNCHANGED <<ringVars, timer, pin, written, overrun>>

\* loop() calls loopRxSystem; a transmission keeps loop() in hostSerial.loop.
Enter ==
  /\ pc = "idle" /\ pin = "attached" /\ pc' = "check"
  /\ UNCHANGED <<nextOut, out, reg, val, taken>> /\ MainOnly

NotEmpty == count > 0

\* Variant: the loop waits for the next pulse.
EmptyWaits == "check"

\* Back to loop() when there is nothing left.
Empty == "idle"

Check ==
  /\ pc = "check" /\ pc' = IF NotEmpty THEN "load" ELSE Empty
  /\ UNCHANGED <<nextOut, out, reg, val, taken>> /\ MainOnly

Load ==
  /\ pc = "load" /\ pc' = "store"
  /\ reg' = count
  /\ UNCHANGED <<nextOut, out, val, taken>> /\ MainOnly

\* What came in between is forgotten by the counter.
Store ==
  /\ pc = "store" /\ pc' = "advance"
  /\ count' = (reg + Width - 1) % Width
  /\ UNCHANGED <<nextIn, raw, nextOut, out, reg, val, timer, pin, written, taken, overrun>>

\* The slot dequeue reads: nextOut %= size.
Advanced == Wrapped(nextOut)

Advance ==
  /\ pc = "advance" /\ pc' = "low"
  /\ out' = Advanced /\ nextOut' = Wrapped(nextOut) + 1
  /\ UNCHANGED <<reg, val, taken>> /\ MainOnly

ReadLow ==
  /\ pc = "low" /\ pc' = "high"
  /\ val' = [val EXCEPT !.low = raw[out].low]
  /\ UNCHANGED <<nextOut, out, reg, taken>> /\ MainOnly

ReadHigh ==
  /\ pc = "high" /\ pc' = "decode"
  /\ val' = [val EXCEPT !.high = raw[out].high]
  /\ taken' = taken + 1
  /\ UNCHANGED <<nextOut, out, reg>> /\ MainOnly

\* signalDecoder.decode(&val), and back to the while condition.
Decode == pc = "decode" /\ pc' = "check" /\ UNCHANGED <<nextOut, out, reg, val, taken>> /\ MainOnly

-----------------------------------------------------------------------------
(* A transmission, which the main loop handles between two loopRxSystem.    *)

\* Variants: the flush forgets one of the three.
FlushedKeepsOut == count' = 0 /\ nextIn' = 0 /\ UNCHANGED nextOut
FlushedKeepsCount == nextIn' = 0 /\ nextOut' = 0 /\ UNCHANGED count

Flushed == count' = 0 /\ nextIn' = 0 /\ nextOut' = 0

Flush ==
  /\ Flushed
  /\ written' = 0 /\ taken' = 0 /\ overrun' = "no"
  /\ UNCHANGED <<raw, out, pc, reg, val>>

\* A timer interrupt that is pending at Timer1.stop comes after sei, and its setPeriod starts
\* the timer again.
BeginTransmission ==
  /\ pc = "idle" /\ pin = "attached"
  /\ pin' = "detached" /\ timer' \in {"on", "off"}
  /\ Flush

EndTransmission ==
  /\ pc = "idle" /\ pin = "detached"
  /\ pin' = "attached" /\ timer' = "on"
  /\ Flush

-----------------------------------------------------------------------------
LoopRxSystem == Enter \/ Check \/ Load \/ Store \/ Advance \/ ReadLow \/ ReadHigh \/ Decode

Next == HandleRxInterrupt \/ Timer1RxSystem \/ LoopRxSystem \/ BeginTransmission \/ EndTransmission

\* The main loop goes on between interrupts, and a transmission ends.
Fairness == WF_vars(LoopRxSystem) /\ WF_vars(EndTransmission)

Spec == Init /\ [][Next]_vars /\ Fairness

-----------------------------------------------------------------------------
(* Properties.                                                              *)

\* The pulses that are enqueued and not dequeued yet.
Unread == written - taken

\* The counter may forget pulses, but it never counts one that is not there: a full FIFO drops
\* a pulse only when Size pulses are unread, and dequeue never reads past the last one.
CountNeverOver == written >= taken /\ count <= Unread

\* The decrement never wraps to 255, after which the loop would decode what is no pulse, and
\* refuse every pulse that is.
NoWrap == count <= Size

\* As long as no unread pulse is overwritten, decode gets the pulses whole and in the order they
\* were captured, whatever the counter forgot.
InOrder == pc = "decode" /\ overrun = "no" => val = Slot(taken)

\* dequeue reads a slot that was written since the flush, never a pulse of before it.
ReadsWritten == pc \in {"low", "high"} => taken < written

\* However the interrupts and the counter race, loopRxSystem comes back to the main loop, and so
\* to the watchdog, once the pulses stop.
LoopReturns == pc # "idle" ~> pc = "idle"

\* "get next element": the n-th pulse that is dequeued is the n-th that was enqueued.
DequeuesNext == pc = "decode" => val = Slot(taken)
=============================================================================
