-------------------------- MODULE ClassifierProofs --------------------------
(***************************************************************************)
(* What the classifier guarantees for any number of types and tasks and    *)
(* whatever its limits are.                                                *)
(*                                                                         *)
(* One inductive invariant carries all of it.  Tasks and registrations     *)
(* match, so a type has one task at most.  The lock orders the tasks: only *)
(* its holder is past it, and who waits is in line once, so that an end or *)
(* a cancellation hands it to a task that still waits.  A record that a    *)
(* task holds is the one in records, and a record is classifying exactly   *)
(* while its task waits for the answer.  What was due when a task was      *)
(* started stays so for as long as it waits, since nobody else changes the *)
(* record of a type that has a task; but a record that is pruned meanwhile *)
(* and collected afresh starts to count its transmissions again.           *)
(***************************************************************************)
EXTENDS Classifier, Integers, Sequences, SequencesExt, SequenceTheorems, TLAPS

-----------------------------------------------------------------------------
(* Sequences.                                                               *)

\* A sequence without one of its elements.
LEMMA RemoveAtProperties ==
  ASSUME NEW S, NEW s \in Seq(S), NEW i \in 1..Len(s)
  PROVE  /\ RemoveAt(s, i) \in Seq(S)
         /\ Len(RemoveAt(s, i)) = Len(s) - 1
         /\ \A n \in 1..(Len(s) - 1) : RemoveAt(s, i)[n] = IF n < i THEN s[n] ELSE s[n + 1]
<1>1. Len(s) \in Nat /\ \A n \in 1..Len(s) : s[n] \in S
  BY LenProperties, ElementOfSeq
<1> DEFINE a == SubSeq(s, 1, i - 1)
           b == SubSeq(s, i + 1, Len(s))
<1>2. a \in Seq(S) /\ Len(a) = i - 1 /\ \A n \in 1..(i - 1) : a[n] = s[n]
  <2>1. i - 1 \in Int /\ \A n \in 1..(i - 1) : s[n] \in S
    BY <1>1
  <2>2. QED BY <2>1, <1>1, SubSeqProperties
<1>3. b \in Seq(S) /\ Len(b) = Len(s) - i /\ \A n \in 1..(Len(s) - i) : b[n] = s[n + i]
  <2>1. i + 1 \in Int /\ Len(s) \in Int /\ \A n \in (i + 1)..Len(s) : s[n] \in S
    BY <1>1
  <2>2. QED BY <2>1, <1>1, SubSeqProperties
<1>4. /\ a \o b \in Seq(S) /\ Len(a \o b) = Len(a) + Len(b)
      /\ \A n \in 1..(Len(a) + Len(b)) : (a \o b)[n] = IF n <= Len(a) THEN a[n] ELSE b[n - Len(a)]
  BY <1>2, <1>3, ConcatProperties
<1>5. RemoveAt(s, i) = a \o b
  BY DEF RemoveAt
<1> HIDE DEF a, b
<1>6. Len(a) + Len(b) = Len(s) - 1
  BY <1>1, <1>2, <1>3
<1>7. ASSUME NEW n \in 1..(Len(s) - 1) PROVE (a \o b)[n] = IF n < i THEN s[n] ELSE s[n + 1]
  <2>1. CASE n < i
    BY <2>1, <1>1, <1>2, <1>4, <1>6
  <2>2. CASE ~(n < i)
    <3>1. n - Len(a) = n - i + 1 /\ n - i + 1 \in 1..(Len(s) - i) /\ ~(n <= Len(a))
      BY <2>2, <1>1, <1>2
    <3>2. b[n - i + 1] = s[n + 1]
      BY <3>1, <1>1, <1>3
    <3>3. QED BY <2>2, <3>1, <3>2, <1>1, <1>4, <1>6
  <2>3. QED BY <2>1, <2>2
<1>8. QED BY <1>1, <1>4, <1>5, <1>6, <1>7

-----------------------------------------------------------------------------
(* The inductive invariant.  Its parts are about the records and the tasks  *)
(* given to them, since a task starts from what its caller made of both.    *)

\* A task is registered for its type and a registered task is there.
Registering(tasks) ==
  /\ \A k \in Tasks : tasks[k] # NoTask => registered[tasks[k].id] = k
  /\ \A i \in Ids : registered[i] # NoTask =>
       tasks[registered[i]] # NoTask /\ tasks[registered[i]].id = i

\* Only the holder of the lock is past it, and who waits for it is there once.
Locking(tasks) ==
  /\ \A k \in Tasks : tasks[k] # NoTask /\ tasks[k].pc \in {"client", "request"} => holder = k
  /\ holder # NoTask => tasks[holder] # NoTask /\ tasks[holder].pc # "done"
  /\ \A n \in 1..Len(waiters) :
       /\ tasks[waiters[n]] # NoTask /\ tasks[waiters[n]].pc = "lock" /\ waiters[n] # holder
       /\ \A m \in 1..Len(waiters) : waiters[m] = waiters[n] => m = n

\* The record a task holds is in records, and is classifying when Claude was asked about it.
Holding(recs, tasks) ==
  \A k \in Tasks : tasks[k] # NoTask /\ tasks[k].record = "held" =>
    /\ tasks[k].pc \in {"client", "request"} /\ recs[tasks[k].id] # NoRecord
    /\ tasks[k].pc = "request" => recs[tasks[k].id].status = "classifying"

Asking(recs, tasks) ==
  entry # "unloaded" =>
    \A i \in Ids : recs[i] # NoRecord /\ recs[i].status = "classifying" =>
      /\ registered[i] # NoTask
      /\ tasks[registered[i]].pc = "request" /\ tasks[registered[i]].record = "held"

Sendable(r) ==
  r.status = "collecting" \/ (r.status = "failed" /\ r.due = "yes" /\ r.attempts < MaxAttempts)

\* Heard often enough, or collected afresh since the task started.
Enough(r, removed) == r.transmissions >= MinTransmissions \/ removed = "yes"

\* What a task that was started automatically waits to send can still be sent, and a task whose
\* record is gone knows it.
Waiting(recs, tasks) ==
  \A k \in Tasks : tasks[k] # NoTask /\ tasks[k].pc \in {"lock", "client"} =>
    /\ recs[tasks[k].id] = NoRecord => tasks[k].removed = "yes"
    /\ recs[tasks[k].id] # NoRecord /\ tasks[k].origin = "auto" =>
         Sendable(recs[tasks[k].id]) /\ Enough(recs[tasks[k].id], tasks[k].removed)

Ending(tasks) ==
  /\ entry = "unloading" => \A k \in Tasks :
       tasks[k] # NoTask /\ tasks[k].pc # "done" => tasks[k].cancelled = "yes"
  /\ entry = "unloaded" => \A k \in Tasks : tasks[k] = NoTask

Good(recs, tasks) ==
  /\ Registering(tasks) /\ Locking(tasks) /\ Holding(recs, tasks) /\ Asking(recs, tasks)
  /\ Waiting(recs, tasks) /\ Ending(tasks)

IInv == TypeOK /\ Good(records, task)

-----------------------------------------------------------------------------
(* Types.                                                                   *)

LEMMA TaskFields ==
  ASSUME NEW t \in Task, NEW pc \in {"lock", "client", "request", "done"},
         NEW r \in {"none", "held", "detached"}, NEW c \in {"no", "yes"},
         NEW d \in {"no", "yes"}
  PROVE  /\ [t EXCEPT !.pc = pc] \in Task /\ [t EXCEPT !.record = r] \in Task
         /\ [t EXCEPT !.cancelled = c] \in Task
         /\ [t EXCEPT !.pc = pc, !.record = r] \in Task
         /\ [t EXCEPT !.record = r, !.removed = d] \in Task
         /\ [t EXCEPT !.pc = pc, !.record = r, !.cancelled = c, !.removed = d] \in Task
  BY DEF Task

LEMMA NewTaskType ==
  ASSUME NEW id \in Ids, NEW origin \in {"auto", "manual"}
  PROVE  NewTask(id, origin) \in Task
  BY DEF Task, NewTask

LEMMA AskedType ==
  ASSUME NEW r \in Record
  PROVE  /\ Asked(r) \in Record /\ Asked(r).status = "classifying"
         /\ Asked(r).transmissions = r.transmissions
<1> DEFINE n == IF r.attempts < MaxAttempts THEN r.attempts + 1 ELSE r.attempts
<1>1. n \in 0..MaxAttempts
  BY ClassifierAssumption DEF Record
<1>2. Asked(r) = [r EXCEPT !.status = "classifying", !.attempts = n, !.due = "no"]
  BY DEF Asked
<1> HIDE DEF n
<1>3. QED BY <1>1, <1>2 DEF Record

LEMMA NewRecordType == NewRecord \in Record
  BY ClassifierAssumption DEF Record, NewRecord

LEMMA ReleaseType ==
  ASSUME TypeOK, Release
  PROVE  holder' \in Tasks \union {NoTask} /\ waiters' \in Seq(Tasks)
<1>1. CASE waiters = <<>>
  BY <1>1 DEF Release, TypeOK
<1>2. CASE waiters # <<>>
  <2>1. Head(waiters) \in Tasks /\ Tail(waiters) \in Seq(Tasks)
    BY <1>2, HeadTailProperties DEF TypeOK
  <2>2. QED BY <1>2, <2>1 DEF Release
<1>3. QED BY <1>1, <1>2

\* A task that starts, with the records and the tasks its caller leaves.
LEMMA StartType ==
  ASSUME TypeOK, NEW id \in Ids, NEW origin \in {"auto", "manual"},
         NEW recs \in [Ids -> Record \union {NoRecord}],
         NEW tasks \in [Tasks -> Task \union {NoTask}],
         recs[id] # NoRecord, Start(id, origin, recs, tasks)
  PROVE  /\ records' \in [Ids -> Record \union {NoRecord}]
         /\ requested' \in Nat
         /\ task' \in [Tasks -> Task \union {NoTask}]
         /\ registered' \in [Ids -> Tasks \union {NoTask}]
         /\ holder' \in Tasks \union {NoTask} /\ waiters' \in Seq(Tasks)
<1> DEFINE t == NewTask(id, origin)
           h == [t EXCEPT !.record = "held"]
<1>1. t \in Task /\ h \in Task /\ t.id = id /\ h.id = id /\ h.record = "held"
      /\ [h EXCEPT !.pc = "client"] \in Task /\ [h EXCEPT !.pc = "request"] \in Task
      /\ [t EXCEPT !.pc = "client", !.record = "held"] \in Task
  BY NewTaskType, TaskFields DEF NewTask
<1>2. Asked(recs[id]) \in Record
  BY AskedType
<1>3. PICK k \in Tasks :
        /\ registered' = [registered EXCEPT ![id] = k]
        /\ IF LockFree
             THEN holder' = k /\ UNCHANGED waiters /\ Owned(k, t, recs, tasks)
             ELSE /\ waiters' = Append(waiters, k) /\ UNCHANGED holder
                  /\ task' = [tasks EXCEPT ![k] = t]
                  /\ records' = recs /\ UNCHANGED requested
  BY DEF Start
<1>4. registered' \in [Ids -> Tasks \union {NoTask}]
  BY <1>3 DEF TypeOK
<1> HIDE DEF t, h
<1>5. CASE LockFree /\ client = "none"
  BY <1>1, <1>3, <1>4, <1>5 DEF Owned, TypeOK
<1>6. CASE LockFree /\ client # "none"
  <2>1. Ask(k, h, recs, tasks)
    BY <1>3, <1>6 DEF Owned, h
  <2>2. QED BY <1>1, <1>2, <1>3, <1>4, <1>6, <2>1 DEF Ask, TypeOK
<1>7. CASE ~LockFree
  <2>1. Append(waiters, k) \in Seq(Tasks)
    BY AppendProperties DEF TypeOK
  <2>2. task' \in [Tasks -> Task \union {NoTask}] /\ waiters' = Append(waiters, k)
    BY <1>1, <1>3, <1>7
  <2>3. records' = recs /\ requested' = requested /\ holder' = holder
    BY <1>3, <1>7
  <2>4. QED BY <1>4, <2>1, <2>2, <2>3 DEF TypeOK
<1>8. QED BY <1>5, <1>6, <1>7

LEMMA DetachedType ==
  ASSUME NEW S, TypeOK PROVE Detached(S) \in [Tasks -> Task \union {NoTask}]
<1> DEFINE d(k) == IF task[k].record = "held" THEN "detached" ELSE task[k].record
           e(k) == [task[k] EXCEPT !.record = d(k), !.removed = "yes"]
<1>1. ASSUME NEW k \in Tasks, Alive(k) PROVE e(k) \in Task
  <2>1. task[k] \in Task
    BY <1>1 DEF Alive, TypeOK
  <2>2. d(k) \in {"none", "held", "detached"}
    BY <2>1 DEF Task
  <2> HIDE DEF d
  <2>3. QED BY <2>1, <2>2, TaskFields
<1>2. Detached(S) = [k \in Tasks |-> IF Alive(k) /\ task[k].id \in S /\ task[k].pc # "done"
                                      THEN e(k) ELSE task[k]]
  BY DEF Detached
<1> HIDE DEF e
<1>3. QED BY <1>1, <1>2 DEF TypeOK

LEMMA CancelledType ==
  ASSUME NEW S, NEW tasks \in [Tasks -> Task \union {NoTask}]
  PROVE  Cancelled(S, tasks) \in [Tasks -> Task \union {NoTask}]
  BY TaskFields DEF Cancelled

LEMMA EndedType ==
  ASSUME TypeOK, NEW k \in Tasks, Alive(k)
  PROVE  Ended(k) \in [Tasks -> Task \union {NoTask}]
<1>1. [task[k] EXCEPT !.pc = "done", !.record = "none", !.cancelled = "no", !.removed = "no"] \in Task
  BY TaskFields DEF Alive, TypeOK
<1>2. QED BY <1>1 DEF Ended, TypeOK

LEMMA AskType ==
  ASSUME TypeOK, NEW k \in Tasks, NEW t \in Task,
         t.record = "held" => records[t.id] # NoRecord, Ask(k, t, records, task)
  PROVE  /\ records' \in [Ids -> Record \union {NoRecord}]
         /\ requested' \in Nat
         /\ task' \in [Tasks -> Task \union {NoTask}]
<1>0. t.id \in Ids
  BY DEF Task
<1>1. t.id \in Ids /\ [t EXCEPT !.pc = "request"] \in Task
  BY <1>0, TaskFields
<1>2. t.record = "held" => Asked(records[t.id]) \in Record
  BY <1>1, AskedType DEF TypeOK
<1>3. task' \in [Tasks -> Task \union {NoTask}] /\ requested' \in Nat
  BY <1>1 DEF Ask, TypeOK
<1>4. CASE t.record = "held"
  <2>1. records' = [records EXCEPT ![t.id] = Asked(records[t.id])]
    BY <1>4 DEF Ask
  <2>2. QED BY <1>1, <1>2, <1>3, <1>4, <2>1 DEF TypeOK
<1>5. CASE t.record # "held"
  BY <1>3, <1>5 DEF Ask, TypeOK
<1>6. QED BY <1>4, <1>5

\* What async_add leaves of the records and the tasks before it starts one.
LEMMA AgainType ==
  ASSUME TypeOK, NEW id \in Ids, records[id] # NoRecord, NEW n \in {0, 1},
         NEW recs, recs = [records EXCEPT ![id].transmissions =
                             IF @ < MinTransmissions THEN @ + n ELSE @]
  PROVE  /\ recs \in [Ids -> Record \union {NoRecord}] /\ recs[id] # NoRecord
         /\ recs[id].status = records[id].status /\ recs[id].due = records[id].due
         /\ recs[id].attempts = records[id].attempts
         /\ recs[id].transmissions >= records[id].transmissions
         /\ recs[id].transmissions \in Nat /\ records[id].transmissions \in Nat
         /\ \A i \in Ids : i # id => recs[i] = records[i]
<1> DEFINE m == IF records[id].transmissions < MinTransmissions THEN records[id].transmissions + n
                                                                ELSE records[id].transmissions
<1>1. records[id] \in Record
  BY DEF TypeOK
<1>2. m \in 1..MinTransmissions /\ m >= records[id].transmissions
  BY <1>1, ClassifierAssumption DEF Record
<1>3. recs = [records EXCEPT ![id] = [records[id] EXCEPT !.transmissions = m]]
  OBVIOUS
<1> HIDE DEF m
<1>4. [records[id] EXCEPT !.transmissions = m] \in Record
  BY <1>1, <1>2 DEF Record
<1>5. recs[id] = [records[id] EXCEPT !.transmissions = m]
  BY <1>3 DEF TypeOK
<1>6. /\ recs[id].status = records[id].status /\ recs[id].due = records[id].due
      /\ recs[id].attempts = records[id].attempts /\ recs[id].transmissions = m
  BY <1>1, <1>5 DEF Record
<1>8. m \in Nat /\ records[id].transmissions \in Nat
  BY <1>1, <1>2, ClassifierAssumption DEF Record
<1>7. recs \in [Ids -> Record \union {NoRecord}] /\ recs[id] # NoRecord
  BY <1>3, <1>4, <1>5, RecordAssumption DEF TypeOK
<1>9. QED BY <1>2, <1>3, <1>6, <1>7, <1>8 DEF TypeOK

LEMMA StartIfDueType ==
  ASSUME TypeOK, NEW id \in Ids, NEW recs \in [Ids -> Record \union {NoRecord}],
         NEW tasks \in [Tasks -> Task \union {NoTask}], recs[id] # NoRecord,
         StartIfDue(id, recs, tasks)
  PROVE  /\ records' \in [Ids -> Record \union {NoRecord}]
         /\ requested' \in Nat
         /\ task' \in [Tasks -> Task \union {NoTask}]
         /\ registered' \in [Ids -> Tasks \union {NoTask}]
         /\ holder' \in Tasks \union {NoTask} /\ waiters' \in Seq(Tasks)
<1>1. CASE ShouldClassify(id, recs[id])
  BY <1>1, StartType DEF StartIfDue
<1>2. CASE ~ShouldClassify(id, recs[id])
  BY <1>2 DEF StartIfDue, TypeOK
<1>3. QED BY <1>1, <1>2

LEMMA TypeInit == Init => TypeOK
<1>1. <<>> \in Seq(Ids) /\ Len(<<>>) = 0 /\ <<>> \in Seq(Tasks)
  BY EmptySeq
<1>2. QED BY <1>1, ClassifierAssumption DEF Init, TypeOK

LEMMA KnownType ==
  ASSUME TypeOK, NEW id \in Ids, AddDecoded(id)
  PROVE  known' \in Seq(Ids) /\ Len(known') <= MaxKnown
<1> DEFINE appended == Append(known, id)
           from == IF Len(appended) > MaxKnown THEN Len(appended) - MaxKnown + 1 ELSE 1
<1>1. appended \in Seq(Ids) /\ Len(appended) = Len(known) + 1 /\ Len(known) \in Nat
  BY AppendProperties, LenProperties DEF TypeOK
<1>2. known' = SubSeq(appended, from, Len(appended))
  BY DEF AddDecoded, Newest
<1> HIDE DEF appended
<1>3. \A i \in 1..Len(appended) : appended[i] \in Ids
  BY <1>1, ElementOfSeq
<1>4. from \in Int /\ Len(appended) \in Int /\ \A i \in from..Len(appended) : appended[i] \in Ids
  BY <1>1, <1>3, ClassifierAssumption
<1>5. /\ SubSeq(appended, from, Len(appended)) \in Seq(Ids)
      /\ Len(SubSeq(appended, from, Len(appended))) =
           IF from <= Len(appended) THEN Len(appended) - from + 1 ELSE 0
  BY <1>4, SubSeqProperties
<1>6. Len(known) <= MaxKnown /\ MaxKnown \in Nat
  BY ClassifierAssumption DEF TypeOK
<1>7. QED BY <1>1, <1>2, <1>5, <1>6

LEMMA RecordEdits ==
  ASSUME NEW r \in Record, NEW s \in {"collecting", "classified", "failed"}
  PROVE  /\ [r EXCEPT !.status = s] \in Record
         /\ [r EXCEPT !.status = s, !.result = "some"] \in Record
         /\ [r EXCEPT !.due = "yes"] \in Record
  BY DEF Record

LEMMA TypeNext == IInv /\ [Next]_vars => TypeOK'
<1> SUFFICES ASSUME IInv, [Next]_vars PROVE TypeOK'
  OBVIOUS
<1>0. TypeOK /\ Holding(records, task)
  BY DEF IInv, Good
<1>1. ASSUME NEW i \in Ids, AddAgain(i) PROVE TypeOK'
  <2>1. PICK n \in {0, 1} :
          StartIfDue(i, [records EXCEPT ![i].transmissions =
                           IF @ < MinTransmissions THEN @ + n ELSE @], task)
    BY <1>1 DEF AddAgain
  <2> DEFINE recs == [records EXCEPT ![i].transmissions =
                        IF @ < MinTransmissions THEN @ + n ELSE @]
  <2>2. recs \in [Ids -> Record \union {NoRecord}] /\ recs[i] # NoRecord
    <3>1. records[i] # NoRecord
      BY <1>1 DEF AddAgain
    <3>2. QED BY <1>0, <3>1, AgainType
  <2> HIDE DEF recs
  <2>3. StartIfDue(i, recs, task)
    BY <2>1 DEF recs
  <2>4. task \in [Tasks -> Task \union {NoTask}]
    BY <1>0 DEF TypeOK
  <2>5. QED BY <1>0, <1>1, <2>2, <2>3, <2>4, StartIfDueType DEF AddAgain, TypeOK
<1>2. ASSUME NEW i \in Ids, AddNew(i) PROVE TypeOK'
  <2>1. PICK S \in SUBSET Pending :
          StartIfDue(i, [j \in Ids |-> IF j = i THEN NewRecord
                                       ELSE IF j \in S THEN NoRecord ELSE records[j]], Detached(S))
    BY <1>2 DEF AddNew
  <2> DEFINE recs == [j \in Ids |-> IF j = i THEN NewRecord
                                    ELSE IF j \in S THEN NoRecord ELSE records[j]]
  <2>2. recs \in [Ids -> Record \union {NoRecord}] /\ recs[i] # NoRecord
    BY <1>0, NewRecordType, RecordAssumption DEF TypeOK
  <2> HIDE DEF recs
  <2>3. StartIfDue(i, recs, Detached(S))
    BY <2>1 DEF recs
  <2>4. Detached(S) \in [Tasks -> Task \union {NoTask}]
    BY <1>0, DetachedType
  <2>5. QED BY <1>0, <1>2, <2>2, <2>3, <2>4, StartIfDueType DEF AddNew, TypeOK
<1>3. ASSUME NEW i \in Ids, AddDecoded(i) PROVE TypeOK'
  <2>1. records' \in [Ids -> Record \union {NoRecord}]
    BY <1>0, <1>3 DEF AddDecoded, TypeOK
  <2>2. QED BY <1>0, <1>3, <2>1, KnownType DEF AddDecoded, running, TypeOK
<1>4. ASSUME NEW i \in Ids, Classify(i) PROVE TypeOK'
  <2>1. CASE registered[i] = NoTask
    <3>1. Start(i, "manual", records, task) /\ records[i] # NoRecord
      BY <1>4, <2>1 DEF Classify
    <3>2. /\ records \in [Ids -> Record \union {NoRecord}]
          /\ task \in [Tasks -> Task \union {NoTask}]
      BY <1>0 DEF TypeOK
    <3>3. /\ records' \in [Ids -> Record \union {NoRecord}]
          /\ requested' \in Nat
          /\ task' \in [Tasks -> Task \union {NoTask}]
          /\ registered' \in [Ids -> Tasks \union {NoTask}]
          /\ holder' \in Tasks \union {NoTask} /\ waiters' \in Seq(Tasks)
      BY <1>0, <3>1, <3>2, StartType
    <3>4. QED BY <1>0, <1>4, <3>3 DEF Classify, TypeOK
  <2>2. CASE registered[i] # NoTask
    BY <1>0, <1>4, <2>2 DEF Classify, TypeOK
  <2>3. QED BY <2>1, <2>2
<1>5. ASSUME NEW i \in Ids, RetryDue(i) PROVE TypeOK'
  <2>1. records[i] \in Record
    BY <1>0, <1>5 DEF RetryDue, TypeOK
  <2>2. records' = [records EXCEPT ![i] = [records[i] EXCEPT !.due = "yes"]]
    BY <1>5 DEF RetryDue
  <2>3. [records[i] EXCEPT !.due = "yes"] \in Record
    BY <2>1, RecordEdits
  <2>4. records' \in [Ids -> Record \union {NoRecord}]
    BY <1>0, <2>2, <2>3 DEF TypeOK
  <2>5. QED BY <1>0, <1>5, <2>4 DEF RetryDue, running, TypeOK
<1>6. ASSUME NEW S \in SUBSET Ids, Forget(S) PROVE TypeOK'
  <2>1. task' \in [Tasks -> Task \union {NoTask}]
    BY <1>0, <1>6, DetachedType, CancelledType DEF Forget
  <2>2. QED BY <1>0, <1>6, <2>1 DEF Forget, TypeOK
<1>7. ASSUME NEW k \in Tasks, LockGranted(k) PROVE TypeOK'
  <2>1. task[k] \in Task /\ task[k].id \in Ids
    BY <1>0, <1>7 DEF LockGranted, At, Alive, TypeOK, Task
  <2>2. CASE records[task[k].id] = NoRecord
    <3>1. task' \in [Tasks -> Task \union {NoTask}]
      BY <1>0, <1>7, <2>2, EndedType DEF LockGranted, At
    <3>2. holder' \in Tasks \union {NoTask} /\ waiters' \in Seq(Tasks)
      BY <1>0, <1>7, <2>2, ReleaseType DEF LockGranted
    <3>3. QED BY <1>0, <1>7, <2>2, <3>1, <3>2 DEF LockGranted, TypeOK
  <2>3. CASE records[task[k].id] # NoRecord /\ client = "none"
    <3>1. [task[k] EXCEPT !.pc = "client", !.record = "held"] \in Task
      BY <2>1, TaskFields
    <3>2. QED BY <1>0, <1>7, <2>3, <3>1 DEF LockGranted, Owned, TypeOK
  <2>4. CASE records[task[k].id] # NoRecord /\ client # "none"
    <3> DEFINE h == [task[k] EXCEPT !.record = "held"]
    <3>1. h.id = task[k].id
      BY <2>1 DEF Task
    <3>2. h \in Task
      BY <2>1, TaskFields
    <3>3. Ask(k, h, records, task)
      BY <1>7, <2>4 DEF LockGranted, Owned
    <3> HIDE DEF h
    <3>4. QED BY <1>0, <1>7, <2>4, <3>1, <3>2, <3>3, AskType DEF LockGranted, TypeOK
  <2>5. QED BY <2>2, <2>3, <2>4
<1>8. ASSUME NEW k \in Tasks, ClientCreated(k) PROVE TypeOK'
  <2>1. task[k] \in Task /\ task[k].id \in Ids
    BY <1>0, <1>8 DEF ClientCreated, At, Alive, TypeOK, Task
  <2>2. task[k].record = "held" => records[task[k].id] # NoRecord
    BY <1>0, <1>8 DEF ClientCreated, At, Alive, Holding
  <2>3. QED BY <1>0, <1>8, <2>1, <2>2, AskType DEF ClientCreated, TypeOK
<1>9. ASSUME NEW k \in Tasks, Answered(k) \/ Fails(k) \/ CancelEnds(k) PROVE TypeOK'
  <2>1. Alive(k) /\ task[k] \in Task /\ task[k].id \in Ids /\ task' = Ended(k)
    BY <1>0, <1>9 DEF Answered, Fails, CancelEnds, At, Alive, TypeOK, Task
  <2>2. task' \in [Tasks -> Task \union {NoTask}]
    BY <1>0, <2>1, EndedType
  <2>3. holder' \in Tasks \union {NoTask} /\ waiters' \in Seq(Tasks)
    <3>1. CASE Release
      BY <1>0, <3>1, ReleaseType
    <3>2. CASE ~Release
      <4>1. PICK i \in 1..Len(waiters) : waiters' = RemoveAt(waiters, i) /\ holder' = holder
        BY <1>9, <3>2 DEF Answered, Fails, CancelEnds
      <4>2. QED BY <1>0, <4>1, RemoveAtProperties DEF TypeOK
    <3>3. QED BY <3>1, <3>2
  <2>4. records' \in [Ids -> Record \union {NoRecord}]
    <3> DEFINE r == records[task[k].id]
    <3>1. CASE HasRecord(k) /\ records' # records
      <4>1. r \in Record
        BY <1>0, <2>1, <3>1 DEF HasRecord, Holding, Alive, TypeOK
      <4>2. \E new \in Record : records' = [records EXCEPT ![task[k].id] = new]
        <5>1. CASE Answered(k)
          <6>1. records' = [records EXCEPT ![task[k].id] =
                              [r EXCEPT !.status = "classified", !.result = "some"]]
            BY <5>1, <3>1, <2>1, <1>0 DEF Answered, TypeOK
          <6>2. QED BY <4>1, <6>1, RecordEdits
        <5>2. CASE Fails(k)
          BY <5>2, <3>1, <4>1, RecordEdits DEF Fails
        <5>3. CASE CancelEnds(k)
          BY <5>3, <3>1, <4>1, RecordEdits DEF CancelEnds, StatusReset
        <5>4. QED BY <1>9, <5>1, <5>2, <5>3
      <4>3. QED BY <1>0, <4>2 DEF TypeOK
    <3>2. CASE ~HasRecord(k) \/ records' = records
      BY <1>0, <1>9, <3>2 DEF Answered, Fails, CancelEnds, TypeOK
    <3>3. QED BY <3>1, <3>2
  <2>5. UNCHANGED <<entry, known, requested, client, registered>> /\ auth' \in {auth, "failed"}
    BY <1>9 DEF Answered, Fails, CancelEnds
  <2>6. QED BY <1>0, <2>2, <2>3, <2>4, <2>5 DEF TypeOK
<1>10. ASSUME NEW k \in Tasks, Done(k) PROVE TypeOK'
  BY <1>0, <1>10 DEF Done, data, TypeOK
<1>11. CASE RequestExpires \/ EndUnload
  BY <1>0, <1>11 DEF RequestExpires, EndUnload, data, running, TypeOK
<1>12. CASE Unload
  BY <1>0, <1>12, CancelledType DEF Unload, data, TypeOK
<1>13. CASE Crash
  <2>1. <<>> \in Seq(Tasks)
    BY EmptySeq
  <2>2. QED BY <1>0, <1>13, <2>1 DEF Crash, data, TypeOK
<1>14. CASE Load
  <2>1. \A i \in Ids : Loaded(records[i]) \in Record \union {NoRecord}
    BY <1>0, RecordEdits DEF Loaded, TypeOK
  <2>2. QED BY <1>0, <1>14, <2>1 DEF Load, TypeOK
<1>15. CASE UNCHANGED vars
  BY <1>0, <1>15 DEF vars, data, running, TypeOK
<1>16. QED
  BY <1>1, <1>2, <1>3, <1>4, <1>5, <1>6, <1>7, <1>8, <1>9, <1>10, <1>11, <1>12, <1>13, <1>14, <1>15
     DEF Next, TaskStep

-----------------------------------------------------------------------------
(* A task starts.                                                           *)

\* The three ways to start: with the lock, with or without a client, and behind the lock.
Began(k, t, recs, tasks) ==
  /\ task' = [tasks EXCEPT ![k] = t] /\ t.cancelled = "no"
  /\ \/ /\ holder = NoTask /\ holder' = k /\ waiters' = waiters
        /\ t.pc = "client" /\ t.record = "held" /\ records' = recs
     \/ /\ holder = NoTask /\ holder' = k /\ waiters' = waiters
        /\ t.pc = "request" /\ t.record = "held"
        /\ records' = [recs EXCEPT ![t.id] = Asked(recs[t.id])]
     \/ /\ holder' = holder /\ waiters' = Append(waiters, k)
        /\ t.pc = "lock" /\ t.record = "none" /\ records' = recs

LEMMA StartBegins ==
  ASSUME NEW id \in Ids, NEW origin \in {"auto", "manual"}, NEW recs,
         NEW tasks \in [Tasks -> Task \union {NoTask}], Start(id, origin, recs, tasks)
  PROVE  \E k \in Tasks, t \in Task :
           /\ task[k] = NoTask /\ registered' = [registered EXCEPT ![id] = k]
           /\ t.id = id /\ t.origin = origin /\ Began(k, t, recs, tasks)
<1> DEFINE n == NewTask(id, origin)
           c == [n EXCEPT !.pc = "client", !.record = "held"]
           h == [n EXCEPT !.record = "held"]
           r == [h EXCEPT !.pc = "request"]
<1>1. PICK k \in Tasks :
        /\ ~Alive(k) /\ registered' = [registered EXCEPT ![id] = k]
        /\ IF LockFree
             THEN holder' = k /\ UNCHANGED waiters /\ Owned(k, n, recs, tasks)
             ELSE /\ waiters' = Append(waiters, k) /\ UNCHANGED holder
                  /\ task' = [tasks EXCEPT ![k] = n]
                  /\ records' = recs /\ UNCHANGED requested
  BY DEF Start
<1>2. n \in Task /\ c \in Task /\ h \in Task
  BY NewTaskType, TaskFields
<1>3. r \in Task
  BY <1>2, TaskFields
<1>4. /\ n.id = id /\ n.origin = origin /\ n.cancelled = "no" /\ n.pc = "lock" /\ n.record = "none"
      /\ c.id = id /\ c.origin = origin /\ c.cancelled = "no" /\ c.pc = "client" /\ c.record = "held"
      /\ h.id = id /\ h.record = "held"
      /\ r.id = id /\ r.origin = origin /\ r.cancelled = "no" /\ r.pc = "request" /\ r.record = "held"
  BY DEF NewTask
<1>5. LockFree /\ client = "none" => task' = [tasks EXCEPT ![k] = c] /\ records' = recs
  BY <1>1 DEF Owned
<1>6. LockFree /\ client # "none" =>
        /\ task' = [tasks EXCEPT ![k] = r]
        /\ records' = [recs EXCEPT ![h.id] = Asked(recs[h.id])]
  BY <1>1, <1>4 DEF Owned, Ask
<1>7. task[k] = NoTask
  BY <1>1 DEF Alive
<1> HIDE DEF n, c, h, r
<1>8. CASE LockFree /\ client = "none"
  <2>1. Began(k, c, recs, tasks)
    BY <1>1, <1>4, <1>5, <1>8 DEF Began, LockFree
  <2>2. QED BY <1>1, <1>2, <1>4, <1>7, <2>1
<1>9. CASE LockFree /\ client # "none"
  <2>1. Began(k, r, recs, tasks)
    BY <1>1, <1>4, <1>6, <1>9 DEF Began, LockFree
  <2>2. QED BY <1>1, <1>3, <1>4, <1>7, <2>1
<1>10. CASE ~LockFree
  <2>1. Began(k, n, recs, tasks)
    BY <1>1, <1>4, <1>10 DEF Began
  <2>2. QED BY <1>1, <1>2, <1>4, <1>7, <2>1
<1>11. QED BY <1>8, <1>9, <1>10

Due(r) == Sendable(r) /\ r.transmissions >= MinTransmissions

\* A task that starts for a type without one keeps the invariant.
LEMMA BeginsGood ==
  ASSUME NEW recs \in [Ids -> Record \union {NoRecord}],
         NEW tasks \in [Tasks -> Task \union {NoTask}],
         waiters \in Seq(Tasks), holder \in Tasks \union {NoTask}, registered \in [Ids -> Tasks \union {NoTask}],
         NEW k \in Tasks, NEW t \in Task,
         Good(recs, tasks), entry = "loaded", entry' = entry,
         tasks[k] = NoTask, registered[t.id] = NoTask,
         registered' = [registered EXCEPT ![t.id] = k],
         recs[t.id] # NoRecord, t.origin = "auto" => Due(recs[t.id]),
         Began(k, t, recs, tasks)
  PROVE  Good(records, task)'
<1>0. /\ Registering(tasks) /\ Locking(tasks) /\ Holding(recs, tasks) /\ Asking(recs, tasks)
      /\ Waiting(recs, tasks)
      /\ t.id \in Ids /\ task'[k] = t /\ t # NoTask /\ k # NoTask
      /\ \A j \in Tasks : j # k => task'[j] = tasks[j]
      /\ registered'[t.id] = k /\ \A i \in Ids : i # t.id => registered'[i] = registered[i]
  BY TaskAssumption, ClassifierAssumption DEF Good, Began, Task
<1>1. \A j \in Tasks : tasks[j] # NoTask => /\ j # k /\ j # NoTask
                                            /\ tasks[j].id \in Ids /\ tasks[j].id # t.id
  BY <1>0, ClassifierAssumption DEF Registering, Task
<1>2. \A i \in Ids : registered[i] # NoTask => registered[i] \in Tasks
  OBVIOUS
<1>3. holder # NoTask => holder \in Tasks
  OBVIOUS
<1>4. \A i \in Ids : i # t.id => records'[i] = recs[i]
  BY DEF Began
<1>5. /\ records'[t.id] # NoRecord
      /\ t.pc = "request" => t.record = "held" /\ records'[t.id].status = "classifying"
      /\ t.pc # "request" => records'[t.id] = recs[t.id]
  BY <1>0, AskedType, RecordAssumption DEF Began
<1>6. Registering(task)'
  <2>1. \A j \in Tasks : task'[j] # NoTask => registered'[task'[j].id] = j
    BY <1>0, <1>1 DEF Registering
  <2>2. ASSUME NEW i \in Ids, registered'[i] # NoTask
        PROVE  task'[registered'[i]] # NoTask /\ task'[registered'[i]].id = i
    <3>1. CASE i = t.id
      BY <1>0, <3>1
    <3>2. CASE i # t.id
      BY <1>0, <1>1, <1>2, <2>2, <3>2 DEF Registering
    <3>3. QED BY <3>1, <3>2
  <2>3. QED BY <2>1, <2>2 DEF Registering
<1>7. Locking(task)'
  <2>1. CASE waiters' = waiters /\ holder' = k /\ holder = NoTask /\ t.pc # "done"
    <3>1. \A n \in 1..Len(waiters) : waiters[n] \in Tasks
      BY ElementOfSeq
    <3>2. \A j \in Tasks : task'[j] # NoTask /\ task'[j].pc \in {"client", "request"} => holder' = j
      BY <1>0, <1>1, <2>1 DEF Locking
    <3>3. \A n \in 1..Len(waiters) :
            /\ task'[waiters[n]] # NoTask /\ task'[waiters[n]].pc = "lock" /\ waiters[n] # k
            /\ \A m \in 1..Len(waiters) : waiters[m] = waiters[n] => m = n
      BY <1>0, <1>1, <3>1 DEF Locking
    <3>4. QED BY <1>0, <2>1, <3>2, <3>3 DEF Locking
  <2>2. CASE waiters' = Append(waiters, k) /\ holder' = holder /\ t.pc = "lock"
    <3>1. /\ Len(waiters') = Len(waiters) + 1 /\ Len(waiters) \in Nat
          /\ waiters'[Len(waiters) + 1] = k
          /\ \A n \in 1..Len(waiters) : waiters'[n] = waiters[n] /\ waiters[n] \in Tasks
      BY <2>2, AppendProperties, LenProperties, ElementOfSeq
    <3>2. \A n \in 1..Len(waiters) : waiters[n] # k
      BY <1>0 DEF Locking
    <3>3. holder # k
      BY <1>0 DEF Locking
    <3>4. ASSUME NEW n \in 1..Len(waiters')
          PROVE  /\ task'[waiters'[n]] # NoTask /\ task'[waiters'[n]].pc = "lock"
                 /\ waiters'[n] # holder'
                 /\ \A m \in 1..Len(waiters') : waiters'[m] = waiters'[n] => m = n
      BY <1>0, <2>2, <3>1, <3>2, <3>3 DEF Locking
    <3>5. \A j \in Tasks : task'[j] # NoTask /\ task'[j].pc \in {"client", "request"} => holder' = j
      BY <1>0, <1>1, <2>2 DEF Locking
    <3>6. holder' # NoTask => task'[holder'] # NoTask /\ task'[holder'].pc # "done"
      BY <1>0, <1>1, <1>3, <2>2, <3>3 DEF Locking
    <3>7. QED BY <3>4, <3>5, <3>6 DEF Locking
  <2>3. QED BY <2>1, <2>2 DEF Began
<1>8. Holding(records, task)'
  <2>1. ASSUME NEW j \in Tasks, task'[j] # NoTask, task'[j].record = "held"
        PROVE  /\ task'[j].pc \in {"client", "request"} /\ records'[task'[j].id] # NoRecord
               /\ task'[j].pc = "request" => records'[task'[j].id].status = "classifying"
    <3>1. CASE j = k
      BY <1>0, <1>5, <2>1, <3>1 DEF Began
    <3>2. CASE j # k
      BY <1>0, <1>4, <1>1, <2>1, <3>2 DEF Holding
    <3>3. QED BY <3>1, <3>2
  <2>2. QED BY <2>1 DEF Holding
<1>9. Asking(records, task)'
  BY <1>0, <1>4, <1>5, <1>1, <1>2 DEF Asking, Began, Registering
<1>10. Waiting(records, task)'
  <2>1. ASSUME NEW j \in Tasks, task'[j] # NoTask, task'[j].pc \in {"lock", "client"}
        PROVE  /\ records'[task'[j].id] = NoRecord => task'[j].removed = "yes"
               /\ records'[task'[j].id] # NoRecord /\ task'[j].origin = "auto" =>
                    /\ Sendable(records'[task'[j].id])
                    /\ Enough(records'[task'[j].id], task'[j].removed)
    <3>1. CASE j = k
      BY <1>0, <1>5, <2>1, <3>1 DEF Due, Enough
    <3>2. CASE j # k
      BY <1>0, <1>4, <1>1, <2>1, <3>2 DEF Waiting
    <3>3. QED BY <3>1, <3>2
  <2>2. QED BY <2>1 DEF Waiting, Sendable, Enough
<1>11. Ending(task)'
  BY DEF Ending
<1>12. QED BY <1>6, <1>7, <1>8, <1>9, <1>10, <1>11 DEF Good

\* What the guards of _should_classify say of the record.
LEMMA DueIsSendable ==
  ASSUME NEW id, NEW r, ShouldClassify(id, r) PROVE registered[id] = NoTask /\ Due(r)
  BY DEF ShouldClassify, Sendable, Due

LEMMA StartGood ==
  ASSUME TypeOK, NEW id \in Ids, NEW origin \in {"auto", "manual"},
         NEW recs \in [Ids -> Record \union {NoRecord}],
         NEW tasks \in [Tasks -> Task \union {NoTask}],
         Good(recs, tasks), \A k \in Tasks : task[k] = NoTask => tasks[k] = NoTask,
         entry = "loaded", entry' = entry, registered[id] = NoTask, recs[id] # NoRecord,
         origin = "auto" => Due(recs[id]), Start(id, origin, recs, tasks)
  PROVE  Good(records, task)'
<1>1. PICK k \in Tasks, t \in Task :
        /\ task[k] = NoTask /\ registered' = [registered EXCEPT ![id] = k]
        /\ t.id = id /\ t.origin = origin /\ Began(k, t, recs, tasks)
  BY StartBegins
<1>2. waiters \in Seq(Tasks) /\ holder \in Tasks \union {NoTask}
      /\ registered \in [Ids -> Tasks \union {NoTask}]
  BY DEF TypeOK
<1>3. QED BY <1>1, <1>2, BeginsGood

LEMMA StartIfDueGood ==
  ASSUME TypeOK, NEW id \in Ids,
         NEW recs \in [Ids -> Record \union {NoRecord}],
         NEW tasks \in [Tasks -> Task \union {NoTask}],
         Good(recs, tasks), \A k \in Tasks : task[k] = NoTask => tasks[k] = NoTask,
         entry = "loaded", entry' = entry, recs[id] # NoRecord,
         StartIfDue(id, recs, tasks)
  PROVE  Good(records, task)'
<1>1. CASE ShouldClassify(id, recs[id])
  BY <1>1, StartGood, DueIsSendable DEF StartIfDue
<1>2. CASE ~ShouldClassify(id, recs[id])
  <2>1. /\ records' = recs /\ task' = tasks
        /\ UNCHANGED <<entry, registered, holder, waiters>>
    BY <1>2 DEF StartIfDue
  <2>2. QED
    BY <2>1 DEF Good, Registering, Locking, Holding, Asking, Waiting, Ending, Sendable, Enough
<1>3. QED BY <1>1, <1>2

\* Another transmission leaves what waits as due as it was.
LEMMA AgainGood ==
  ASSUME IInv, NEW id \in Ids, records[id] # NoRecord, NEW n \in {0, 1},
         NEW recs, recs = [records EXCEPT ![id].transmissions =
                             IF @ < MinTransmissions THEN @ + n ELSE @]
  PROVE  Good(recs, task)
<1>1. \A i \in Ids :
        /\ recs[i] = NoRecord <=> records[i] = NoRecord
        /\ records[i] # NoRecord => /\ recs[i].status = records[i].status
                                    /\ recs[i].due = records[i].due
                                    /\ recs[i].attempts = records[i].attempts
                                    /\ records[i].transmissions >= MinTransmissions =>
                                         recs[i].transmissions >= MinTransmissions
  BY AgainType, ClassifierAssumption DEF IInv
<1>2. \A k \in Tasks : task[k] # NoTask => task[k].id \in Ids
  BY DEF IInv, TypeOK, Task
<1>3. QED
  BY <1>1, <1>2 DEF IInv, Good, Holding, Asking, Waiting, Sendable, Enough

\* A removed record leaves its task a detached one.
LEMMA DetachedFields ==
  ASSUME TypeOK, NEW S, NEW k \in Tasks
  PROVE  /\ Detached(S)[k] = NoTask <=> task[k] = NoTask
         /\ task[k] # NoTask =>
              /\ Detached(S)[k].id = task[k].id /\ Detached(S)[k].pc = task[k].pc
              /\ Detached(S)[k].origin = task[k].origin
              /\ Detached(S)[k].cancelled = task[k].cancelled
              /\ task[k].id \notin S \/ task[k].pc = "done" => Detached(S)[k] = task[k]
              /\ task[k].id \in S /\ task[k].pc # "done" =>
                   /\ Detached(S)[k].record = IF task[k].record = "held" THEN "detached"
                                                                         ELSE task[k].record
                   /\ Detached(S)[k].removed = "yes"
<1>1. CASE Alive(k) /\ task[k].id \in S /\ task[k].pc # "done"
  <2> DEFINE d == IF task[k].record = "held" THEN "detached" ELSE task[k].record
             e == [task[k] EXCEPT !.record = d, !.removed = "yes"]
  <2>1. Detached(S)[k] = e
    BY <1>1 DEF Detached
  <2>2. task[k] \in Task
    BY <1>1 DEF Alive, TypeOK
  <2>3. d \in {"none", "held", "detached"}
    BY <2>2 DEF Task
  <2> HIDE DEF d
  <2>4. e # NoTask
    <3>1. e \in Task
      BY <2>2, <2>3, TaskFields
    <3> HIDE DEF e
    <3> QED BY <3>1, TaskAssumption
  <2>5. /\ e.id = task[k].id /\ e.pc = task[k].pc /\ e.origin = task[k].origin
        /\ e.cancelled = task[k].cancelled /\ e.record = d /\ e.removed = "yes"
    BY <2>2 DEF Task
  <2> HIDE DEF e
  <2>6. QED BY <1>1, <2>1, <2>4, <2>5 DEF Alive, d
<1>2. CASE ~(Alive(k) /\ task[k].id \in S /\ task[k].pc # "done")
  BY <1>2 DEF Detached, Alive
<1>3. QED BY <1>1, <1>2

\* Removing records, and adding one that is collecting.
LEMMA DetachedGood ==
  ASSUME IInv, NEW S, NEW recs,
         \A i \in Ids : i \in S => recs[i] = NoRecord \/ recs[i] = NewRecord,
         \A i \in Ids : i \notin S =>
           recs[i] = records[i] \/ (records[i] = NoRecord /\ recs[i] = NewRecord)
  PROVE  Good(recs, Detached(S))
<1>0. /\ Registering(task) /\ Locking(task) /\ Holding(records, task) /\ Asking(records, task)
      /\ Waiting(records, task) /\ Ending(task) /\ TypeOK
  BY DEF IInv, Good
<1>1. /\ registered \in [Ids -> Tasks \union {NoTask}]
      /\ \A k \in Tasks : task[k] # NoTask => task[k].id \in Ids
      /\ holder \in Tasks \union {NoTask} /\ \A n \in 1..Len(waiters) : waiters[n] \in Tasks
  BY <1>0, ElementOfSeq DEF TypeOK, Task
<1>2. NewRecord.status = "collecting" /\ Sendable(NewRecord)
  BY DEF NewRecord, Sendable
<1>3. Registering(Detached(S))
  BY <1>0, <1>1, DetachedFields DEF Registering
<1>4. Locking(Detached(S))
  BY <1>0, <1>1, DetachedFields DEF Locking
<1>5. Holding(recs, Detached(S))
  BY <1>0, <1>1, <1>2, DetachedFields DEF Holding
<1>6. Asking(recs, Detached(S))
  BY <1>0, <1>1, <1>2, DetachedFields DEF Asking, Registering
<1>7. Waiting(recs, Detached(S))
  <2>1. ASSUME NEW k \in Tasks, Detached(S)[k] # NoTask, Detached(S)[k].pc \in {"lock", "client"},
               NEW r, r = recs[task[k].id]
        PROVE  /\ r = NoRecord => Detached(S)[k].removed = "yes"
               /\ r # NoRecord /\ task[k].origin = "auto" =>
                    Sendable(r) /\ Enough(r, Detached(S)[k].removed)
    <3>1. task[k] # NoTask /\ task[k].pc \in {"lock", "client"} /\ task[k].id \in Ids
      BY <1>0, <1>1, <2>1, DetachedFields
    <3>2. CASE task[k].id \in S
      <4>1. Detached(S)[k].removed = "yes"
        BY <1>0, <3>1, <3>2, DetachedFields
      <4>2. QED BY <1>2, <2>1, <3>1, <3>2, <4>1 DEF Enough
    <3>3. CASE task[k].id \notin S
      <4>1. Detached(S)[k] = task[k]
        BY <1>0, <3>1, <3>3, DetachedFields
      <4>2. CASE r = records[task[k].id]
        BY <1>0, <3>1, <4>1, <4>2 DEF Waiting
      <4>3. CASE records[task[k].id] = NoRecord /\ r = NewRecord
        BY <1>0, <1>2, <3>1, <4>1, <4>3, NewRecordType, RecordAssumption DEF Waiting, Enough
      <4>4. QED BY <2>1, <3>1, <3>3, <4>2, <4>3
    <3>4. QED BY <3>2, <3>3
  <2>2. \A k \in Tasks : Detached(S)[k] # NoTask =>
          Detached(S)[k].id = task[k].id /\ Detached(S)[k].origin = task[k].origin
    BY <1>0, DetachedFields
  <2>3. QED BY <2>1, <2>2 DEF Waiting
<1>8. Ending(Detached(S))
  BY <1>0, DetachedFields DEF Ending
<1>9. QED BY <1>3, <1>4, <1>5, <1>6, <1>7, <1>8 DEF Good

-----------------------------------------------------------------------------
(* A task goes on or ends.                                                  *)

\* The types of what the steps below look up.
LEMMA Lookups ==
  ASSUME TypeOK
  PROVE  /\ registered \in [Ids -> Tasks \union {NoTask}] /\ NoTask \notin Tasks
         /\ \A k \in Tasks : task[k] # NoTask => task[k] \in Task /\ task[k].id \in Ids
         /\ holder \in Tasks \union {NoTask}
         /\ waiters \in Seq(Tasks) /\ \A n \in 1..Len(waiters) : waiters[n] \in Tasks
  BY ClassifierAssumption, ElementOfSeq DEF TypeOK, Task

LEMMA EndedFields ==
  ASSUME TypeOK, NEW k \in Tasks, Alive(k)
  PROVE  /\ \A j \in Tasks : j # k => Ended(k)[j] = task[j]
         /\ Ended(k)[k] # NoTask /\ Ended(k)[k].id = task[k].id /\ Ended(k)[k].pc = "done"
         /\ Ended(k)[k].record = "none"
<1> DEFINE e == [task[k] EXCEPT !.pc = "done", !.record = "none", !.cancelled = "no",
                                !.removed = "no"]
<1>1. task[k] \in Task
  BY DEF Alive, TypeOK
<1>2. e \in Task
  BY <1>1, TaskFields
<1>3. e.id = task[k].id /\ e.pc = "done" /\ e.record = "none"
  BY <1>1 DEF Task
<1>4. Ended(k) = [task EXCEPT ![k] = e]
  BY DEF Ended
<1> HIDE DEF e
<1>5. QED BY <1>2, <1>3, <1>4, TaskAssumption DEF TypeOK

\* The lock goes to the next in line, who waits no longer.
LEMMA ReleaseLocks ==
  ASSUME IInv, NEW k \in Tasks, Alive(k), holder = k, Release, task' = Ended(k)
  PROVE  Locking(task)'
<1>0. Locking(task) /\ TypeOK
  BY DEF IInv, Good
<1>1. CASE waiters = <<>>
  <2>1. holder' = NoTask /\ Len(waiters') = 0
    BY <1>1 DEF Release
  <2>2. \A j \in Tasks : task'[j] # NoTask => task'[j].pc \notin {"client", "request"}
    BY <1>0, EndedFields DEF Locking
  <2>3. QED BY <2>1, <2>2 DEF Locking
<1>2. CASE waiters # <<>>
  <2>1. /\ holder' = Head(waiters) /\ Head(waiters) = waiters[1]
        /\ Len(waiters) \in Nat /\ Len(waiters) >= 1 /\ Len(waiters') = Len(waiters) - 1
        /\ \A n \in 1..Len(waiters') : waiters'[n] = waiters[n + 1]
    <3>1. waiters \in Seq(Tasks) /\ holder' = Head(waiters) /\ waiters' = Tail(waiters)
      BY <1>0, <1>2 DEF Release, TypeOK
    <3>2. Len(waiters) \in Nat /\ Len(waiters) # 0
      BY <1>2, <3>1, EmptySeq, LenProperties
    <3>3. Head(waiters) = waiters[1]
      BY <1>2, <3>1
    <3>4. /\ Len(Tail(waiters)) = Len(waiters) - 1
          /\ \A n \in 1..Len(Tail(waiters)) : Tail(waiters)[n] = waiters[n + 1]
      BY <1>2, <3>1, HeadTailProperties
    <3>5. QED BY <3>1, <3>2, <3>3, <3>4
  <2>2. \A n \in 1..Len(waiters) : /\ waiters[n] \in Tasks /\ task'[waiters[n]] # NoTask
                                   /\ task'[waiters[n]].pc = "lock"
    BY <1>0, Lookups, EndedFields DEF Locking
  <2>3. \A j \in Tasks : task'[j] # NoTask => task'[j].pc \notin {"client", "request"}
    BY <1>0, EndedFields DEF Locking
  <2>4. 1 \in 1..Len(waiters)
    BY <2>1
  <2>5. holder' # NoTask => task'[holder'] # NoTask /\ task'[holder'].pc # "done"
    BY <2>1, <2>2, <2>4
  <2>6. ASSUME NEW n \in 1..Len(waiters')
        PROVE  /\ task'[waiters'[n]] # NoTask /\ task'[waiters'[n]].pc = "lock"
               /\ waiters'[n] # holder'
               /\ \A m \in 1..Len(waiters') : waiters'[m] = waiters'[n] => m = n
    <3>1. n + 1 \in 1..Len(waiters) /\ waiters'[n] = waiters[n + 1] /\ n + 1 # 1
      BY <2>1
    <3>2. waiters[n + 1] # waiters[1]
      BY <1>0, <2>4, <3>1 DEF Locking
    <3>3. ASSUME NEW m \in 1..Len(waiters'), waiters'[m] = waiters'[n] PROVE m = n
      <4>1. m + 1 \in 1..Len(waiters) /\ waiters'[m] = waiters[m + 1]
        BY <2>1
      <4>2. m + 1 = n + 1
        BY <1>0, <3>1, <3>3, <4>1 DEF Locking
      <4>3. QED BY <2>1, <4>2
    <3>4. QED BY <2>1, <2>2, <3>1, <3>2, <3>3
  <2>7. QED BY <2>3, <2>5, <2>6 DEF Locking
<1>3. QED BY <1>1, <1>2

\* A cancelled task leaves the line.
LEMMA LeavingLocks ==
  ASSUME IInv, NEW k \in Tasks, Alive(k), holder # k, task' = Ended(k), holder' = holder,
         NEW i \in 1..Len(waiters), waiters[i] = k, waiters' = RemoveAt(waiters, i)
  PROVE  Locking(task)'
<1>0. Locking(task) /\ TypeOK
  BY DEF IInv, Good
<1>1. /\ Len(waiters) \in Nat /\ Len(waiters') = Len(waiters) - 1
      /\ \A n \in 1..(Len(waiters) - 1) :
           waiters'[n] = IF n < i THEN waiters[n] ELSE waiters[n + 1]
  BY <1>0, RemoveAtProperties, LenProperties DEF TypeOK
<1>2. \A j \in Tasks : task'[j] # NoTask /\ task'[j].pc \in {"client", "request"} => holder' = j
  BY <1>0, EndedFields DEF Locking
<1>3. holder' # NoTask => task'[holder'] # NoTask /\ task'[holder'].pc # "done"
  BY <1>0, Lookups, EndedFields DEF Locking
<1>4. ASSUME NEW n \in 1..Len(waiters')
      PROVE  \E a \in 1..Len(waiters) : /\ waiters'[n] = waiters[a] /\ a # i
                                         /\ a = IF n < i THEN n ELSE n + 1
  <2>1. CASE n < i
    BY <1>1, <2>1
  <2>2. CASE ~(n < i)
    <3>1. n + 1 \in 1..Len(waiters) /\ waiters'[n] = waiters[n + 1] /\ n + 1 # i
      BY <1>1, <2>2
    <3>2. QED BY <3>1, <2>2
  <2>3. QED BY <2>1, <2>2
<1>5. ASSUME NEW n \in 1..Len(waiters')
      PROVE  /\ task'[waiters'[n]] # NoTask /\ task'[waiters'[n]].pc = "lock"
             /\ waiters'[n] # holder'
             /\ \A m \in 1..Len(waiters') : waiters'[m] = waiters'[n] => m = n
  <2>1. PICK a \in 1..Len(waiters) : /\ waiters'[n] = waiters[a] /\ a # i
                                     /\ a = IF n < i THEN n ELSE n + 1
    BY <1>4
  <2>2. waiters[a] # k /\ waiters[a] \in Tasks
    BY <1>0, <2>1, Lookups DEF Locking
  <2>3. ASSUME NEW m \in 1..Len(waiters'), waiters'[m] = waiters'[n] PROVE m = n
    <3>1. PICK b \in 1..Len(waiters) : /\ waiters'[m] = waiters[b] /\ b # i
                                       /\ b = IF m < i THEN m ELSE m + 1
      BY <1>4
    <3>2. b = a
      BY <1>0, <2>1, <2>3, <3>1 DEF Locking
    <3>3. QED BY <1>1, <2>1, <3>1, <3>2
  <2>4. task'[waiters[a]] = task[waiters[a]]
    BY <1>0, <2>2, EndedFields
  <2>5. QED BY <1>0, <2>1, <2>2, <2>3, <2>4 DEF Locking
<1>6. QED BY <1>2, <1>3, <1>5 DEF Locking

\* A task ends: the record it asked about is not classifying any more, and no other one changed.
LEMMA EndGood ==
  ASSUME IInv, NEW k \in Tasks, Alive(k), task' = Ended(k), Locking(task)',
         UNCHANGED <<entry, registered>>,
         \A i \in Ids : i # task[k].id => records'[i] = records[i],
         task[k].pc = "request" /\ HasRecord(k) =>
           records'[task[k].id] # NoRecord /\ records'[task[k].id].status # "classifying",
         ~(task[k].pc = "request" /\ HasRecord(k)) => records'[task[k].id] = records[task[k].id]
  PROVE  Good(records, task)'
<1>0. /\ Registering(task) /\ Holding(records, task) /\ Asking(records, task)
      /\ Waiting(records, task) /\ Ending(task) /\ TypeOK
  BY DEF IInv, Good
<1>1. task[k] # NoTask /\ registered[task[k].id] = k /\ registered' = registered /\ entry' = entry
  BY <1>0 DEF Alive, Registering
<1>2. \A j \in Tasks : j # k => task'[j] = task[j] /\ (task[j] # NoTask => task[j].id # task[k].id)
  BY <1>0, <1>1, EndedFields DEF Registering
<1>3. task'[k] # NoTask /\ task'[k].id = task[k].id /\ task'[k].pc = "done" /\ task'[k].record = "none"
  BY <1>0, EndedFields
<1>4. Registering(task)'
  BY <1>0, <1>1, <1>2, <1>3, Lookups DEF Registering
<1>5. Holding(records, task)'
  BY <1>0, <1>2, <1>3, Lookups DEF Holding
<1>6. Asking(records, task)'
  <2>1. ASSUME entry # "unloaded", NEW i \in Ids, records'[i] # NoRecord,
               records'[i].status = "classifying"
        PROVE  /\ registered[i] # NoTask
               /\ task'[registered[i]].pc = "request" /\ task'[registered[i]].record = "held"
    <3>1. CASE i = task[k].id
      BY <1>0, <1>1, <2>1, <3>1 DEF Asking, HasRecord
    <3>2. CASE i # task[k].id
      BY <1>0, <1>1, <1>2, <2>1, <3>2, Lookups DEF Asking, Registering
    <3>3. QED BY <3>1, <3>2
  <2>2. QED BY <1>1, <2>1 DEF Asking
<1>7. Waiting(records, task)'
  BY <1>0, <1>2, <1>3, Lookups DEF Waiting, Sendable, Enough
<1>8. Ending(task)'
  BY <1>0, <1>1, <1>2, <1>3 DEF Ending
<1>9. QED BY <1>4, <1>5, <1>6, <1>7, <1>8 DEF Good

\* The task with the lock gets on, with the record it has.
LEMMA AdvanceGood ==
  ASSUME IInv, NEW k \in Tasks, Alive(k), holder = k, task[k].pc \in {"lock", "client"},
         task[k].cancelled = "no",
         UNCHANGED <<entry, registered, holder, waiters>>,
         NEW t \in Task, task' = [task EXCEPT ![k] = t], t.id = task[k].id, t.origin = task[k].origin,
         t.removed = task[k].removed,
         \/ /\ t.pc = "client" /\ t.record = "held" /\ records' = records /\ records[t.id] # NoRecord
         \/ /\ t.pc = "request" /\ t.record = "held" /\ records[t.id] # NoRecord
            /\ records' = [records EXCEPT ![t.id] = Asked(records[t.id])]
         \/ /\ t.pc = "request" /\ t.record # "held" /\ records' = records
  PROVE  Good(records, task)'
<1>0. /\ Registering(task) /\ Locking(task) /\ Holding(records, task) /\ Asking(records, task)
      /\ Waiting(records, task) /\ Ending(task) /\ TypeOK
  BY DEF IInv, Good
<1>1. /\ task[k] # NoTask /\ registered[t.id] = k /\ t.id \in Ids
      /\ UNCHANGED registered /\ UNCHANGED entry /\ UNCHANGED holder /\ UNCHANGED waiters
  BY <1>0, Lookups DEF Alive, Registering
<1>2. \A j \in Tasks : j # k => task'[j] = task[j] /\ (task[j] # NoTask => task[j].id # t.id)
  BY <1>0, <1>1 DEF Registering, TypeOK
<1>3. task'[k] = t /\ t # NoTask
  BY <1>0, TaskAssumption DEF TypeOK
<1>4. \A i \in Ids : i # t.id => records'[i] = records[i]
  BY <1>0 DEF TypeOK
<1>5. t.record = "held" /\ t.pc = "request" =>
        records'[t.id] # NoRecord /\ records'[t.id].status = "classifying"
  BY <1>0, <1>1, AskedType, RecordAssumption DEF TypeOK
<1>6. Registering(task)'
  BY <1>0, <1>1, <1>2, <1>3, Lookups DEF Registering
<1>7. Locking(task)'
  BY <1>0, <1>1, <1>2, <1>3, Lookups DEF Locking
<1>8. Holding(records, task)'
  BY <1>0, <1>2, <1>3, <1>4, <1>5, Lookups DEF Holding
<1>9. Asking(records, task)'
  <2>1. ASSUME entry # "unloaded", NEW i \in Ids, records'[i] # NoRecord,
               records'[i].status = "classifying"
        PROVE  /\ registered[i] # NoTask
               /\ task'[registered[i]].pc = "request" /\ task'[registered[i]].record = "held"
    <3>1. CASE i = t.id
      BY <1>0, <1>1, <1>3, <2>1, <3>1, Lookups DEF Asking
    <3>2. CASE i # t.id
      BY <1>0, <1>1, <1>2, <1>4, <2>1, <3>2, Lookups DEF Asking, Registering
    <3>3. QED BY <3>1, <3>2
  <2>2. QED BY <1>1, <2>1 DEF Asking
<1>10. Waiting(records, task)'
  <2>1. ASSUME NEW j \in Tasks, task'[j] # NoTask, task'[j].pc \in {"lock", "client"}
        PROVE  /\ records'[task'[j].id] = NoRecord => task'[j].removed = "yes"
               /\ records'[task'[j].id] # NoRecord /\ task'[j].origin = "auto" =>
                    /\ Sendable(records'[task'[j].id])
                    /\ Enough(records'[task'[j].id], task'[j].removed)
    <3>1. CASE j = k
      BY <1>0, <1>1, <1>3, <2>1, <3>1 DEF Waiting
    <3>2. CASE j # k
      BY <1>0, <1>2, <1>4, <2>1, <3>2, Lookups DEF Waiting
    <3>3. QED BY <3>1, <3>2
  <2>2. QED BY <2>1 DEF Waiting, Sendable, Enough
<1>11. Ending(task)'
  BY <1>0, <1>1, <1>2, <1>3 DEF Ending
<1>12. QED BY <1>6, <1>7, <1>8, <1>9, <1>10, <1>11 DEF Good

-----------------------------------------------------------------------------
(* The steps.                                                               *)

LEMMA GoodInit == Init => Good(records, task)
<1> SUFFICES ASSUME Init PROVE Good(records, task)
  OBVIOUS
<1>1. \A k \in Tasks : task[k] = NoTask
  BY DEF Init
<1>2. /\ \A i \in Ids : registered[i] = NoTask /\ records[i] = NoRecord
      /\ holder = NoTask /\ Len(waiters) = 0
  BY DEF Init
<1>3. QED
  BY <1>1, <1>2 DEF Good, Registering, Locking, Holding, Asking, Waiting, Ending

LEMMA CancelledFields ==
  ASSUME NEW S, NEW tasks \in [Tasks -> Task \union {NoTask}], NEW k \in Tasks
  PROVE  /\ Cancelled(S, tasks)[k] = NoTask <=> tasks[k] = NoTask
         /\ tasks[k] # NoTask =>
              /\ Cancelled(S, tasks)[k].id = tasks[k].id /\ Cancelled(S, tasks)[k].pc = tasks[k].pc
              /\ Cancelled(S, tasks)[k].origin = tasks[k].origin
              /\ Cancelled(S, tasks)[k].record = tasks[k].record
              /\ Cancelled(S, tasks)[k].removed = tasks[k].removed
              /\ tasks[k].cancelled = "yes" => Cancelled(S, tasks)[k].cancelled = "yes"
              /\ tasks[k].pc # "done" /\ (\E i \in S : registered[i] = k) =>
                   Cancelled(S, tasks)[k].cancelled = "yes"
<1>1. CASE tasks[k] # NoTask /\ tasks[k].pc # "done" /\ \E i \in S : registered[i] = k
  <2>1. Cancelled(S, tasks)[k] = [tasks[k] EXCEPT !.cancelled = "yes"]
    BY <1>1 DEF Cancelled
  <2>2. tasks[k] \in Task
    BY <1>1
  <2>3. [tasks[k] EXCEPT !.cancelled = "yes"] # NoTask
    BY <2>2, TaskFields, TaskAssumption
  <2>4. QED BY <1>1, <2>1, <2>2, <2>3 DEF Task
<1>2. CASE ~(tasks[k] # NoTask /\ tasks[k].pc # "done" /\ \E i \in S : registered[i] = k)
  BY <1>2 DEF Cancelled
<1>3. QED BY <1>1, <1>2

\* Cancelling changes what the steps of a task do, not the rest.
LEMMA CancelGood ==
  ASSUME TypeOK, NEW S, NEW recs, NEW tasks \in [Tasks -> Task \union {NoTask}], Good(recs, tasks)
  PROVE  Good(recs, Cancelled(S, tasks))
<1>0. /\ Registering(tasks) /\ Locking(tasks) /\ Holding(recs, tasks) /\ Asking(recs, tasks)
      /\ Waiting(recs, tasks) /\ Ending(tasks)
  BY DEF Good
<1>1. Registering(Cancelled(S, tasks))
  <2>1. \A k \in Tasks : Cancelled(S, tasks)[k] # NoTask =>
          registered[Cancelled(S, tasks)[k].id] = k
    BY <1>0, CancelledFields DEF Registering
  <2>2. ASSUME NEW i \in Ids, registered[i] # NoTask
        PROVE  /\ Cancelled(S, tasks)[registered[i]] # NoTask
               /\ Cancelled(S, tasks)[registered[i]].id = i
    <3>1. registered[i] \in Tasks /\ tasks[registered[i]] # NoTask /\ tasks[registered[i]].id = i
      BY <1>0, <2>2, Lookups DEF Registering
    <3>2. QED BY <3>1, CancelledFields
  <2>3. QED BY <2>1, <2>2 DEF Registering
<1>2. Locking(Cancelled(S, tasks))
  BY <1>0, Lookups, CancelledFields DEF Locking
<1>3. Holding(recs, Cancelled(S, tasks))
  BY <1>0, CancelledFields DEF Holding
<1>4. Asking(recs, Cancelled(S, tasks))
  BY <1>0, Lookups, CancelledFields DEF Asking, Registering
<1>5. Waiting(recs, Cancelled(S, tasks))
  BY <1>0, CancelledFields DEF Waiting
<1>6. Ending(Cancelled(S, tasks))
  BY <1>0, CancelledFields DEF Ending
<1>7. QED BY <1>1, <1>2, <1>3, <1>4, <1>5, <1>6 DEF Good

LEMMA GoodNext == IInv /\ [Next]_vars => Good(records, task)'
<1> SUFFICES ASSUME IInv, [Next]_vars PROVE Good(records, task)'
  OBVIOUS
<1>0. /\ Registering(task) /\ Locking(task) /\ Holding(records, task) /\ Asking(records, task)
      /\ Waiting(records, task) /\ Ending(task) /\ TypeOK /\ Good(records, task)
  BY DEF IInv, Good
<1>a. /\ records \in [Ids -> Record \union {NoRecord}]
       /\ task \in [Tasks -> Task \union {NoTask}]
  BY <1>0 DEF TypeOK
<1>1. ASSUME NEW i \in Ids, AddAgain(i) PROVE Good(records, task)'
  <2>1. PICK n \in {0, 1} :
          StartIfDue(i, [records EXCEPT ![i].transmissions =
                           IF @ < MinTransmissions THEN @ + n ELSE @], task)
    BY <1>1 DEF AddAgain
  <2> DEFINE recs == [records EXCEPT ![i].transmissions =
                        IF @ < MinTransmissions THEN @ + n ELSE @]
  <2>2. recs \in [Ids -> Record \union {NoRecord}] /\ recs[i] # NoRecord
    <3>1. records[i] # NoRecord
      BY <1>1 DEF AddAgain
    <3>2. QED BY <1>0, <3>1, AgainType
  <2>3. Good(recs, task)
    BY <1>1, AgainGood DEF AddAgain
  <2> HIDE DEF recs
  <2>4. StartIfDue(i, recs, task)
    BY <2>1 DEF recs
  <2>5. entry = "loaded" /\ entry' = entry
    BY <1>1 DEF AddAgain, Heard
  <2>6. QED BY <1>0, <1>a, <2>2, <2>3, <2>4, <2>5, StartIfDueGood
<1>2. ASSUME NEW i \in Ids, AddNew(i) PROVE Good(records, task)'
  <2>1. PICK S \in SUBSET Pending :
          StartIfDue(i, [j \in Ids |-> IF j = i THEN NewRecord
                                       ELSE IF j \in S THEN NoRecord ELSE records[j]], Detached(S))
    BY <1>2 DEF AddNew
  <2> DEFINE recs == [j \in Ids |-> IF j = i THEN NewRecord
                                    ELSE IF j \in S THEN NoRecord ELSE records[j]]
  <2>2. recs \in [Ids -> Record \union {NoRecord}] /\ recs[i] # NoRecord
    BY <1>a, NewRecordType, RecordAssumption
  <2>3. Good(recs, Detached(S))
    <3>1. records[i] = NoRecord
      BY <1>2 DEF AddNew
    <3>2. \A j \in Ids : j \in S => recs[j] = NoRecord \/ recs[j] = NewRecord
      OBVIOUS
    <3>3. \A j \in Ids : j \notin S =>
            recs[j] = records[j] \/ (records[j] = NoRecord /\ recs[j] = NewRecord)
      BY <3>1
    <3> HIDE DEF recs
    <3>4. QED BY <3>2, <3>3, DetachedGood
  <2> HIDE DEF recs
  <2>4. StartIfDue(i, recs, Detached(S))
    BY <2>1 DEF recs
  <2>5. entry = "loaded" /\ entry' = entry
    BY <1>2 DEF AddNew, Heard
  <2>6. /\ Detached(S) \in [Tasks -> Task \union {NoTask}]
        /\ \A k \in Tasks : task[k] = NoTask => Detached(S)[k] = NoTask
    BY <1>0, DetachedType, DetachedFields
  <2>7. QED BY <1>0, <2>2, <2>3, <2>4, <2>5, <2>6, StartIfDueGood
<1>3. ASSUME NEW i \in Ids, AddDecoded(i) PROVE Good(records, task)'
  <2>1. /\ task' = task /\ registered' = registered /\ holder' = holder /\ waiters' = waiters
        /\ entry' = entry
    BY <1>3 DEF AddDecoded, running
  <2>2. records' = records \/ (registered[i] = NoTask /\ records' = [records EXCEPT ![i] = NoRecord])
    BY <1>3 DEF AddDecoded
  <2>3. \A k \in Tasks : task[k] # NoTask /\ registered[i] = NoTask => task[k].id # i
    BY <1>0, Lookups DEF Registering
  <2>4. Holding(records, task)'
    BY <1>0, <1>a, <2>1, <2>2, <2>3, Lookups DEF Holding
  <2>5. Asking(records, task)' /\ Waiting(records, task)'
    BY <1>0, <1>a, <2>1, <2>2, <2>3, Lookups DEF Asking, Waiting, Sendable, Enough
  <2>6. Registering(task)' /\ Locking(task)' /\ Ending(task)'
    BY <1>0, <2>1 DEF Registering, Locking, Ending
  <2>7. QED BY <2>4, <2>5, <2>6 DEF Good
<1>4. ASSUME NEW i \in Ids, Classify(i) PROVE Good(records, task)'
  <2>1. CASE registered[i] = NoTask
    <3>1. /\ Start(i, "manual", records, task) /\ records[i] # NoRecord
          /\ entry = "loaded" /\ entry' = entry
      BY <1>4, <2>1 DEF Classify
    <3>2. QED BY <1>0, <1>a, <2>1, <3>1, StartGood
  <2>2. CASE registered[i] # NoTask
    <3>1. UNCHANGED <<entry, records, task, registered, holder, waiters>>
      BY <1>4, <2>2 DEF Classify
    <3>2. QED
      BY <1>0, <3>1 DEF Good, Registering, Locking, Holding, Asking, Waiting, Ending, Sendable, Enough
  <2>3. QED BY <2>1, <2>2
<1>5. ASSUME NEW i \in Ids, RetryDue(i) PROVE Good(records, task)'
  <2>1. /\ task' = task /\ registered' = registered /\ holder' = holder /\ waiters' = waiters
        /\ entry' = entry
    BY <1>5 DEF RetryDue, running
  <2>2. /\ records' = [records EXCEPT ![i] = [records[i] EXCEPT !.due = "yes"]]
        /\ records[i] \in Record
    BY <1>a, <1>5 DEF RetryDue
  <2> DEFINE r == [records[i] EXCEPT !.due = "yes"]
  <2>3. /\ r \in Record /\ r.status = records[i].status /\ r.due = "yes"
        /\ r.attempts = records[i].attempts /\ r.transmissions = records[i].transmissions
    BY <2>2 DEF Record
  <2>4. /\ \A j \in Ids : j # i => records'[j] = records[j]
        /\ records'[i] = r /\ r # NoRecord /\ records[i] # NoRecord
    BY <1>a, <2>2, <2>3, RecordAssumption
  <2> HIDE DEF r
  <2>5. Holding(records, task)'
    BY <1>0, <2>1, <2>3, <2>4, Lookups DEF Holding
  <2>6. Asking(records, task)'
    BY <1>0, <2>1, <2>3, <2>4, Lookups DEF Asking
  <2>7. Waiting(records, task)'
    BY <1>0, <2>1, <2>3, <2>4, Lookups DEF Waiting, Sendable, Enough
  <2>8. Registering(task)' /\ Locking(task)' /\ Ending(task)'
    BY <1>0, <2>1 DEF Registering, Locking, Ending
  <2>9. QED BY <2>5, <2>6, <2>7, <2>8 DEF Good
<1>6. ASSUME NEW S \in SUBSET Ids, Forget(S) PROVE Good(records, task)'
  <2>1. /\ records' = [i \in Ids |-> IF i \in S THEN NoRecord ELSE records[i]]
        /\ task' = Cancelled(S, Detached(S))
        /\ UNCHANGED <<entry, registered, holder, waiters>>
    BY <1>6 DEF Forget
  <2>2. Good(records', Detached(S))
    <3>1. \A i \in Ids : i \in S => records'[i] = NoRecord \/ records'[i] = NewRecord
      BY <2>1
    <3>2. \A i \in Ids : i \notin S =>
            records'[i] = records[i] \/ (records[i] = NoRecord /\ records'[i] = NewRecord)
      BY <2>1
    <3>3. QED BY <3>1, <3>2, DetachedGood
  <2>3. Good(records', Cancelled(S, Detached(S)))
    BY <1>0, <2>2, CancelGood, DetachedType
  <2>4. QED
    BY <2>1, <2>3 DEF Good, Registering, Locking, Holding, Asking, Waiting, Ending, Sendable, Enough
<1>7. ASSUME NEW k \in Tasks, LockGranted(k) PROVE Good(records, task)'
  <2>1. /\ Alive(k) /\ holder = k /\ task[k].pc = "lock" /\ task[k].cancelled = "no"
        /\ entry' = entry /\ registered' = registered
    BY <1>7 DEF LockGranted, At
  <2>2. task[k] \in Task /\ task[k].id \in Ids
    BY <1>0, <2>1, Lookups DEF Alive
  <2>3. CASE records[task[k].id] = NoRecord
    <3>1. task' = Ended(k) /\ Release /\ records' = records
      BY <1>7, <2>3 DEF LockGranted
    <3>2. Locking(task)'
      BY <2>1, <3>1, ReleaseLocks
    <3>3. QED BY <2>1, <3>1, <3>2, EndGood
  <2>4. CASE records[task[k].id] # NoRecord /\ client = "none"
    <3> DEFINE t == [task[k] EXCEPT !.pc = "client", !.record = "held"]
    <3>1. t \in Task
      BY <2>2, TaskFields
    <3>2. /\ t.id = task[k].id /\ t.origin = task[k].origin /\ t.removed = task[k].removed
          /\ t.pc = "client" /\ t.record = "held"
      BY <2>2 DEF Task
    <3>3. task' = [task EXCEPT ![k] = t] /\ records' = records /\ UNCHANGED <<holder, waiters>>
      BY <1>7, <2>4 DEF LockGranted, Owned
    <3> HIDE DEF t
    <3>4. QED BY <2>1, <2>4, <3>1, <3>2, <3>3, AdvanceGood
  <2>5. CASE records[task[k].id] # NoRecord /\ client # "none"
    <3> DEFINE h == [task[k] EXCEPT !.record = "held"]
               t == [h EXCEPT !.pc = "request"]
    <3>1. /\ h \in Task /\ h.id = task[k].id /\ h.origin = task[k].origin
          /\ h.removed = task[k].removed /\ h.record = "held"
      <4>1. /\ h.id = task[k].id /\ h.origin = task[k].origin /\ h.removed = task[k].removed
            /\ h.record = "held"
        BY <2>2 DEF Task
      <4>2. QED BY <2>2, <4>1, TaskFields
    <3>2. Ask(k, h, records, task) /\ UNCHANGED <<holder, waiters>>
      BY <1>7, <2>5 DEF LockGranted, Owned
    <3> HIDE DEF h
    <3>3. t \in Task
      BY <3>1, TaskFields
    <3>4. /\ t.id = task[k].id /\ t.origin = task[k].origin /\ t.removed = task[k].removed
          /\ t.pc = "request" /\ t.record = "held"
      BY <3>1 DEF Task
    <3>5. /\ task' = [task EXCEPT ![k] = t]
          /\ records' = [records EXCEPT ![t.id] = Asked(records[t.id])]
      BY <3>1, <3>2, <3>4 DEF Ask
    <3> HIDE DEF t
    <3>6. QED BY <2>1, <2>5, <3>2, <3>3, <3>4, <3>5, AdvanceGood
  <2>6. QED BY <2>3, <2>4, <2>5
<1>8. ASSUME NEW k \in Tasks, ClientCreated(k) PROVE Good(records, task)'
  <2>1. /\ Alive(k) /\ task[k].pc = "client" /\ task[k].cancelled = "no"
        /\ Ask(k, task[k], records, task)
        /\ UNCHANGED <<entry, registered, holder, waiters>>
    BY <1>8 DEF ClientCreated, At
  <2>2. task[k] \in Task /\ task[k].id \in Ids /\ holder = k
    BY <1>0, <2>1, Lookups DEF Alive, Locking
  <2> DEFINE t == [task[k] EXCEPT !.pc = "request"]
  <2>3. t \in Task
    BY <2>2, TaskFields
  <2>4. /\ t.id = task[k].id /\ t.origin = task[k].origin /\ t.pc = "request"
        /\ t.record = task[k].record /\ t.removed = task[k].removed
    BY <2>2 DEF Task
  <2>5. t.record = "held" => records[t.id] # NoRecord
    BY <1>0, <2>1, <2>4 DEF Holding, Alive
  <2>6. /\ task' = [task EXCEPT ![k] = t]
        /\ t.record = "held" => records' = [records EXCEPT ![t.id] = Asked(records[t.id])]
        /\ t.record # "held" => records' = records
    BY <2>1, <2>4 DEF Ask
  <2> HIDE DEF t
  <2>7. QED BY <2>1, <2>2, <2>3, <2>4, <2>5, <2>6, AdvanceGood
<1>9. ASSUME NEW k \in Tasks, Answered(k) \/ Fails(k) PROVE Good(records, task)'
  <2>1. /\ Alive(k) /\ task[k].pc = "request" /\ task' = Ended(k) /\ Release
        /\ entry' = entry /\ registered' = registered
    BY <1>9 DEF Answered, Fails, At
  <2>2. holder = k
    BY <1>0, <2>1 DEF Locking, Alive
  <2>3. Locking(task)'
    BY <2>1, <2>2, ReleaseLocks
  <2>4. task[k].id \in Ids
    BY <1>0, <2>1, Lookups DEF Alive
  <2>5. \A i \in Ids : i # task[k].id => records'[i] = records[i]
    BY <1>a, <1>9 DEF Answered, Fails
  <2>6. ASSUME HasRecord(k)
        PROVE  records'[task[k].id] # NoRecord /\ records'[task[k].id].status # "classifying"
    <3> DEFINE r == records[task[k].id]
               a == [r EXCEPT !.status = "classified", !.result = "some"]
               f == [r EXCEPT !.status = "failed"]
    <3>1. r \in Record
      BY <1>0, <1>a, <2>1, <2>4, <2>6 DEF Holding, HasRecord, Alive
    <3>2. a \in Record /\ f \in Record
      BY <3>1, RecordEdits
    <3>3. a.status = "classified" /\ f.status = "failed"
      BY <3>1 DEF Record
    <3>4. records'[task[k].id] = a \/ records'[task[k].id] = f
      BY <1>a, <1>9, <2>4, <2>6 DEF Answered, Fails
    <3> HIDE DEF a, f
    <3>5. QED BY <3>2, <3>3, <3>4, RecordAssumption
  <2>7. ~HasRecord(k) => records' = records
    BY <1>9 DEF Answered, Fails
  <2>8. QED BY <2>1, <2>3, <2>5, <2>6, <2>7, EndGood
<1>10. ASSUME NEW k \in Tasks, CancelEnds(k) PROVE Good(records, task)'
  <2>1. /\ Alive(k) /\ task' = Ended(k) /\ entry' = entry /\ registered' = registered
    BY <1>10 DEF CancelEnds
  <2>2. Locking(task)'
    <3>1. CASE holder = k
      BY <1>10, <2>1, <3>1, ReleaseLocks DEF CancelEnds
    <3>2. CASE holder # k
      <4>1. PICK i \in 1..Len(waiters) :
              waiters[i] = k /\ waiters' = RemoveAt(waiters, i) /\ holder' = holder
        BY <1>10, <3>2 DEF CancelEnds
      <4>2. QED BY <2>1, <3>2, <4>1, LeavingLocks
    <3>3. QED BY <3>1, <3>2
  <2>3. task[k].id \in Ids
    BY <1>0, <2>1, Lookups DEF Alive
  <2>4. \A i \in Ids : i # task[k].id => records'[i] = records[i]
    BY <1>a, <1>10 DEF CancelEnds, StatusReset
  <2>5. ASSUME task[k].pc = "request", HasRecord(k)
        PROVE  records'[task[k].id] # NoRecord /\ records'[task[k].id].status # "classifying"
    <3> DEFINE r == records[task[k].id]
               c == [r EXCEPT !.status = "collecting"]
    <3>1. r \in Record
      BY <1>0, <1>a, <2>1, <2>3, <2>5 DEF Holding, HasRecord, Alive
    <3>2. c \in Record
      BY <3>1, RecordEdits
    <3>3. c.status = "collecting"
      BY <3>1 DEF Record
    <3>4. records'[task[k].id] = c
      BY <1>a, <1>10, <2>3, <2>5 DEF CancelEnds, StatusReset
    <3> HIDE DEF c
    <3>5. QED BY <3>2, <3>3, <3>4, RecordAssumption
  <2>6. ~(task[k].pc = "request" /\ HasRecord(k)) => records' = records
    BY <1>10 DEF CancelEnds
  <2>7. QED BY <2>1, <2>2, <2>4, <2>5, <2>6, EndGood
<1>11. ASSUME NEW k \in Tasks, Done(k) PROVE Good(records, task)'
  <2>1. /\ task[k] # NoTask /\ task[k].pc = "done" /\ task[k].id \in Ids
        /\ registered' = [registered EXCEPT ![task[k].id] = NoTask]
        /\ task' = [task EXCEPT ![k] = NoTask]
        /\ records' = records /\ UNCHANGED <<entry, holder, waiters>>
    BY <1>0, <1>11, Lookups DEF Done, At, Alive, data
  <2>2. /\ registered[task[k].id] = k /\ registered'[task[k].id] = NoTask /\ task'[k] = NoTask
        /\ \A i \in Ids : i # task[k].id => registered'[i] = registered[i]
        /\ \A j \in Tasks : j # k => task'[j] = task[j] /\ (task[j] # NoTask => task[j].id # task[k].id)
    BY <1>0, <1>a, <2>1, Lookups DEF Registering
  <2>3. Registering(task)'
    BY <1>0, <2>1, <2>2, Lookups DEF Registering
  <2>4. Locking(task)'
    BY <1>0, <2>1, <2>2, Lookups DEF Locking
  <2>5. Holding(records, task)'
    BY <1>0, <2>1, <2>2 DEF Holding
  <2>6. Asking(records, task)'
    BY <1>0, <2>1, <2>2, Lookups DEF Asking, Registering
  <2>7. Waiting(records, task)' /\ Ending(task)'
    BY <1>0, <2>1, <2>2 DEF Waiting, Ending, Sendable, Enough
  <2>8. QED BY <2>3, <2>4, <2>5, <2>6, <2>7 DEF Good
<1>12. CASE RequestExpires \/ UNCHANGED vars
  <2>1. UNCHANGED <<entry, records, task, registered, holder, waiters>>
    BY <1>12 DEF RequestExpires, vars, data, running
  <2>2. QED
    BY <1>0, <2>1 DEF Good, Registering, Locking, Holding, Asking, Waiting, Ending, Sendable, Enough
<1>13. CASE Unload
  <2>1. /\ records' = records /\ task' = Cancelled(Ids, task) /\ entry = "loaded" /\ entry' = "unloading"
        /\ UNCHANGED <<registered, holder, waiters>>
    BY <1>13 DEF Unload, data
  <2>2. Good(records, Cancelled(Ids, task))
    BY <1>0, <1>a, CancelGood
  <2>3. Ending(task)'
    BY <1>0, <1>a, <2>1, Lookups, CancelledFields DEF Ending, Registering
  <2>4. QED
    BY <2>1, <2>2, <2>3 DEF Good, Registering, Locking, Holding, Asking, Waiting, Sendable, Enough
<1>14. CASE EndUnload
  <2>1. /\ \A k \in Tasks : task[k] = NoTask
        /\ entry' = "unloaded"
        /\ UNCHANGED <<records, task, registered, holder, waiters>>
    BY <1>14 DEF EndUnload, Alive, data, running
  <2>2. QED
    BY <1>0, <2>1 DEF Good, Registering, Locking, Holding, Asking, Waiting, Ending
<1>15. CASE Crash
  <2>1. /\ \A k \in Tasks : task'[k] = NoTask
        /\ \A i \in Ids : registered'[i] = NoTask
        /\ holder' = NoTask /\ Len(waiters') = 0 /\ entry' = "unloaded"
    BY <1>15 DEF Crash
  <2>2. QED BY <2>1 DEF Good, Registering, Locking, Holding, Asking, Waiting, Ending
<1>16. CASE Load
  <2>1. /\ entry = "unloaded" /\ entry' = "loaded"
        /\ records' = [i \in Ids |-> Loaded(records[i])]
        /\ UNCHANGED <<task, registered, holder, waiters>>
    BY <1>16 DEF Load
  <2>2. \A k \in Tasks : task[k] = NoTask
    BY <1>0, <2>1 DEF Ending
  <2>3. ASSUME NEW i \in Ids PROVE records'[i] # NoRecord => records'[i].status # "classifying"
    <3>1. CASE records[i] # NoRecord /\ records[i].status = "classifying"
      <4>1. records'[i] = [records[i] EXCEPT !.status = "collecting"] /\ records[i] \in Record
        BY <1>a, <2>1, <3>1 DEF Loaded
      <4>2. QED BY <4>1 DEF Record
    <3>2. CASE ~(records[i] # NoRecord /\ records[i].status = "classifying")
      BY <2>1, <3>2 DEF Loaded
    <3>3. QED BY <3>1, <3>2
  <2>4. QED
    BY <1>0, <2>1, <2>2, <2>3 DEF Good, Registering, Locking, Holding, Asking, Waiting, Ending
<1>17. QED
  BY <1>1, <1>2, <1>3, <1>4, <1>5, <1>6, <1>7, <1>8, <1>9, <1>10, <1>11, <1>12, <1>13, <1>14,
     <1>15, <1>16 DEF Next, TaskStep

-----------------------------------------------------------------------------
(* The invariant, and what it says.                                         *)

\* The inductive invariant: tasks and their registrations match, one task at most is past the lock
\* of _async_classify and each waits for it once, a held record is the one in records, and what
\* waits to be sent can be.
THEOREM ClassifierIInv == Spec => []IInv
<1>1. Init => IInv
  BY TypeInit, GoodInit DEF IInv
<1>2. IInv /\ [Next]_vars => IInv'
  BY TypeNext, GoodNext DEF IInv
<1>3. QED BY <1>1, <1>2, PTL DEF Spec

\* Every variable of the classifier stays of its type.
THEOREM ClassifierTypeOK == Spec => []TypeOK
<1>1. IInv => TypeOK
  BY DEF IInv
<1>2. QED BY <1>1, ClassifierIInv, PTL

\* A task is found under its type for as long as it lives, so that its done callback, which pops
\* whatever is registered, pops nothing else.
THEOREM RegisteredTasks == Spec => []TasksAreRegistered
<1>1. IInv => TasksAreRegistered
  BY DEF IInv, Good, Registering, TasksAreRegistered, Alive
<1>2. QED BY <1>1, ClassifierIInv, PTL

\* No type stays "classifying" with nobody waiting for its answer, whatever is cancelled, forgotten,
\* pruned or killed.
THEOREM NoOrphanedRequest == Spec => []ClassifyingIsAsked
<1>1. IInv => ClassifyingIsAsked
  BY DEF IInv, Good, Asking, ClassifyingIsAsked
<1>2. QED BY <1>1, ClassifierIInv, PTL

\* Claude is asked about one type at a time (_lock), however tasks are cancelled while they wait
\* for it or hold it.
THEOREM OneRequestAtATime ==
  Spec => [](\A j, k \in Tasks : At(j, "request") /\ At(k, "request") => j = k)
<1>1. IInv => \A j, k \in Tasks : At(j, "request") /\ At(k, "request") => j = k
  BY DEF IInv, Good, Locking, At, Alive
<1>2. QED BY <1>1, ClassifierIInv, PTL

-----------------------------------------------------------------------------
(* What a step does to the status of a record and to the requests.          *)

\* What is sent for a type is what could be sent, and was heard or collected afresh.
Sent(i) == Sendable(records[i]) /\ Enough(records'[i], task'[registered'[i]].removed)

\* Only an answer or a failure of the task that asked ends a classification.
LEMMA StatusStep ==
  ASSUME IInv, Next, entry # "unloaded", NEW i \in Ids, records[i] # NoRecord,
         records'[i] # NoRecord, records'[i].status # records[i].status
  PROVE  \/ records'[i].status = "collecting" \/ records[i].status = "classifying"
         \/ /\ records'[i].status = "classifying"
            /\ task'[registered'[i]].origin = "auto" => Sent(i)
<1>0. /\ Registering(task) /\ Holding(records, task) /\ Asking(records, task)
      /\ Waiting(records, task) /\ TypeOK
      /\ records \in [Ids -> Record \union {NoRecord}]
      /\ task \in [Tasks -> Task \union {NoTask}]
      /\ registered \in [Ids -> Tasks \union {NoTask}]
  BY DEF IInv, Good, TypeOK
<1> DEFINE Goal == \/ records'[i].status = "collecting" \/ records[i].status = "classifying"
                   \/ /\ records'[i].status = "classifying"
                      /\ task'[registered'[i]].origin = "auto" => Sent(i)
<1>1. ASSUME NEW id \in Ids, AddAgain(id) PROVE Goal
  <2>1. PICK n \in {0, 1} :
          StartIfDue(id, [records EXCEPT ![id].transmissions =
                           IF @ < MinTransmissions THEN @ + n ELSE @], task)
    BY <1>1 DEF AddAgain
  <2>2. PICK recs : /\ recs = [records EXCEPT ![id].transmissions =
                                 IF @ < MinTransmissions THEN @ + n ELSE @]
                    /\ StartIfDue(id, recs, task)
    BY <2>1
  <2>3. /\ recs \in [Ids -> Record \union {NoRecord}] /\ recs[id] # NoRecord
        /\ recs[id].status = records[id].status /\ recs[id].due = records[id].due
        /\ recs[id].attempts = records[id].attempts
        /\ \A j \in Ids : j # id => recs[j] = records[j]
    <3>1. records[id] # NoRecord
      BY <1>1 DEF AddAgain
    <3>2. QED BY <1>0, <2>2, <3>1, AgainType
  <2>4. ShouldClassify(id, recs[id]) /\ Start(id, "auto", recs, task)
    BY <2>2, <2>3 DEF StartIfDue
  <2>5. PICK k \in Tasks, t \in Task :
          /\ registered' = [registered EXCEPT ![id] = k]
          /\ t.id = id /\ t.origin = "auto" /\ Began(k, t, recs, task)
    BY <1>0, <2>4, StartBegins
  <2>6. i = id
    BY <2>3, <2>5 DEF Began
  <2>7. Sendable(records[i]) /\ recs[i].transmissions >= MinTransmissions
    BY <2>3, <2>4, <2>6, DueIsSendable DEF Sendable, Due
  <2>8. records'[i] = Asked(recs[i])
    BY <2>3, <2>5, <2>6 DEF Began
  <2>9. Enough(records'[i], task'[registered'[i]].removed)
    BY <2>3, <2>6, <2>7, <2>8, AskedType DEF Enough
  <2>10. QED BY <2>3, <2>6, <2>7, <2>8, <2>9, AskedType DEF Sent
<1>2. ASSUME NEW id \in Ids, AddNew(id) PROVE Goal
  <2>1. PICK S \in SUBSET Pending :
          StartIfDue(id, [j \in Ids |-> IF j = id THEN NewRecord
                                        ELSE IF j \in S THEN NoRecord ELSE records[j]], Detached(S))
    BY <1>2 DEF AddNew
  <2> DEFINE recs == [j \in Ids |-> IF j = id THEN NewRecord
                                    ELSE IF j \in S THEN NoRecord ELSE records[j]]
  <2>2. recs \in [Ids -> Record \union {NoRecord}] /\ i # id
        /\ (recs[i] = records[i] \/ recs[i] = NoRecord)
    BY <1>0, <1>2, NewRecordType DEF AddNew
  <2> HIDE DEF recs
  <2>3. StartIfDue(id, recs, Detached(S))
    BY <2>1 DEF recs
  <2>4. records'[i] = recs[i]
    <3>1. CASE ShouldClassify(id, recs[id])
      <4>1. PICK k \in Tasks, t \in Task : t.id = id /\ Began(k, t, recs, Detached(S))
        BY <1>0, <2>3, <3>1, StartBegins, DetachedType DEF StartIfDue
      <4>2. QED BY <2>2, <4>1 DEF Began
    <3>2. CASE ~ShouldClassify(id, recs[id])
      BY <2>3, <3>2 DEF StartIfDue
    <3>3. QED BY <3>1, <3>2
  <2>5. QED BY <2>2, <2>4
<1>3. ASSUME NEW id \in Ids, Classify(id) PROVE Goal
  <2>1. registered[id] = NoTask /\ Start(id, "manual", records, task)
    BY <1>3 DEF Classify
  <2>2. PICK k \in Tasks, t \in Task :
          /\ registered' = [registered EXCEPT ![id] = k]
          /\ t.id = id /\ t.origin = "manual" /\ Began(k, t, records, task)
    BY <1>0, <2>1, StartBegins
  <2>3. i = id /\ records'[i] = Asked(records[i])
    BY <1>0, <2>2 DEF Began
  <2>4. task'[registered'[i]].origin = "manual"
    BY <1>0, <2>2, <2>3 DEF Began
  <2>5. QED BY <1>0, <2>3, <2>4, AskedType
<1>4. ASSUME NEW id \in Ids, AddDecoded(id) \/ RetryDue(id) PROVE Goal
  BY <1>0, <1>4 DEF AddDecoded, RetryDue, Record
<1>5. ASSUME NEW S \in SUBSET Ids, Forget(S) PROVE Goal
  BY <1>5 DEF Forget
<1>6. ASSUME NEW k \in Tasks, LockGranted(k) \/ ClientCreated(k) PROVE Goal
  <2>1. /\ task[k] # NoTask /\ task[k].pc \in {"lock", "client"} /\ task[k].id \in Ids
        /\ task[k] \in Task /\ registered' = registered
    BY <1>0, <1>6 DEF LockGranted, ClientCreated, At, Alive, Task
  <2>2. PICK t \in Task : /\ t.id = task[k].id /\ t.origin = task[k].origin
                          /\ t.removed = task[k].removed /\ Ask(k, t, records, task)
    <3> DEFINE h == [task[k] EXCEPT !.record = "held"]
    <3>1. h \in Task
      BY <2>1, TaskFields
    <3>2. h.id = task[k].id /\ h.origin = task[k].origin /\ h.removed = task[k].removed
      BY <2>1 DEF Task
    <3>3. Ask(k, h, records, task) \/ Ask(k, task[k], records, task)
      BY <1>6 DEF LockGranted, ClientCreated, Owned
    <3> HIDE DEF h
    <3>4. QED BY <2>1, <3>1, <3>2, <3>3
  <2>3. i = t.id /\ records'[i] = Asked(records[i])
    BY <1>0, <2>2 DEF Ask
  <2>4. /\ task'[registered'[i]].origin = task[k].origin
        /\ task'[registered'[i]].removed = task[k].removed
    <3>1. registered'[i] = k
      BY <1>0, <2>1, <2>2, <2>3 DEF Registering
    <3>2. task'[k] = [t EXCEPT !.pc = "request"]
      BY <1>0, <2>2 DEF Ask
    <3>3. /\ [t EXCEPT !.pc = "request"].origin = t.origin
          /\ [t EXCEPT !.pc = "request"].removed = t.removed
      BY DEF Task
    <3>4. QED BY <2>2, <3>1, <3>2, <3>3
  <2>5. task[k].origin = "auto" => Sendable(records[i]) /\ Enough(records[i], task[k].removed)
    BY <1>0, <2>1, <2>2, <2>3 DEF Waiting
  <2>6. records[i] \in Record
    BY <1>0
  <2>7. /\ records'[i].status = "classifying"
        /\ Enough(records[i], task[k].removed) => Enough(records'[i], task[k].removed)
    BY <2>3, <2>6, AskedType DEF Enough
  <2>8. QED BY <2>4, <2>5, <2>7 DEF Sent
<1>7. ASSUME NEW k \in Tasks, Answered(k) \/ Fails(k) \/ CancelEnds(k) PROVE Goal
  <2>1. task[k] # NoTask /\ task[k].pc = "request" /\ task[k].record = "held" /\ task[k].id = i
    BY <1>0, <1>7 DEF Answered, Fails, CancelEnds, StatusReset, HasRecord, At, Alive
  <2>2. QED BY <1>0, <2>1 DEF Holding
<1>8. ASSUME NEW k \in Tasks, Done(k) PROVE Goal
  BY <1>8 DEF Done, data
<1>9. CASE RequestExpires \/ Unload \/ EndUnload \/ Crash \/ Load
  BY <1>9 DEF RequestExpires, Unload, EndUnload, Crash, Load, data
<1>10. QED
  BY <1>1, <1>2, <1>3, <1>4, <1>5, <1>6, <1>7, <1>8, <1>9 DEF Next, TaskStep

\* An answer or a failure ends in the record it was asked for, not in one collected afresh after the
\* type was forgotten, pruned or dropped.
THEOREM AnswersEndInTheirRecord == Spec => AnswersMatch
<1>1. IInv /\ [Next]_vars => [AnswerStep]_vars
  <2> SUFFICES ASSUME IInv, Next PROVE AnswerStep
    OBVIOUS
  <2>1. QED BY StatusStep DEF AnswerStep, Becomes
<1>2. QED BY <1>1, ClassifierIInv, PTL DEF Spec, AnswersMatch

\* What is sent automatically is due at the moment it is sent, although _should_classify looked at it
\* before the task waited for the lock, and was heard often enough, unless its type was pruned and
\* collected afresh meanwhile.
THEOREM SentWhileDue == Spec => SentWhenDue
<1>1. IInv /\ [Next]_vars => [DueStep]_vars
  <2> SUFFICES ASSUME IInv, Next PROVE DueStep
    OBVIOUS
  <2>1. QED BY StatusStep DEF DueStep, SentAutomatically, Becomes, Sent, Sendable, Enough
<1>2. QED BY <1>1, ClassifierIInv, PTL DEF Spec, SentWhenDue

\* A step that sends is one of an entry that is loaded.
LEMMA SendStep == IInv /\ Next /\ entry = "unloading" => requested' <= requested
<1> SUFFICES ASSUME IInv, Next, entry = "unloading" PROVE requested' <= requested
  OBVIOUS
<1>0. requested \in Nat /\ Ending(task)
  BY DEF IInv, Good, TypeOK
<1>1. ASSUME NEW k \in Tasks, LockGranted(k) \/ ClientCreated(k) PROVE requested' <= requested
  <2>1. task[k] # NoTask /\ task[k].pc # "done" /\ task[k].cancelled = "no"
    BY <1>1 DEF LockGranted, ClientCreated, At, Alive
  <2>2. QED BY <1>0, <2>1 DEF Ending
<1>2. ASSUME NEW k \in Tasks, Answered(k) \/ Fails(k) \/ CancelEnds(k) \/ Done(k)
      PROVE  requested' <= requested
  BY <1>0, <1>2 DEF Answered, Fails, CancelEnds, Done, data
<1>3. ASSUME NEW i \in Ids, AddAgain(i) \/ AddNew(i) \/ AddDecoded(i) \/ Classify(i) \/ RetryDue(i)
      PROVE  requested' <= requested
  BY <1>0, <1>3 DEF AddAgain, AddNew, AddDecoded, Classify, RetryDue, Heard
<1>4. ASSUME NEW S, Forget(S) PROVE requested' <= requested
  BY <1>4 DEF Forget
<1>5. CASE RequestExpires \/ Unload \/ EndUnload \/ Crash \/ Load
  BY <1>0, <1>5 DEF RequestExpires, Unload, EndUnload, Crash, Load, data
<1>6. QED BY <1>1, <1>2, <1>3, <1>4, <1>5 DEF Next, TaskStep

\* An entry that unloads sends nothing more, by the tasks that waited for the lock either.
THEOREM UnloadingSendsNothing == Spec => UnloadSendsNothing
<1>1. IInv /\ [Next]_vars => [QuietStep]_vars
  BY SendStep DEF QuietStep
<1>2. QED BY <1>1, ClassifierIInv, PTL DEF Spec, UnloadSendsNothing
=============================================================================
