----------------------------- MODULE Classifier -----------------------------
(***************************************************************************)
(* The classifier of unknown signals: it groups them into types, asks      *)
(* Claude about a type that was heard often enough, one type at a time,    *)
(* and keeps what it knows in Home Assistant's storage.                    *)
(*                                                                         *)
(* Everything runs in one event loop, so an action is what a callback or a *)
(* task does from one await to the next.  A task that finds the lock free  *)
(* runs on at once, inside the call that starts it; the others queue.      *)
(*                                                                         *)
(* Signals of one type are alike and of two types are not; a key is set    *)
(* and automatic classification is on.  Time is what may have passed: a    *)
(* request leaves the last 24 hours, a failed type becomes due again.      *)
(***************************************************************************)
EXTENDS Naturals, Sequences, FiniteSets, SequencesExt

CONSTANTS
  Ids,               \* signal types
  Tasks,             \* classification tasks that may be alive at once
  NoRecord, NoTask,
  MinTransmissions,  \* min_transmissions
  MaxPerDay,         \* max_per_day
  MaxAttempts,       \* MAX_ATTEMPTS
  MaxPending,        \* MAX_PENDING
  MaxKnown,          \* MAX_KNOWN
  MaxRequests        \* bound: requests of 24 hours after which the user asks for no more

ASSUME ClassifierAssumption ==
  /\ NoTask \notin Tasks
  /\ MinTransmissions \in Nat \ {0} /\ MaxAttempts \in Nat \ {0}
  /\ MaxPending \in Nat \ {0} /\ MaxKnown \in Nat \ {0}
  /\ MaxPerDay \in Nat /\ MaxRequests \in Nat

\* `transmissions` and `attempts` count to their limits; `due`: the retry delay has passed.
Record == [status : {"collecting", "classifying", "classified", "failed"},
           transmissions : 1..MinTransmissions, attempts : 0..MaxAttempts,
           due : {"no", "yes"}, result : {"none", "some"}]

ASSUME RecordAssumption == NoRecord \notin Record

\* A task keeps the record it found: `held` while it is the one in records, `detached` when it was
\* removed meanwhile.  `removed`: a record of its type was removed since it started (history).
Task == [id : Ids, pc : {"lock", "client", "request", "done"}, origin : {"auto", "manual"},
         record : {"none", "held", "detached"}, cancelled : {"no", "yes"}, removed : {"no", "yes"}]

ASSUME TaskAssumption == NoTask \notin Task

VARIABLES
  entry,       \* loaded, unloading, unloaded
  records,     \* the record of each type that has one
  known,       \* _known: decoded signals, as the types that look like them
  requested,   \* requests of the last 24 hours
  auth,        \* ok, or failed: _auth_failed
  client,      \* _client: none or created
  task,        \* the tasks alive
  registered,  \* _tasks
  holder, waiters   \* _lock

data == <<records, known, requested>>
running == <<auth, client, task, registered, holder, waiters>>
vars == <<entry, data, running>>

Alive(k) == task[k] # NoTask

TypeOK ==
  /\ entry \in {"loaded", "unloading", "unloaded"}
  /\ records \in [Ids -> Record \union {NoRecord}]
  /\ known \in Seq(Ids) /\ Len(known) <= MaxKnown
  /\ requested \in Nat
  /\ auth \in {"ok", "failed"} /\ client \in {"none", "created"}
  /\ task \in [Tasks -> Task \union {NoTask}]
  /\ registered \in [Ids -> Tasks \union {NoTask}]
  /\ holder \in Tasks \union {NoTask} /\ waiters \in Seq(Tasks)

\* A new entry: nothing in the store.
Init ==
  /\ entry = "loaded"
  /\ records = [i \in Ids |-> NoRecord] /\ known = <<>> /\ requested = 0
  /\ auth = "ok" /\ client = "none"
  /\ task = [k \in Tasks |-> NoTask] /\ registered = [i \in Ids |-> NoTask]
  /\ holder = NoTask /\ waiters = <<>>

-----------------------------------------------------------------------------
(* The tasks and the lock.                                                  *)

\* Variant: the next in line is not woken.
ReleaseSilently == holder' = NoTask /\ UNCHANGED waiters

Release ==
  IF waiters = <<>>
    THEN holder' = NoTask /\ UNCHANGED waiters
    ELSE holder' = Head(waiters) /\ waiters' = Tail(waiters)

Asked(r) ==
  [r EXCEPT !.status = "classifying", !.attempts = IF @ < MaxAttempts THEN @ + 1 ELSE @, !.due = "no"]

\* The request goes out, for the record the task has.
Ask(k, t, recs, tasks) ==
  /\ records' = IF t.record = "held" THEN [recs EXCEPT ![t.id] = Asked(@)] ELSE recs
  /\ requested' = requested + 1
  /\ task' = [tasks EXCEPT ![k] = [t EXCEPT !.pc = "request"]]

\* What _async_classify does with the lock, up to its next await.  The first task of an entry
\* creates the client in the executor.
Owned(k, t, recs, tasks) ==
  IF client = "none"
    THEN /\ task' = [tasks EXCEPT ![k] = [t EXCEPT !.pc = "client", !.record = "held"]]
         /\ records' = recs /\ UNCHANGED requested
    ELSE Ask(k, [t EXCEPT !.record = "held"], recs, tasks)

LockFree == holder = NoTask

NewTask(id, origin) ==
  [id |-> id, pc |-> "lock", origin |-> origin, record |-> "none", cancelled |-> "no",
   removed |-> "no"]

\* _start; `recs` and `tasks` are what its caller left of them.
Start(id, origin, recs, tasks) ==
  \E k \in Tasks :
    /\ ~Alive(k)
    /\ registered' = [registered EXCEPT ![id] = k]
    /\ IF LockFree
         THEN holder' = k /\ UNCHANGED waiters /\ Owned(k, NewTask(id, origin), recs, tasks)
         ELSE /\ waiters' = Append(waiters, k) /\ UNCHANGED holder
              /\ task' = [tasks EXCEPT ![k] = NewTask(id, origin)]
              /\ records' = recs /\ UNCHANGED requested

\* Whoever has a record that is removed keeps a detached one.
Detached(S) ==
  [k \in Tasks |-> IF Alive(k) /\ task[k].id \in S /\ task[k].pc # "done"
                     THEN [task[k] EXCEPT !.record = IF @ = "held" THEN "detached" ELSE @,
                                          !.removed = "yes"]
                     ELSE task[k]]

\* Variant: only the task that runs is cancelled, not those that queue.
CancelledRunning(S, tasks) ==
  [k \in Tasks |-> IF tasks[k] # NoTask /\ tasks[k].id \in S /\ tasks[k].pc = "request"
                     THEN [tasks[k] EXCEPT !.cancelled = "yes"] ELSE tasks[k]]

\* task.cancel() of the tasks registered for some types; it does nothing to one that is done.
Cancelled(S, tasks) ==
  [k \in Tasks |-> IF tasks[k] # NoTask /\ tasks[k].pc # "done" /\ \E i \in S : registered[i] = k
                     THEN [tasks[k] EXCEPT !.cancelled = "yes"] ELSE tasks[k]]

-----------------------------------------------------------------------------
(* What the hub and the services call.                                      *)

Pending == {i \in Ids : records[i] # NoRecord /\ records[i].status = "collecting"}

WithinLimit == requested < MaxPerDay

\* Variant: a task that runs or waits does not keep a second one from being started.
ShouldClassifyAgain(id, r) ==
  /\ auth = "ok" /\ r.transmissions >= MinTransmissions
  /\ r.status \in {"collecting", "classifying", "failed"} /\ WithinLimit

\* Variant: whatever was classified is classified again.
ShouldClassifyAny(id, r) ==
  auth = "ok" /\ registered[id] = NoTask /\ r.transmissions >= MinTransmissions /\ WithinLimit

ShouldClassify(id, r) ==
  /\ auth = "ok" /\ registered[id] = NoTask
  /\ r.transmissions >= MinTransmissions
  /\ \/ r.status = "collecting"
     \/ r.status = "failed" /\ r.attempts < MaxAttempts /\ r.due = "yes"
  /\ WithinLimit

NewRecord == [status |-> "collecting", transmissions |-> 1, attempts |-> 0, due |-> "no",
              result |-> "none"]

StartIfDue(id, recs, tasks) ==
  IF ShouldClassify(id, recs[id])
    THEN Start(id, "auto", recs, tasks)
    ELSE records' = recs /\ task' = tasks /\ UNCHANGED <<registered, holder, waiters, requested>>

Heard(id) == entry = "loaded" /\ id \notin ToSet(known)

\* async_add of a type that has a record; a repeat of the same transmission does not count.
AddAgain(id) ==
  /\ Heard(id) /\ records[id] # NoRecord
  /\ \E n \in {0, 1} :
       StartIfDue(id, [records EXCEPT ![id].transmissions =
                         IF @ < MinTransmissions THEN @ + n ELSE @], task)
  /\ UNCHANGED <<entry, known, auth, client>>

\* _prune: one of the pending types, the one not heard the longest, makes room.  Tasks are left
\* alone, and one that waits for the lock has no record yet.
Pruned(S) == IF Cardinality(Pending) < MaxPending THEN S = {} ELSE \E i \in Pending : S = {i}

\* async_add of a type without a record.
AddNew(id) ==
  /\ Heard(id) /\ records[id] = NoRecord
  /\ \E S \in SUBSET Pending :
       /\ Pruned(S)
       /\ StartIfDue(id, [i \in Ids |-> IF i = id THEN NewRecord
                                        ELSE IF i \in S THEN NoRecord ELSE records[i]], Detached(S))
  /\ UNCHANGED <<entry, known, auth, client>>

Newest(q) == SubSeq(q, IF Len(q) > MaxKnown THEN Len(q) - MaxKnown + 1 ELSE 1, Len(q))

\* async_add_decoded: the newest MAX_KNOWN are kept, and a type that looks like it is dropped,
\* unless it is classified or a task has it.
AddDecoded(id) ==
  /\ Heard(id)
  /\ known' = Newest(Append(known, id))
  /\ records' = IF /\ records[id] # NoRecord /\ registered[id] = NoTask
                   /\ records[id].status \in {"collecting", "failed"}
                  THEN [records EXCEPT ![id] = NoRecord] ELSE records
  /\ UNCHANGED <<entry, requested, running>>

\* async_classify, up to the await: a task that is there already is joined.
Classify(id) ==
  /\ entry = "loaded" /\ records[id] # NoRecord
  /\ requested < MaxRequests
  /\ auth' = "ok"
  /\ IF registered[id] = NoTask
       THEN Start(id, "manual", records, task)
       ELSE UNCHANGED <<records, requested, task, registered, holder, waiters>>
  /\ UNCHANGED <<entry, known, client>>

\* async_forget of one type or of all.
Forget(S) ==
  /\ entry = "loaded" /\ \A i \in S : records[i] # NoRecord
  /\ S # {}
  /\ records' = [i \in Ids |-> IF i \in S THEN NoRecord ELSE records[i]]
  /\ task' = Cancelled(S, Detached(S))
  /\ UNCHANGED <<entry, known, requested, auth, client, registered, holder, waiters>>

-----------------------------------------------------------------------------
(* The steps of a task.                                                     *)

At(k, pc) == Alive(k) /\ task[k].pc = pc

Ended(k) ==
  [task EXCEPT ![k] =
     [@ EXCEPT !.pc = "done", !.record = "none", !.cancelled = "no", !.removed = "no"]]

\* The lock was handed to a task that queued.
LockGranted(k) ==
  /\ At(k, "lock") /\ holder = k /\ task[k].cancelled = "no"
  /\ IF records[task[k].id] = NoRecord
       THEN task' = Ended(k) /\ Release /\ UNCHANGED <<records, requested>>
       ELSE Owned(k, task[k], records, task) /\ UNCHANGED <<holder, waiters>>
  /\ UNCHANGED <<entry, known, auth, client, registered>>

ClientCreated(k) ==
  /\ At(k, "client") /\ task[k].cancelled = "no"
  /\ client' = "created"
  /\ Ask(k, task[k], records, task)
  /\ UNCHANGED <<entry, known, auth, registered, holder, waiters>>

\* Variant: the record is looked up again when the answer comes.
HasLookedUp(k) == records[task[k].id] # NoRecord

\* The record the task has is the one in records; a record removed meanwhile is changed unseen.
HasRecord(k) == task[k].record = "held"

\* Claude answered.
Answered(k) ==
  /\ At(k, "request") /\ task[k].cancelled = "no"
  /\ records' = IF HasRecord(k)
                  THEN [records EXCEPT ![task[k].id].status = "classified",
                                       ![task[k].id].result = "some"]
                  ELSE records
  /\ task' = Ended(k) /\ Release
  /\ UNCHANGED <<entry, known, requested, auth, client, registered>>

\* Claude could not be asked, gave no usable answer, or the key was rejected.
Fails(k) ==
  /\ At(k, "request") /\ task[k].cancelled = "no"
  /\ auth' \in {auth, "failed"}
  /\ records' = IF HasRecord(k) THEN [records EXCEPT ![task[k].id].status = "failed"] ELSE records
  /\ task' = Ended(k) /\ Release
  /\ UNCHANGED <<entry, known, requested, client, registered>>

\* Variant: a cancelled request leaves its record as it is.
StatusKept(recs, id) == recs

\* CancelledError inside the request.
StatusReset(recs, id) == [recs EXCEPT ![id].status = "collecting"]

\* A cancelled task resumes, wherever it waits.
CancelEnds(k) ==
  /\ Alive(k) /\ task[k].cancelled = "yes"
  /\ records' = IF task[k].pc = "request" /\ HasRecord(k) THEN StatusReset(records, task[k].id)
                                                          ELSE records
  /\ task' = Ended(k)
  /\ IF holder = k
       THEN Release
       ELSE /\ \E i \in 1..Len(waiters) : waiters[i] = k /\ waiters' = RemoveAt(waiters, i)
            /\ UNCHANGED holder
  /\ UNCHANGED <<entry, known, requested, auth, client, registered>>

\* The done callback: _tasks.pop by the type, whoever is registered for it.
Done(k) ==
  /\ At(k, "done")
  /\ registered' = [registered EXCEPT ![task[k].id] = NoTask]
  /\ task' = [task EXCEPT ![k] = NoTask]
  /\ UNCHANGED <<entry, data, auth, client, holder, waiters>>

-----------------------------------------------------------------------------
(* Time, the store, and the life of the entry.                              *)

\* A request is older than 24 hours.
RequestExpires ==
  /\ requested > 0 /\ requested' = requested - 1
  /\ UNCHANGED <<entry, records, known, running>>

\* RETRY_DELAY, doubled for each attempt, has passed since the last one.
RetryDue(id) ==
  /\ records[id] # NoRecord /\ records[id].status = "failed" /\ records[id].due = "no"
  /\ records' = [records EXCEPT ![id].due = "yes"]
  /\ UNCHANGED <<entry, known, requested, running>>

\* async_unload: the hub is closed before, so nothing is heard any more, and no service finds the
\* entry.  The done callbacks of the tasks it waits for come before it resumes.
Unload ==
  /\ entry = "loaded" /\ entry' = "unloading"
  /\ task' = Cancelled(Ids, task)
  /\ UNCHANGED <<data, auth, client, registered, holder, waiters>>

EndUnload ==
  /\ entry = "unloading" /\ \A k \in Tasks : ~Alive(k)
  /\ entry' = "unloaded"
  /\ UNCHANGED <<data, running>>

\* Home Assistant is killed, just after the delayed save.  Killed later it loses what came after
\* that save, and loads what it would have loaded then.
Crash ==
  /\ entry # "unloaded" /\ entry' = "unloaded"
  /\ task' = [k \in Tasks |-> NoTask] /\ registered' = [i \in Ids |-> NoTask]
  /\ holder' = NoTask /\ waiters' = <<>>
  /\ UNCHANGED <<data, auth, client>>

\* Nobody waits for an answer any more.
Loaded(r) == IF r # NoRecord /\ r.status = "classifying" THEN [r EXCEPT !.status = "collecting"] ELSE r

\* A new classifier, and async_load.
Load ==
  /\ entry = "unloaded" /\ entry' = "loaded"
  /\ records' = [i \in Ids |-> Loaded(records[i])]
  /\ auth' = "ok" /\ client' = "none"
  /\ UNCHANGED <<known, requested, task, registered, holder, waiters>>

-----------------------------------------------------------------------------
TaskStep(k) ==
  LockGranted(k) \/ ClientCreated(k) \/ Answered(k) \/ Fails(k) \/ CancelEnds(k) \/ Done(k)

Next ==
  \/ \E i \in Ids : AddAgain(i) \/ AddNew(i) \/ AddDecoded(i) \/ Classify(i) \/ RetryDue(i)
  \/ \E S \in SUBSET Ids : (Cardinality(S) = 1 \/ S = {i \in Ids : records[i] # NoRecord}) /\ Forget(S)
  \/ \E k \in Tasks : TaskStep(k)
  \/ RequestExpires \/ Unload \/ EndUnload \/ Crash \/ Load

\* The event loop resumes what is ready, the executor creates the client, and a request ends, by
\* the client's own timeout at the latest.  Nobody has to call, and nothing has to be heard.
Fairness == (\A k \in Tasks : WF_vars(TaskStep(k))) /\ WF_vars(EndUnload)

Spec == Init /\ [][Next]_vars /\ Fairness

-----------------------------------------------------------------------------
(* Properties.                                                              *)

\* Every task can be found under the type it classifies, and there is one for each type at most:
\* a done callback, which pops whatever is registered for its type, never pops another task.
TasksAreRegistered == \A k \in Tasks : Alive(k) => registered[task[k].id] = k

\* A type never stays "classifying", which would keep it from being sent ever again: as long as it
\* is, a task that has this very record waits for the answer, across cancelling, forgetting,
\* pruning, restarts and crashes.
ClassifyingIsAsked ==
  entry # "unloaded" =>
    \A i \in Ids : records[i] # NoRecord /\ records[i].status = "classifying" =>
      /\ registered[i] # NoTask
      /\ task[registered[i]].pc = "request" /\ task[registered[i]].record = "held"

Becomes(i, status) ==
  /\ records[i] # NoRecord /\ records[i].status # status
  /\ records'[i] # NoRecord /\ records'[i].status = status

\* An answer, or a failure, ends in the record it was asked for, never in one that was collected
\* afresh after the type was forgotten.
AnswerStep ==
  entry # "unloaded" =>
    \A i \in Ids : \A s \in {"classified", "failed"} :
      Becomes(i, s) => records[i].status = "classifying"
AnswersMatch == [][AnswerStep]_vars

SentAutomatically(i) ==
  /\ entry = "loaded" /\ Becomes(i, "classifying")
  /\ task'[registered'[i]].origin = "auto"

\* What is sent automatically is not classified, and a type that failed has attempts left and is
\* due, although that was checked before the task waited for the lock; and it was heard in
\* min_transmissions transmissions, unless it was removed and collected afresh while it queued.
DueStep ==
  \A i \in Ids : SentAutomatically(i) =>
    /\ \/ records[i].status = "collecting"
       \/ records[i].status = "failed" /\ records[i].due = "yes" /\ records[i].attempts < MaxAttempts
    /\ \/ records'[i].transmissions >= MinTransmissions
       \/ task'[registered'[i]].removed = "yes"
SentWhenDue == [][DueStep]_vars

\* Nothing more is sent once the entry unloads, by tasks that waited for the lock either.
QuietStep == entry = "unloading" => requested' <= requested
UnloadSendsNothing == [][QuietStep]_vars

\* Every task ends and makes room for the next one of its type.
TasksEnd == \A i \in Ids : []<>(registered[i] = NoTask)

\* "how many types are sent in 24 hours at most": what is sent automatically is within the limit.
LimitStep == \A i \in Ids : SentAutomatically(i) => requested < MaxPerDay
DailyLimit == [][LimitStep]_vars
=============================================================================
