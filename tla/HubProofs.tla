------------------------------ MODULE HubProofs ------------------------------
(***************************************************************************)
(* What the hub guarantees for any number of callers, version tasks and    *)
(* installers, any set of versions and any number of lines in flight.      *)
(*                                                                         *)
(* The safety properties follow from one inductive invariant: whoever      *)
(* awaits a reply or the flasher owns the lock; a reply is expected only   *)
(* by the owner; a line in flight is live only while its sender, the       *)
(* owner, awaits its reply, and there is one such line at most; and what   *)
(* the run task does agrees with the connection.                           *)
(***************************************************************************)
EXTENDS Hub, SequenceTheorems, TLAPS

LEMMA RemoveAtType ==
  ASSUME NEW S, NEW q \in Seq(S), NEW i \in 1..Len(q)
  PROVE  RemoveAt(q, i) \in Seq(S)
<1>1. SubSeq(q, 1, i - 1) \in Seq(S)
  BY SMT
<1>2. SubSeq(q, i + 1, Len(q)) \in Seq(S)
  BY SMT
<1>3. QED BY <1>1, <1>2, SMT DEF RemoveAt

LEMMA OutdatedCommands ==
  ASSUME NEW q \in Seq(Command)
  PROVE  /\ Outdated(q) \in Seq(Command)
         /\ Len(Outdated(q)) = Len(q)
         /\ \A i \in 1..Len(q) : Outdated(q)[i].state = "over"
<1>1. ASSUME NEW i \in 1..Len(q)
      PROVE  /\ [q[i] EXCEPT !.state = "over"] \in Command
             /\ [q[i] EXCEPT !.state = "over"].state = "over"
  <2>1. q[i] \in [task : Senders, state : {"live", "over"}]
    BY ElementOfSeq DEF Command
  <2>2. QED BY <2>1 DEF Command
<1>2. Len(q) \in Nat
  BY LenProperties
<1>3. Outdated(q) \in [1..Len(q) -> Command]
  BY <1>1 DEF Outdated
<1>4. \A i \in 1..Len(q) : Outdated(q)[i] = [q[i] EXCEPT !.state = "over"]
  BY DEF Outdated
<1>5. Outdated(q) \in Seq(Command)
  BY <1>2, <1>3, SeqDef
<1>6. Len(Outdated(q)) = Len(q)
  BY <1>2, <1>3, <1>5, LenProperties
<1>7. QED BY <1>1, <1>4, <1>5, <1>6

LEMMA OutdatedLines ==
  ASSUME NEW q \in Seq(Line)
  PROVE  /\ Outdated(q) \in Seq(Line)
         /\ Len(Outdated(q)) = Len(q)
         /\ \A i \in 1..Len(q) : Outdated(q)[i] = [q[i] EXCEPT !.state = "over"]
         /\ \A i \in 1..Len(q) : Outdated(q)[i].state = "over"
<1>1. ASSUME NEW i \in 1..Len(q)
      PROVE  /\ [q[i] EXCEPT !.state = "over"] \in Line
             /\ [q[i] EXCEPT !.state = "over"].state = "over"
  <2>1. q[i] \in [task : Senders \union {NoTask}, state : {"live", "over"},
                  verdict : {"OK", "BAD"}, text : Versions \union {Legacy, Done, NoText}]
    BY ElementOfSeq DEF Line
  <2>2. QED BY <2>1 DEF Line
<1>2. Len(q) \in Nat
  BY LenProperties
<1>3. Outdated(q) \in [1..Len(q) -> Line]
  BY <1>1 DEF Outdated
<1>4. \A i \in 1..Len(q) : Outdated(q)[i] = [q[i] EXCEPT !.state = "over"]
  BY DEF Outdated
<1>5. Outdated(q) \in Seq(Line)
  BY <1>2, <1>3, SeqDef
<1>6. Len(Outdated(q)) = Len(q)
  BY <1>2, <1>3, <1>5, LenProperties
<1>7. QED BY <1>1, <1>4, <1>5, <1>6

-----------------------------------------------------------------------------
(* Types.                                                                   *)

LockType == holder \in Tasks \union {NoTask} /\ waiters \in Seq(Tasks)
LinesType == toDevice \in Seq(Command) /\ fromDevice \in Seq(Line)

LEMMA AcquireType ==
  ASSUME TypeOK, NEW t \in Tasks, Acquire(t)
  PROVE  LockType'
<1>1. holder \in Tasks \union {NoTask} /\ waiters \in Seq(Tasks)
  BY DEF TypeOK
<1>2. QED BY <1>1 DEF Acquire, LockType

LEMMA ReleaseType ==
  ASSUME TypeOK, Release
  PROVE  LockType'
<1>1. CASE waiters = <<>>
  BY <1>1 DEF Release, TypeOK, LockType
<1>2. CASE waiters # <<>>
  BY <1>2, HeadTailProperties DEF Release, TypeOK, LockType
<1>3. QED BY <1>1, <1>2

LEMMA LeaveLockType ==
  ASSUME TypeOK, NEW t \in Tasks, LeaveLock(t)
  PROVE  LockType'
<1>1. CASE holder = t /\ Release
  BY <1>1, ReleaseType
<1>2. ASSUME NEW i \in 1..Len(waiters), waiters' = RemoveAt(waiters, i), UNCHANGED holder
      PROVE  LockType'
  BY <1>2, RemoveAtType DEF TypeOK, LockType
<1>3. QED BY <1>1, <1>2 DEF LeaveLock

LEMMA DropReplyType ==
  ASSUME TypeOK, DropReply
  PROVE  LinesType' /\ reply' = NoFuture
  BY OutdatedCommands, OutdatedLines DEF DropReply, TypeOK, LinesType

LEMMA TypeInit == Init => TypeOK
<1> SUFFICES ASSUME Init PROVE TypeOK
  OBVIOUS
<1>1. Ready(deviceVersion) \in Line
  BY DEF Init, Ready, Line
<1>2. <<Ready(deviceVersion)>> \in Seq(Line)
  BY <1>1
<1>3. pc \in [Tasks -> States]
  BY DEF Init, States
<1>4. fromDevice \in Seq(Line)
  <2>1. CASE fromDevice = <<>>
    BY <2>1
  <2>2. CASE fromDevice = <<Ready(deviceVersion)>>
    BY <2>2, <1>2
  <2>3. QED BY <2>1, <2>2 DEF Init
<1>5. toDevice \in Seq(Command) /\ waiters \in Seq(Tasks)
  BY DEF Init
<1>6. QED BY <1>3, <1>4, <1>5 DEF Init, TypeOK

LEMMA EndInstallType ==
  ASSUME TypeOK, NEW i \in Installers, EndInstall(i), flashing' \subseteq Installers
  PROVE  TypeOK'
<1>1. pc' \in [Tasks -> States] /\ LockType'
  BY ReleaseType DEF EndInstall, Goto, TypeOK, States
<1>2. QED BY <1>1 DEF EndInstall, Started, TypeOK, LockType, linkVars

LEMMA TypeNext == TypeOK /\ [Next]_vars => TypeOK'
<1> SUFFICES ASSUME TypeOK, [Next]_vars PROVE TypeOK'
  OBVIOUS
<1> USE DEF Goto, LockType, LinesType, flashVars
<1>1. ASSUME NEW c \in Callers, CallCommand(c) PROVE TypeOK'
  BY <1>1, AcquireType DEF CallCommand, TypeOK, States, linkVars, Tasks
<1>2. ASSUME NEW q \in Queries, QueryWake(q) PROVE TypeOK'
  <2>1. LockType'
    BY <1>2, AcquireType DEF QueryWake, TypeOK, Tasks
  <2>2. pc' \in [Tasks -> States]
    BY <1>2 DEF QueryWake, TypeOK, States
  <2>3. QED BY <1>2, <2>1, <2>2 DEF QueryWake, TypeOK, linkVars
<1>3. ASSUME NEW t \in Senders, CommandStep(t) PROVE TypeOK'
  <2>1. CASE WriteFails(t)
    <3>1. LockType'
      BY <2>1, ReleaseType DEF WriteFails
    <3>2. pc' \in [Tasks -> States]
      BY <2>1 DEF WriteFails, TypeOK, States
    <3>3. QED BY <2>1, <3>1, <3>2 DEF WriteFails, TypeOK, linkVars
  <2>2. CASE Write(t)
    <3>1. [task |-> t, state |-> "live"] \in Command
      BY DEF Command
    <3>2. toDevice' \in Seq(Command)
      BY <2>2, <3>1, AppendProperties DEF Write, TypeOK
    <3>3. QED BY <2>2, <3>2 DEF Write, TypeOK, States
  <2>3. CASE Finish(t)
    <3>1. version' \in Versions \union {Legacy, Done, NoText}
      BY <2>3 DEF Finish, TypeOK, VersionIn, Line
    <3>2. QED BY <2>3, <3>1, ReleaseType, DropReplyType DEF Finish, TypeOK, States
  <2>4. CASE Timeout(t)
    <3>1. LockType' /\ LinesType' /\ reply' = NoFuture
      BY <2>4, ReleaseType, DropReplyType DEF Timeout
    <3>2. pc' \in [Tasks -> States]
      BY <2>4 DEF Timeout, TypeOK, States
    <3>3. QED BY <2>4, <3>1, <3>2 DEF Timeout, TypeOK
  <2>5. QED BY <1>3, <2>1, <2>2, <2>3, <2>4 DEF CommandStep
<1>4. ASSUME NEW c \in Callers, CancelWaiting(c) PROVE TypeOK'
  BY <1>4, LeaveLockType DEF CancelWaiting, TypeOK, States, linkVars, Tasks
<1>5. ASSUME NEW c \in Callers, CancelSent(c) PROVE TypeOK'
  <2>1. LockType' /\ LinesType' /\ reply' = NoFuture
    BY <1>5, ReleaseType, DropReplyType DEF CancelSent
  <2>2. pc' \in [Tasks -> States]
    BY <1>5 DEF CancelSent, TypeOK, States
  <2>3. QED BY <1>5, <2>1, <2>2 DEF CancelSent, TypeOK
<1>6. ASSUME NEW q \in Queries, EndQuery(q) PROVE TypeOK'
  <2>1. CASE holder = q /\ DropReply /\ Release
    <3>1. LockType' /\ LinesType' /\ reply' = NoFuture
      BY <2>1, ReleaseType, DropReplyType
    <3>2. pc' \in [Tasks -> States]
      BY <1>6 DEF EndQuery, TypeOK, States
    <3>3. QED BY <1>6, <3>1, <3>2 DEF EndQuery, TypeOK
  <2>2. CASE holder # q
    <3>1. LockType'
      BY <1>6, <2>2, LeaveLockType DEF EndQuery, TypeOK, Tasks
    <3>2. pc' \in [Tasks -> States]
      BY <1>6 DEF EndQuery, TypeOK, States
    <3>3. UNCHANGED <<reply, toDevice, fromDevice>>
      BY <1>6, <2>2 DEF EndQuery
    <3>4. QED BY <1>6, <3>1, <3>2, <3>3 DEF EndQuery, TypeOK
  <2>3. QED BY <1>6, <2>1, <2>2 DEF EndQuery
<1>7. ASSUME NEW i \in Installers, CallInstall(i) PROVE TypeOK'
  BY <1>7, AcquireType DEF CallInstall, TypeOK, States, linkVars, Tasks
<1>8. ASSUME NEW i \in Installers, InstallStep(i) PROVE TypeOK'
  <2>1. CASE InstallCloses(i)
    <3>1. [pc EXCEPT ![i] = "closing"] \in [Tasks -> States]
      BY DEF TypeOK, States
    <3>2. pc' \in [Tasks -> States]
      BY <2>1, <3>1 DEF InstallCloses, CancelTasks, States
    <3>3. QED BY <2>1, <3>2 DEF InstallCloses, CancelTasks, TypeOK, linkVars
  <2>2. CASE StartFlash(i)
    <3>1. pc' \in [Tasks -> States]
      BY <2>2 DEF StartFlash, TypeOK, States
    <3>2. reply' \in {NoFuture, Pending, Lost} \union Line /\ fromDevice' = <<>>
      BY <2>2 DEF StartFlash, Close, FailedReply, TypeOK
    <3>3. QED BY <2>2, <3>1, <3>2 DEF StartFlash, Close, TypeOK
  <2>3. CASE FlashEnds(i)
    <3>1. deviceVersion' \in Versions \union {Legacy} /\ toDevice' = <<>>
      BY <2>3, HubAssumption DEF FlashEnds, TypeOK
    <3>2. QED BY <2>3, <3>1 DEF FlashEnds, TypeOK, hubVars
  <2>4. CASE EndFlash(i)
    BY <2>4, EndInstallType DEF EndFlash, TypeOK
  <2>5. QED BY <1>8, <2>1, <2>2, <2>3, <2>4 DEF InstallStep
<1>18. ASSUME NEW i \in Installers, CancelStep(i) PROVE TypeOK'
  <2>1. CASE CancelInstall(i)
    <3>1. LockType' /\ pc' \in [Tasks -> States]
      BY <2>1, LeaveLockType DEF CancelInstall, TypeOK, States, Tasks
    <3>2. QED BY <2>1, <3>1 DEF CancelInstall, TypeOK, linkVars, flashVars
  <2>2. CASE CancelClosing(i)
    <3>1. LockType' /\ pc' \in [Tasks -> States]
      BY <2>2, ReleaseType DEF CancelClosing, TypeOK, States
    <3>2. QED BY <2>2, <3>1 DEF CancelClosing, TypeOK, linkVars
  <2>3. CASE CancelFlash(i)
    BY <2>3, EndInstallType DEF CancelFlash, TypeOK
  <2>4. QED BY <1>18, <2>1, <2>2, <2>3 DEF CancelStep
<1>9. ASSUME RunStep PROVE TypeOK'
  <2>1. CASE HandleLine
    <3>1. Head(fromDevice) \in Line /\ fromDevice' \in Seq(Line)
      BY <2>1, HeadTailProperties DEF HandleLine, TypeOK
    <3>2. QED BY <2>1, <3>1 DEF HandleLine, Answered, TypeOK, Line
  <2>2. CASE LoseConnection
    BY <2>2 DEF LoseConnection, Close, FailedReply, TypeOK
  <2>3. CASE EndRun
    BY <2>3 DEF EndRun, TypeOK, linkVars
  <2>4. QED BY <1>9, <2>1, <2>2, <2>3 DEF RunStep
<1>10. CASE Connect
  <2>1. pc' \in [Tasks -> States] /\ query' \in Queries
    BY <1>10 DEF Connect, TypeOK, States
  <2>2. QED BY <1>10, <2>1 DEF Connect, TypeOK
<1>11. CASE Unload
  <2>1. pc' \in [Tasks -> States]
    BY <1>11 DEF Unload, CancelTasks, TypeOK, States
  <2>2. QED BY <1>11, <2>1 DEF Unload, CancelTasks, TypeOK, linkVars
<1>12. CASE EndUnload
  BY <1>12 DEF EndUnload, Close, FailedReply, TypeOK
<1>13. CASE DeviceStep
  <2>1. ASSUME toDevice # <<>>, toDevice' = Tail(toDevice)
        PROVE  toDevice' \in Seq(Command) /\ Head(toDevice) \in Command
    BY <2>1, HeadTailProperties DEF TypeOK
  <2>2. ASSUME NEW cmd \in Command, NEW v \in {"OK", "BAD"}
        PROVE  AnswerTo(cmd, v) \in Line
    BY DEF AnswerTo, Command, Line, TypeOK
  <2>3. CASE DeviceHandle
    <3>1. fromDevice' \in Seq(Line)
      <4>1. CASE conn = "open" /\ link = "up"
        <5>1. PICK v \in {"OK", "BAD"} : fromDevice' = Append(fromDevice, AnswerTo(Head(toDevice), v))
          BY <2>3, <4>1 DEF DeviceHandle
        <5>2. AnswerTo(Head(toDevice), v) \in Line
          BY <2>1, <2>2, <2>3 DEF DeviceHandle
        <5>3. QED BY <5>1, <5>2, AppendProperties DEF TypeOK
      <4>2. CASE ~(conn = "open" /\ link = "up")
        BY <2>3, <4>2 DEF DeviceHandle, TypeOK
      <4>3. QED BY <4>1, <4>2
    <3>2. QED BY <2>1, <2>3, <3>1 DEF DeviceHandle, TypeOK, hubVars
  <2>4. CASE DeviceMisses
    BY <2>1, <2>4 DEF DeviceMisses, TypeOK, hubVars
  <2>5. QED BY <1>13, <2>3, <2>4 DEF DeviceStep
<1>14. CASE Unplug
  BY <1>14 DEF Unplug, TypeOK, hubVars
<1>15. CASE DeviceRestart
  <2>1. Ready(deviceVersion) \in Line
    BY DEF Ready, Line, TypeOK
  <2>2. fromDevice' \in Seq(Line)
    BY <1>15, <2>1, AppendProperties DEF DeviceRestart, TypeOK
  <2>3. QED BY <1>15, <2>2 DEF DeviceRestart, TypeOK, hubVars
<1>16. CASE UNCHANGED vars
  BY <1>16 DEF TypeOK, vars, hubVars, linkVars
<1>17. QED
  BY <1>1, <1>2, <1>3, <1>4, <1>5, <1>6, <1>7, <1>8, <1>9, <1>10, <1>11, <1>12, <1>13, <1>14,
     <1>15, <1>16, <1>18 DEF Next, CallerStep, QueryStep, Senders

\* The state of the hub stays of its type, whatever its callers and the device do.
THEOREM HubTypeOK == Spec => []TypeOK
  BY TypeInit, TypeNext, PTL DEF Spec

-----------------------------------------------------------------------------
(* Who owns the lock.                                                       *)

\* A task that awaits a reply, or that closes the hub and flashes, owns the lock; and only the
\* owner has a future, also while it is being cancelled.
OwnerInv ==
  /\ \A t \in Tasks : pc[t] \in {"reply", "closing", "flashing"} => holder = t
  /\ reply # NoFuture => holder \in Tasks /\ pc[holder] \in {"reply", "cancelled"}

LEMMA OwnerInit == Init => OwnerInv
  BY DEF Init, OwnerInv

LEMMA OwnerNext == TypeOK /\ OwnerInv /\ [Next]_vars => OwnerInv'
<1> SUFFICES ASSUME TypeOK, OwnerInv, [Next]_vars PROVE OwnerInv'
  OBVIOUS
<1> USE HubAssumption, FutureAssumption DEF Goto, OwnerInv, TypeOK, Tasks, Senders
<1>1. ASSUME NEW c \in Callers, CallCommand(c) PROVE OwnerInv'
  BY <1>1 DEF CallCommand, Acquire
<1>2. ASSUME NEW q \in Queries, QueryWake(q) PROVE OwnerInv'
  BY <1>2 DEF QueryWake, Acquire
<1>3. ASSUME NEW t \in Senders, CommandStep(t) PROVE OwnerInv'
  <2>1. CASE WriteFails(t)
    BY <2>1 DEF WriteFails, Release
  <2>2. CASE Write(t)
    BY <2>2 DEF Write
  <2>3. CASE Finish(t)
    BY <2>3 DEF Finish, DropReply, Release
  <2>4. CASE Timeout(t)
    BY <2>4 DEF Timeout, DropReply, Release
  <2>5. QED BY <1>3, <2>1, <2>2, <2>3, <2>4 DEF CommandStep
<1>4. ASSUME NEW c \in Callers, CancelWaiting(c) PROVE OwnerInv'
  BY <1>4 DEF CancelWaiting, LeaveLock, Release
<1>5. ASSUME NEW c \in Callers, CancelSent(c) PROVE OwnerInv'
  BY <1>5 DEF CancelSent, DropReply, Release
<1>6. ASSUME NEW q \in Queries, EndQuery(q) PROVE OwnerInv'
  BY <1>6 DEF EndQuery, DropReply, LeaveLock, Release
<1>7. ASSUME NEW i \in Installers, CallInstall(i) PROVE OwnerInv'
  BY <1>7 DEF CallInstall, Acquire
<1>8. ASSUME NEW i \in Installers, InstallStep(i) PROVE OwnerInv'
  <2>1. CASE InstallCloses(i)
    BY <2>1 DEF InstallCloses, CancelTasks
  <2>2. CASE StartFlash(i)
    BY <2>2 DEF StartFlash, Close, FailedReply
  <2>3. CASE FlashEnds(i)
    BY <2>3 DEF FlashEnds, hubVars
  <2>4. CASE EndFlash(i)
    BY <2>4 DEF EndFlash, EndInstall, Started, Release
  <2>5. QED BY <1>8, <2>1, <2>2, <2>3, <2>4 DEF InstallStep
<1>15. ASSUME NEW i \in Installers, CancelStep(i) PROVE OwnerInv'
  <2>1. CASE CancelInstall(i)
    BY <2>1 DEF CancelInstall, LeaveLock, Release
  <2>2. CASE CancelClosing(i)
    BY <2>2 DEF CancelClosing, Release
  <2>3. CASE CancelFlash(i)
    BY <2>3 DEF CancelFlash, EndInstall, Started, Release
  <2>4. QED BY <1>15, <2>1, <2>2, <2>3 DEF CancelStep
<1>9. ASSUME RunStep PROVE OwnerInv'
  BY <1>9 DEF RunStep, HandleLine, Answered, LoseConnection, Close, FailedReply, EndRun
<1>10. CASE Connect
  BY <1>10 DEF Connect
<1>11. CASE Unload
  BY <1>11 DEF Unload, CancelTasks
<1>12. CASE EndUnload
  BY <1>12 DEF EndUnload, Close, FailedReply
<1>13. CASE DeviceStep \/ Unplug \/ DeviceRestart \/ UNCHANGED vars
  BY <1>13 DEF DeviceStep, DeviceHandle, DeviceMisses, Unplug, DeviceRestart, hubVars, vars
<1>14. QED
  BY <1>1, <1>2, <1>3, <1>4, <1>5, <1>6, <1>7, <1>8, <1>9, <1>10, <1>11, <1>12, <1>13, <1>15
  DEF Next, CallerStep, QueryStep

-----------------------------------------------------------------------------
(* Which lines are live.                                                    *)

Live(q, i) == i \in 1..Len(q) /\ q[i].state = "live"

\* At most one line, in either direction, belongs to a command that still waits, and it is the
\* owner's; so is an answer that arrived in time.
LinesInv ==
  /\ \A i : Live(toDevice, i) => toDevice[i].task = holder /\ reply # NoFuture
  /\ \A i : Live(fromDevice, i) => fromDevice[i].task = holder /\ reply # NoFuture
  /\ \A i, j : Live(toDevice, i) /\ Live(toDevice, j) => i = j
  /\ \A i, j : Live(fromDevice, i) /\ Live(fromDevice, j) => i = j
  /\ \A i, j : ~(Live(toDevice, i) /\ Live(fromDevice, j))
  /\ reply \in Line /\ reply.state = "live" => reply.task = holder

LEMMA TailLive ==
  ASSUME NEW S, NEW q \in Seq(S), q # <<>>
  PROVE  /\ 1 \in 1..Len(q) /\ Head(q) = q[1]
         /\ \A i : Live(Tail(q), i) => i \in Nat /\ Live(q, i + 1) /\ Tail(q)[i] = q[i + 1]
<1>1. Len(q) \in Nat /\ 1 \in 1..Len(q) /\ Head(q) = q[1]
  BY EmptySeq, LenProperties
<1>2. Len(Tail(q)) = Len(q) - 1 /\ \A i \in 1..Len(Tail(q)) : Tail(q)[i] = q[i + 1]
  BY HeadTailProperties
<1>3. QED BY <1>1, <1>2 DEF Live

LEMMA AppendLive ==
  ASSUME NEW S, NEW q \in Seq(S), NEW e \in S
  PROVE  \A i : Live(Append(q, e), i) =>
           \/ Live(q, i) /\ Append(q, e)[i] = q[i]
           \/ i = Len(q) + 1 /\ Append(q, e)[i] = e /\ e.state = "live"
<1>1. Len(q) \in Nat
  BY LenProperties
<1>2. /\ Len(Append(q, e)) = Len(q) + 1
      /\ \A i \in 1..Len(q) : Append(q, e)[i] = q[i]
      /\ Append(q, e)[Len(q) + 1] = e
  BY AppendProperties
<1>3. QED BY <1>1, <1>2 DEF Live

\* The lines stay, and the lock changes hands only while no reply is expected.
LEMMA LinesKept ==
  ASSUME LinesInv, UNCHANGED <<toDevice, fromDevice, reply>>, holder' = holder \/ reply = NoFuture
  PROVE  LinesInv'
  BY FutureAssumption DEF LinesInv, Live

LEMMA LinesDropped ==
  ASSUME TypeOK, DropReply
  PROVE  LinesInv'
<1>1. \A i : ~Live(toDevice', i)
  BY OutdatedCommands DEF DropReply, Live, TypeOK
<1>2. \A i : ~Live(fromDevice', i)
  BY OutdatedLines DEF DropReply, Live, TypeOK
<1>3. reply' \notin Line
  BY FutureAssumption DEF DropReply
<1>4. QED BY <1>1, <1>2, <1>3 DEF LinesInv

LEMMA LinesClosed ==
  ASSUME LinesInv, Close, UNCHANGED <<toDevice, holder>>
  PROVE  LinesInv'
<1>1. \A i : ~Live(fromDevice', i)
  BY DEF Close, Live
<1>2. reply' \in Line => reply' = reply
  BY FutureAssumption DEF Close, FailedReply
<1>3. reply # NoFuture => reply' # NoFuture
  BY FutureAssumption DEF Close, FailedReply
<1>4. \A i : Live(toDevice', i) <=> Live(toDevice, i)
  BY DEF Live
<1>5. QED BY <1>1, <1>2, <1>3, <1>4 DEF LinesInv

LEMMA LinesInit == Init => LinesInv
<1> SUFFICES ASSUME Init PROVE LinesInv
  OBVIOUS
<1>1. \A i : ~Live(toDevice, i)
  BY DEF Init, Live
<1>2. \A i : ~Live(fromDevice, i)
  <2>1. CASE fromDevice = <<>>
    BY <2>1 DEF Live
  <2>2. CASE fromDevice = <<Ready(deviceVersion)>>
    BY <2>2 DEF Live, Ready
  <2>3. QED BY <2>1, <2>2 DEF Init
<1>3. QED BY <1>1, <1>2, FutureAssumption DEF Init, LinesInv

LEMMA WriteLines ==
  ASSUME TypeOK, OwnerInv, LinesInv, NEW t \in Senders, Write(t)
  PROVE  LinesInv'
<1> DEFINE cmd == [task |-> t, state |-> "live"]
<1>1. reply = NoFuture /\ holder = t
  BY DEF Write, OwnerInv, Senders
<1>2. (\A i : ~Live(toDevice, i)) /\ (\A i : ~Live(fromDevice, i))
  BY <1>1 DEF LinesInv
<1>3. cmd \in Command
  BY DEF Command
<1>4. /\ Len(toDevice') = Len(toDevice) + 1
      /\ \A i \in 1..Len(toDevice) : toDevice'[i] = toDevice[i]
      /\ toDevice'[Len(toDevice) + 1] = cmd
  BY <1>3, AppendProperties DEF Write, TypeOK
<1>5. Len(toDevice) \in Nat
  BY LenProperties DEF TypeOK
<1>6. \A i : Live(toDevice', i) => i = Len(toDevice) + 1
  BY <1>2, <1>4, <1>5 DEF Live
<1>7. \A i : ~Live(fromDevice', i)
  BY <1>2 DEF Write, Live
<1>8. reply' \notin Line /\ reply' # NoFuture /\ holder' = t
  BY <1>1, FutureAssumption DEF Write
<1>9. QED BY <1>4, <1>6, <1>7, <1>8 DEF LinesInv

LEMMA HandleLineLines ==
  ASSUME TypeOK, LinesInv, HandleLine
  PROVE  LinesInv'
<1>1. /\ 1 \in 1..Len(fromDevice) /\ Head(fromDevice) = fromDevice[1]
      /\ \A i : Live(fromDevice', i) =>
           i \in Nat /\ Live(fromDevice, i + 1) /\ fromDevice'[i] = fromDevice[i + 1]
  BY TailLive DEF HandleLine, TypeOK
<1>2. reply' = reply \/ (reply' = Head(fromDevice) /\ reply # NoFuture)
  BY FutureAssumption DEF HandleLine, Answered
<1>3. reply # NoFuture => reply' # NoFuture
  BY <1>1, <1>2, ElementOfSeq, FutureAssumption DEF TypeOK
<1>4. \A i, j : Live(fromDevice', i) /\ Live(fromDevice', j) => i = j
  <2> SUFFICES ASSUME NEW i, NEW j, Live(fromDevice', i), Live(fromDevice', j) PROVE i = j
    OBVIOUS
  <2>1. i + 1 = j + 1 /\ i \in Nat /\ j \in Nat
    BY <1>1 DEF LinesInv
  <2>2. QED BY <2>1
<1>5. toDevice' = toDevice /\ holder' = holder
  BY DEF HandleLine
<1>6. reply' \in Line /\ reply'.state = "live" => reply'.task = holder
  <2>1. CASE reply' = reply
    BY <2>1 DEF LinesInv
  <2>2. CASE reply' = Head(fromDevice)
    BY <1>1, <2>2 DEF LinesInv, Live
  <2>3. QED BY <1>2, <2>1, <2>2
<1>7. QED BY <1>1, <1>3, <1>4, <1>5, <1>6 DEF LinesInv, Live

LEMMA DeviceLines ==
  ASSUME TypeOK, LinesInv, DeviceStep \/ DeviceRestart
  PROVE  LinesInv'
<1>1. UNCHANGED <<reply, holder>>
  BY DEF DeviceStep, DeviceHandle, DeviceMisses, DeviceRestart, hubVars
<1>2. ASSUME toDevice # <<>>, toDevice' = Tail(toDevice)
      PROVE  /\ 1 \in 1..Len(toDevice) /\ Head(toDevice) = toDevice[1]
             /\ \A i : Live(toDevice', i) =>
                  i \in Nat /\ Live(toDevice, i + 1) /\ toDevice'[i] = toDevice[i + 1]
  BY <1>2, TailLive DEF TypeOK
<1>3. ASSUME toDevice # <<>>, toDevice' = Tail(toDevice)
      PROVE  \A i, j : Live(toDevice', i) /\ Live(toDevice', j) => i = j
  <2> SUFFICES ASSUME NEW i, NEW j, Live(toDevice', i), Live(toDevice', j) PROVE i = j
    OBVIOUS
  <2>1. i + 1 = j + 1 /\ i \in Nat /\ j \in Nat
    BY <1>2, <1>3 DEF LinesInv
  <2>2. QED BY <2>1
<1>4. ASSUME toDevice # <<>>, toDevice' = Tail(toDevice), fromDevice' = fromDevice PROVE LinesInv'
  BY <1>1, <1>2, <1>3, <1>4 DEF LinesInv, Live
<1>5. CASE DeviceHandle
  <2>1. toDevice # <<>> /\ toDevice' = Tail(toDevice)
    BY <1>5 DEF DeviceHandle
  <2>2. CASE fromDevice' = fromDevice
    BY <1>4, <2>1, <2>2
  <2>3. ASSUME NEW line \in Line, fromDevice' = Append(fromDevice, line),
               line.task = toDevice[1].task, line.state = toDevice[1].state
        PROVE  LinesInv'
    <3>3. \A i : Live(fromDevice', i) =>
            \/ Live(fromDevice, i) /\ fromDevice'[i] = fromDevice[i]
            \/ i = Len(fromDevice) + 1 /\ fromDevice'[i] = line /\ line.state = "live"
      <4>1. fromDevice \in Seq(Line)
        BY DEF TypeOK
      <4>2. \A i : Live(Append(fromDevice, line), i) =>
              \/ Live(fromDevice, i) /\ Append(fromDevice, line)[i] = fromDevice[i]
              \/ i = Len(fromDevice) + 1 /\ Append(fromDevice, line)[i] = line /\ line.state = "live"
        BY <4>1, AppendLive
      <4>3. fromDevice' = Append(fromDevice, line)
        BY <2>3
      <4>4. QED BY <4>2, <4>3
    <3>4. CASE Live(toDevice, 1)
      <4>1. \A i : ~Live(toDevice', i)
        <5> SUFFICES ASSUME NEW i, Live(toDevice', i) PROVE FALSE
          OBVIOUS
        <5>1. i \in Nat /\ Live(toDevice, i + 1) /\ i # 0
          BY <1>2, <2>1 DEF Live
        <5>2. i + 1 = 1
          BY <3>4, <5>1 DEF LinesInv
        <5>3. QED BY <5>1, <5>2
      <4>2. \A i : Live(fromDevice', i) => i = Len(fromDevice) + 1 /\ fromDevice'[i] = line
        BY <3>3, <3>4 DEF LinesInv
      <4>3. line.task = holder /\ reply # NoFuture
        BY <2>3, <3>4 DEF LinesInv
      <4>4. QED BY <1>1, <4>1, <4>2, <4>3 DEF LinesInv
    <3>5. CASE ~Live(toDevice, 1)
      <4>1. line.state # "live"
        BY <1>2, <2>1, <2>3, <3>5 DEF Live
      <4>2. \A i : Live(fromDevice', i) => Live(fromDevice, i) /\ fromDevice'[i] = fromDevice[i]
        BY <3>3, <4>1
      <4>3. \A i : Live(toDevice', i) => toDevice'[i].task = holder /\ reply # NoFuture
        <5> SUFFICES ASSUME NEW i, Live(toDevice', i)
                     PROVE  toDevice'[i].task = holder /\ reply # NoFuture
          OBVIOUS
        <5>1. Live(toDevice, i + 1) /\ toDevice'[i] = toDevice[i + 1]
          BY <1>2, <2>1
        <5>2. QED BY <5>1 DEF LinesInv
      <4>4. \A i, j : ~(Live(toDevice', i) /\ Live(fromDevice', j))
        BY <1>2, <2>1, <4>2 DEF LinesInv
      <4>5. /\ \A i : Live(fromDevice', i) => fromDevice'[i].task = holder /\ reply # NoFuture
            /\ \A i, j : Live(fromDevice', i) /\ Live(fromDevice', j) => i = j
        BY <4>2 DEF LinesInv
      <4>6. \A i, j : Live(toDevice', i) /\ Live(toDevice', j) => i = j
        BY <1>3, <2>1
      <4>7. reply \in Line /\ reply.state = "live" => reply.task = holder
        BY DEF LinesInv
      <4>8. QED BY <1>1, <4>3, <4>4, <4>5, <4>6, <4>7 DEF LinesInv
    <3>6. QED BY <3>4, <3>5
  <2>4. CASE conn = "open" /\ link = "up"
    <3>1. PICK v \in {"OK", "BAD"} : fromDevice' = Append(fromDevice, AnswerTo(Head(toDevice), v))
      BY <1>5, <2>4 DEF DeviceHandle
    <3>2. Head(toDevice) = toDevice[1] /\ toDevice[1] \in Command
      BY <1>2, <2>1, ElementOfSeq DEF TypeOK
    <3> DEFINE line == AnswerTo(toDevice[1], v)
    <3>3. line \in Line /\ line.task = toDevice[1].task /\ line.state = toDevice[1].state
      BY <3>2 DEF AnswerTo, Command, Line, TypeOK
    <3>4. fromDevice' = Append(fromDevice, line)
      BY <3>1, <3>2
    <3> HIDE DEF line
    <3>5. QED BY <2>3, <3>3, <3>4
  <2>5. QED BY <1>5, <2>2, <2>4 DEF DeviceHandle
<1>6. CASE DeviceMisses
  BY <1>4, <1>6 DEF DeviceMisses
<1>7. CASE DeviceRestart
  <2>1. \A i : ~Live(toDevice', i)
    BY <1>7 DEF DeviceRestart, Live
  <2>2. \A i : Live(fromDevice', i) => Live(fromDevice, i) /\ fromDevice'[i] = fromDevice[i]
    <3>1. Ready(deviceVersion) \in Line /\ Ready(deviceVersion).state = "over"
      BY DEF Ready, Line, TypeOK
    <3>2. CASE fromDevice' = Append(fromDevice, Ready(deviceVersion))
      BY <3>1, <3>2, AppendLive DEF TypeOK
    <3>3. CASE fromDevice' = fromDevice
      BY <3>3 DEF Live
    <3>4. QED BY <1>7, <3>2, <3>3 DEF DeviceRestart
  <2>3. QED BY <1>1, <2>1, <2>2 DEF LinesInv
<1>8. QED BY <1>5, <1>6, <1>7 DEF DeviceStep

LEMMA LinesNext == TypeOK /\ OwnerInv /\ LinesInv /\ [Next]_vars => LinesInv'
<1> SUFFICES ASSUME TypeOK, OwnerInv, LinesInv, [Next]_vars PROVE LinesInv'
  OBVIOUS
<1>1. ASSUME NEW t \in Tasks, pc[t] \notin {"reply", "cancelled"}, holder = t
      PROVE  reply = NoFuture
  BY <1>1 DEF OwnerInv
<1>2. holder = NoTask => reply = NoFuture
  BY HubAssumption DEF OwnerInv
<1>19. ASSUME NEW i \in Installers, pc[i] \in {"closing", "flashing"} PROVE reply = NoFuture
  BY <1>1, <1>19 DEF OwnerInv, Tasks
<1>3. ASSUME NEW c \in Callers, CallCommand(c) PROVE LinesInv'
  BY <1>2, <1>3, LinesKept DEF CallCommand, Acquire, linkVars
<1>4. ASSUME NEW q \in Queries, QueryWake(q) PROVE LinesInv'
  BY <1>2, <1>4, LinesKept DEF QueryWake, Acquire, linkVars
<1>5. ASSUME NEW t \in Senders, CommandStep(t) PROVE LinesInv'
  <2>1. CASE WriteFails(t)
    BY <1>1, <2>1, LinesKept DEF WriteFails, linkVars, Tasks, Senders
  <2>2. CASE Write(t)
    BY <2>2, WriteLines
  <2>3. CASE Finish(t) \/ Timeout(t)
    BY <2>3, LinesDropped DEF Finish, Timeout
  <2>4. QED BY <1>5, <2>1, <2>2, <2>3 DEF CommandStep
<1>6. ASSUME NEW c \in Callers, CancelWaiting(c) PROVE LinesInv'
  BY <1>1, <1>6, LinesKept DEF CancelWaiting, LeaveLock, linkVars, Tasks
<1>7. ASSUME NEW c \in Callers, CancelSent(c) PROVE LinesInv'
  BY <1>7, LinesDropped DEF CancelSent
<1>8. ASSUME NEW q \in Queries, EndQuery(q) PROVE LinesInv'
  <2>1. CASE DropReply
    BY <2>1, LinesDropped
  <2>2. CASE holder # q /\ UNCHANGED <<reply, toDevice, fromDevice>>
    BY <1>8, <2>2, LinesKept DEF EndQuery, LeaveLock
  <2>3. QED BY <1>8, <2>1, <2>2 DEF EndQuery
<1>9. ASSUME NEW i \in Installers, CallInstall(i) PROVE LinesInv'
  BY <1>2, <1>9, LinesKept DEF CallInstall, Acquire, linkVars
<1>10. ASSUME NEW i \in Installers, InstallStep(i) PROVE LinesInv'
  <2>1. CASE InstallCloses(i)
    BY <2>1, LinesKept DEF InstallCloses, linkVars
  <2>2. CASE StartFlash(i)
    BY <2>2, LinesClosed DEF StartFlash
  <2>3. CASE FlashEnds(i)
    <3>1. (\A i_1 : ~Live(toDevice', i_1)) /\ (\A i_1 : ~Live(fromDevice', i_1))
      BY <2>3 DEF FlashEnds, Live
    <3>2. QED BY <2>3, <3>1 DEF FlashEnds, LinesInv, hubVars
  <2>4. CASE EndFlash(i)
    BY <1>19, <2>4, LinesKept DEF EndFlash, EndInstall, linkVars
  <2>5. QED BY <1>10, <2>1, <2>2, <2>3, <2>4 DEF InstallStep
<1>18. ASSUME NEW i \in Installers, CancelStep(i) PROVE LinesInv'
  <2>1. CASE CancelInstall(i)
    BY <1>1, <2>1, LinesKept DEF CancelInstall, LeaveLock, linkVars, Tasks
  <2>2. CASE CancelClosing(i)
    BY <1>19, <2>2, LinesKept DEF CancelClosing, linkVars
  <2>3. CASE CancelFlash(i)
    BY <1>19, <2>3, LinesKept DEF CancelFlash, EndInstall, linkVars
  <2>4. QED BY <1>18, <2>1, <2>2, <2>3 DEF CancelStep
<1>11. ASSUME RunStep PROVE LinesInv'
  <2>1. CASE HandleLine
    BY <2>1, HandleLineLines
  <2>2. CASE LoseConnection
    BY <2>2, LinesClosed DEF LoseConnection
  <2>3. CASE EndRun
    BY <2>3, LinesKept DEF EndRun, linkVars
  <2>4. QED BY <1>11, <2>1, <2>2, <2>3 DEF RunStep
<1>12. CASE Connect
  <2>1. \A i : ~Live(fromDevice', i)
    BY <1>12 DEF Connect, Live
  <2>2. \A i : Live(toDevice', i) <=> Live(toDevice, i)
    BY <1>12 DEF Connect, Live
  <2>3. QED BY <1>12, <2>1, <2>2 DEF Connect, LinesInv
<1>13. CASE Unload
  BY <1>13, LinesKept DEF Unload, linkVars
<1>14. CASE EndUnload
  BY <1>14, LinesClosed DEF EndUnload
<1>15. CASE DeviceStep \/ DeviceRestart
  BY <1>15, DeviceLines
<1>16. CASE Unplug \/ UNCHANGED vars
  BY <1>16, LinesKept DEF Unplug, hubVars, linkVars, vars
<1>17. QED
  BY <1>3, <1>4, <1>5, <1>6, <1>7, <1>8, <1>9, <1>10, <1>11, <1>12, <1>13, <1>14, <1>15, <1>16,
     <1>18
  DEF Next, CallerStep, QueryStep, Senders

-----------------------------------------------------------------------------
(* The run task and the port.                                               *)

PortInv == PendingHasConnection /\ FlashHasPort /\ RunAlive

LEMMA PortInit == Init => PortInv
  BY HubAssumption, FutureAssumption DEF Init, PortInv, PendingHasConnection, FlashHasPort, RunAlive,
     Tasks

LEMMA PortNext == TypeOK /\ OwnerInv /\ PortInv /\ [Next]_vars => PortInv'
<1> SUFFICES ASSUME TypeOK, OwnerInv, PortInv, [Next]_vars PROVE PortInv'
  OBVIOUS
<1> USE HubAssumption, FutureAssumption
    DEF Goto, PortInv, PendingHasConnection, FlashHasPort, RunAlive, Installing, TypeOK, Tasks, Senders,
        flashVars
<1>1. ASSUME NEW c \in Callers, CallCommand(c) PROVE PortInv'
  BY <1>1 DEF CallCommand
<1>2. ASSUME NEW q \in Queries, QueryWake(q) PROVE PortInv'
  BY <1>2 DEF QueryWake
<1>3. ASSUME NEW t \in Senders, CommandStep(t) PROVE PortInv'
  <2>1. CASE WriteFails(t)
    BY <2>1 DEF WriteFails
  <2>2. CASE Write(t)
    BY <2>2 DEF Write
  <2>3. CASE Finish(t)
    BY <2>3 DEF Finish, DropReply
  <2>4. CASE Timeout(t)
    BY <2>4 DEF Timeout, DropReply
  <2>5. QED BY <1>3, <2>1, <2>2, <2>3, <2>4 DEF CommandStep
<1>4. ASSUME NEW c \in Callers, CancelWaiting(c) PROVE PortInv'
  BY <1>4 DEF CancelWaiting
<1>5. ASSUME NEW c \in Callers, CancelSent(c) PROVE PortInv'
  BY <1>5 DEF CancelSent, DropReply
<1>6. ASSUME NEW q \in Queries, EndQuery(q) PROVE PortInv'
  BY <1>6 DEF EndQuery, DropReply
<1>7. ASSUME NEW i \in Installers, CallInstall(i) PROVE PortInv'
  BY <1>7 DEF CallInstall
<1>8. ASSUME NEW i \in Installers, InstallStep(i) PROVE PortInv'
  <2>1. CASE InstallCloses(i)
    BY <2>1 DEF InstallCloses, CancelTasks, OwnerInv
  <2>2. CASE StartFlash(i)
    BY <2>2 DEF StartFlash, TasksEnded, Close, FailedReply, OwnerInv
  <2>3. CASE FlashEnds(i)
    BY <2>3 DEF FlashEnds, hubVars
  <2>4. CASE EndFlash(i)
    BY <2>4 DEF EndFlash, EndInstall, Started, OwnerInv
  <2>5. QED BY <1>8, <2>1, <2>2, <2>3, <2>4 DEF InstallStep
<1>15. ASSUME NEW i \in Installers, CancelStep(i) PROVE PortInv'
  <2>1. CASE CancelInstall(i)
    BY <2>1 DEF CancelInstall, LeaveLock, Release
  <2>2. CASE CancelClosing(i)
    BY <2>2 DEF CancelClosing, Release
  <2>3. CASE CancelFlash(i)
    BY <2>3 DEF CancelFlash, EndInstall, Started, OwnerInv
  <2>4. QED BY <1>15, <2>1, <2>2, <2>3 DEF CancelStep
<1>9. ASSUME RunStep PROVE PortInv'
  <2>1. CASE HandleLine
    <3>1. Head(fromDevice) \in Line
      BY <2>1, HeadTailProperties DEF HandleLine
    <3>2. reply' = Pending => reply = Pending
      BY <2>1, <3>1 DEF HandleLine, Answered
    <3>3. QED BY <2>1, <3>2 DEF HandleLine
  <2>2. CASE LoseConnection
    BY <2>2 DEF LoseConnection, Close, FailedReply
  <2>3. CASE EndRun
    BY <2>3 DEF EndRun
  <2>4. QED BY <1>9, <2>1, <2>2, <2>3 DEF RunStep
<1>10. CASE Connect
  BY <1>10 DEF Connect
<1>11. CASE Unload
  BY <1>11 DEF Unload, CancelTasks
<1>12. CASE EndUnload
  BY <1>12 DEF EndUnload, TasksEnded, Close, FailedReply
<1>13. CASE DeviceStep \/ Unplug \/ DeviceRestart \/ UNCHANGED vars
  BY <1>13 DEF DeviceStep, DeviceHandle, DeviceMisses, Unplug, DeviceRestart, hubVars, vars
<1>14. QED
  BY <1>1, <1>2, <1>3, <1>4, <1>5, <1>6, <1>7, <1>8, <1>9, <1>10, <1>11, <1>12, <1>13, <1>15
  DEF Next, CallerStep, QueryStep

-----------------------------------------------------------------------------
(* Which version a line tells.                                              *)

\* A ready message, or an answer to V, tells the firmware that runs.
Tells(line) ==
  /\ line.task = NoTask => line.text = deviceVersion
  /\ line.task \in Queries => VersionIn(line) = deviceVersion

VersionInv ==
  /\ \A i \in 1..Len(fromDevice) : Tells(fromDevice[i])
  /\ reply \in Line => reply.task # NoTask /\ Tells(reply)
  /\ conn = "closed" => fromDevice = <<>>

LEMMA VersionInit == Init => VersionInv
<1> SUFFICES ASSUME Init PROVE VersionInv
  OBVIOUS
<1>1. Tells(Ready(deviceVersion))
  BY HubAssumption DEF Tells, Ready, Tasks
<1>2. \A i \in 1..Len(fromDevice) : Tells(fromDevice[i])
  <2>1. CASE fromDevice = <<>>
    BY <2>1
  <2>2. CASE fromDevice = <<Ready(deviceVersion)>>
    BY <1>1, <2>2
  <2>3. QED BY <2>1, <2>2 DEF Init
<1>3. QED BY <1>2, FutureAssumption DEF Init, VersionInv

LEMMA VersionDropped ==
  ASSUME TypeOK, VersionInv, DropReply, UNCHANGED <<conn, deviceVersion>>
  PROVE  VersionInv'
<1>1. /\ Outdated(fromDevice) \in Seq(Line)
      /\ Len(fromDevice') = Len(fromDevice)
      /\ \A i \in 1..Len(fromDevice) : fromDevice'[i] = [fromDevice[i] EXCEPT !.state = "over"]
  BY OutdatedLines DEF DropReply, TypeOK
<1>2. ASSUME NEW i \in 1..Len(fromDevice') PROVE Tells(fromDevice[i])'
  <2>1. fromDevice[i] \in Line
    BY <1>1, ElementOfSeq DEF TypeOK
  <2>2. /\ fromDevice'[i].task = fromDevice[i].task
        /\ fromDevice'[i].text = fromDevice[i].text
        /\ fromDevice'[i].verdict = fromDevice[i].verdict
    <3>1. fromDevice'[i] = [fromDevice[i] EXCEPT !.state = "over"]
      BY <1>1
    <3>2. QED BY <2>1, <3>1 DEF Line
  <2>3. Tells(fromDevice[i])
    BY <1>1 DEF VersionInv
  <2>4. QED BY <2>2, <2>3 DEF Tells, VersionIn
<1>3. conn' = "closed" => fromDevice' = <<>>
  <2> SUFFICES ASSUME conn = "closed" PROVE fromDevice' = <<>>
    OBVIOUS
  <2>1. Len(fromDevice') = 0
    BY <1>1, EmptySeq DEF VersionInv, TypeOK
  <2>2. QED BY <1>1, <2>1, EmptySeq DEF DropReply
<1>4. reply' \notin Line
  BY FutureAssumption DEF DropReply
<1>5. QED BY <1>2, <1>3, <1>4 DEF VersionInv

LEMMA VersionClosed ==
  ASSUME VersionInv, Close, UNCHANGED deviceVersion
  PROVE  VersionInv'
<1>1. reply' \in Line => reply' = reply
  BY FutureAssumption DEF Close, FailedReply
<1>2. QED BY <1>1 DEF VersionInv, Close, Tells

LEMMA VersionAppended ==
  ASSUME TypeOK, VersionInv, NEW line \in Line, Tells(line), conn = "open",
         fromDevice' = Append(fromDevice, line), UNCHANGED <<conn, reply, deviceVersion>>
  PROVE  VersionInv'
<1>1. Len(fromDevice) \in Nat /\ fromDevice \in Seq(Line)
  BY LenProperties DEF TypeOK
<1>2. /\ Len(fromDevice') = Len(fromDevice) + 1
      /\ \A i \in 1..Len(fromDevice) : fromDevice'[i] = fromDevice[i]
      /\ fromDevice'[Len(fromDevice) + 1] = line
  BY <1>1, AppendProperties
<1>3. ASSUME NEW i \in 1..Len(fromDevice') PROVE Tells(fromDevice'[i])
  <2>1. CASE i \in 1..Len(fromDevice)
    BY <1>2, <2>1 DEF VersionInv
  <2>2. CASE i = Len(fromDevice) + 1
    BY <1>2, <2>2
  <2>3. QED BY <1>1, <1>2, <2>1, <2>2
<1>4. QED BY <1>3 DEF VersionInv, Tells

LEMMA VersionNext == TypeOK /\ OwnerInv /\ PortInv /\ VersionInv /\ [Next]_vars => VersionInv'
<1> SUFFICES ASSUME TypeOK, OwnerInv, PortInv, VersionInv, [Next]_vars PROVE VersionInv'
  OBVIOUS
<1>0. ASSUME UNCHANGED <<fromDevice, reply, conn, deviceVersion>> PROVE VersionInv'
  BY <1>0 DEF VersionInv, Tells
<1>1. ASSUME NEW c \in Callers, CallerStep(c) PROVE VersionInv'
  <2>1. CASE CallCommand(c) \/ CancelWaiting(c)
    BY <1>0, <2>1 DEF CallCommand, CancelWaiting, linkVars
  <2>2. CASE CommandStep(c)
    <3>1. CASE WriteFails(c)
      BY <1>0, <3>1 DEF WriteFails, linkVars
    <3>2. CASE Write(c)
      BY <3>2, FutureAssumption DEF Write, VersionInv, Tells
    <3>3. CASE Finish(c) \/ Timeout(c)
      BY <3>3, VersionDropped DEF Finish, Timeout
    <3>4. QED BY <2>2, <3>1, <3>2, <3>3 DEF CommandStep
  <2>3. CASE CancelSent(c)
    BY <2>3, VersionDropped DEF CancelSent
  <2>4. QED BY <1>1, <2>1, <2>2, <2>3 DEF CallerStep
<1>2. ASSUME NEW q \in Queries, QueryStep(q) PROVE VersionInv'
  <2>1. CASE QueryWake(q)
    BY <1>0, <2>1 DEF QueryWake, linkVars
  <2>2. CASE CommandStep(q)
    <3>1. CASE WriteFails(q)
      BY <1>0, <3>1 DEF WriteFails, linkVars
    <3>2. CASE Write(q)
      BY <3>2, FutureAssumption DEF Write, VersionInv, Tells
    <3>3. CASE Finish(q) \/ Timeout(q)
      BY <3>3, VersionDropped DEF Finish, Timeout
    <3>4. QED BY <2>2, <3>1, <3>2, <3>3 DEF CommandStep
  <2>3. CASE EndQuery(q)
    <3>1. CASE DropReply
      BY <2>3, <3>1, VersionDropped DEF EndQuery
    <3>2. CASE UNCHANGED <<reply, toDevice, fromDevice>>
      BY <1>0, <2>3, <3>2 DEF EndQuery
    <3>3. QED BY <2>3, <3>1, <3>2 DEF EndQuery
  <2>4. QED BY <1>2, <2>1, <2>2, <2>3 DEF QueryStep
<1>3. ASSUME NEW i \in Installers, CallInstall(i) PROVE VersionInv'
  BY <1>0, <1>3 DEF CallInstall, linkVars
<1>4. ASSUME NEW i \in Installers, InstallStep(i) PROVE VersionInv'
  <2>1. CASE InstallCloses(i)
    BY <1>0, <2>1 DEF InstallCloses, linkVars
  <2>2. CASE StartFlash(i)
    BY <2>2, VersionClosed DEF StartFlash
  <2>3. CASE FlashEnds(i)
    BY <2>3 DEF FlashEnds, VersionInv, hubVars
  <2>4. CASE EndFlash(i)
    BY <1>0, <2>4 DEF EndFlash, EndInstall, linkVars
  <2>5. QED BY <1>4, <2>1, <2>2, <2>3, <2>4 DEF InstallStep
<1>13. ASSUME NEW i \in Installers, CancelStep(i) PROVE VersionInv'
  BY <1>0, <1>13 DEF CancelStep, CancelInstall, CancelClosing, CancelFlash, EndInstall, linkVars
<1>5. ASSUME RunStep PROVE VersionInv'
  <2>1. CASE HandleLine
    <3>1. /\ Head(fromDevice) = fromDevice[1] /\ 1 \in 1..Len(fromDevice)
          /\ Len(fromDevice) \in Nat
      BY <2>1, EmptySeq, LenProperties DEF HandleLine, TypeOK
    <3>2. /\ Len(fromDevice') = Len(fromDevice) - 1
          /\ \A i \in 1..Len(fromDevice') : fromDevice'[i] = fromDevice[i + 1]
      BY <2>1, HeadTailProperties DEF HandleLine, TypeOK
    <3>3. ASSUME NEW i \in 1..Len(fromDevice') PROVE Tells(fromDevice'[i])
      <4>1. i + 1 \in 1..Len(fromDevice)
        BY <3>1, <3>2
      <4>2. QED BY <3>2, <4>1 DEF VersionInv
    <3>4. \/ reply' = reply
          \/ reply' = fromDevice[1] /\ fromDevice[1].task # NoTask
      BY <2>1, <3>1 DEF HandleLine, Answered
    <3>5. reply' \in Line => reply'.task # NoTask /\ Tells(reply')
      BY <3>1, <3>4 DEF VersionInv
    <3>6. conn' # "closed"
      BY <2>1 DEF HandleLine, VersionInv
    <3>7. deviceVersion' = deviceVersion
      BY <2>1 DEF HandleLine
    <3>8. QED BY <3>3, <3>5, <3>6, <3>7 DEF VersionInv, Tells
  <2>2. CASE LoseConnection
    BY <2>2, VersionClosed DEF LoseConnection
  <2>3. CASE EndRun
    BY <1>0, <2>3 DEF EndRun, linkVars
  <2>4. QED BY <1>5, <2>1, <2>2, <2>3 DEF RunStep
<1>6. CASE Connect
  BY <1>6 DEF Connect, VersionInv, Tells
<1>7. CASE Unload
  BY <1>0, <1>7 DEF Unload, linkVars
<1>8. CASE EndUnload
  BY <1>8, VersionClosed DEF EndUnload
<1>9. CASE DeviceHandle
  <2>1. CASE fromDevice' = fromDevice
    BY <1>0, <1>9, <2>1 DEF DeviceHandle, hubVars
  <2>2. CASE conn = "open" /\ link = "up"
    <3>1. PICK v \in {"OK", "BAD"} : fromDevice' = Append(fromDevice, AnswerTo(Head(toDevice), v))
      BY <1>9, <2>2 DEF DeviceHandle
    <3>2. Head(toDevice) \in Command
      BY <1>9, HeadTailProperties DEF DeviceHandle, TypeOK
    <3> DEFINE line == AnswerTo(Head(toDevice), v)
    <3>3. line \in Line
      BY <3>2 DEF AnswerTo, Command, Line, TypeOK
    <3>4. Tells(line)
      BY <3>2, HubAssumption DEF AnswerTo, Tells, VersionIn, Command, Senders, Tasks, TypeOK
    <3>5. fromDevice' = Append(fromDevice, line) /\ UNCHANGED <<conn, reply, deviceVersion>>
      BY <1>9, <3>1 DEF DeviceHandle, hubVars
    <3> HIDE DEF line
    <3>6. QED BY <2>2, <3>3, <3>4, <3>5, VersionAppended
  <2>3. QED BY <1>9, <2>1, <2>2 DEF DeviceHandle
<1>10. CASE DeviceMisses \/ Unplug \/ UNCHANGED vars
  BY <1>0, <1>10 DEF DeviceMisses, Unplug, hubVars, linkVars, vars
<1>11. CASE DeviceRestart
  <2>1. Ready(deviceVersion) \in Line /\ Tells(Ready(deviceVersion))
    BY HubAssumption DEF Ready, Line, Tells, TypeOK, Tasks
  <2>2. CASE fromDevice' = fromDevice
    BY <1>0, <1>11, <2>2 DEF DeviceRestart, hubVars
  <2>3. CASE conn = "open" /\ fromDevice' = Append(fromDevice, Ready(deviceVersion))
    BY <1>11, <2>1, <2>3, VersionAppended DEF DeviceRestart, hubVars
  <2>4. QED BY <1>11, <2>2, <2>3 DEF DeviceRestart
<1>12. QED
  BY <1>1, <1>2, <1>3, <1>4, <1>5, <1>6, <1>7, <1>8, <1>9, <1>10, <1>11, <1>13
  DEF Next, DeviceStep

-----------------------------------------------------------------------------
(* The theorems.                                                            *)

HubInv == TypeOK /\ OwnerInv /\ LinesInv /\ PortInv /\ VersionInv

LEMMA HubInvariant == Spec => []HubInv
<1>1. Init => HubInv
  BY TypeInit, OwnerInit, LinesInit, PortInit, VersionInit DEF HubInv
<1>2. HubInv /\ [Next]_vars => HubInv'
  BY TypeNext, OwnerNext, LinesNext, PortNext, VersionNext DEF HubInv
<1>3. QED BY <1>1, <1>2, PTL DEF Spec

LEMMA InFlightLive ==
  ASSUME TypeOK, NEW i \in LiveCommands
  PROVE  \/ Live(toDevice, i) /\ InFlight[i] = toDevice[i]
         \/ /\ Live(fromDevice, i - Len(toDevice)) /\ InFlight[i] = fromDevice[i - Len(toDevice)]
            /\ i \in Int
<1>1. Command \subseteq Command \union Line /\ Line \subseteq Command \union Line
  OBVIOUS
<1>2. toDevice \in Seq(Command \union Line) /\ fromDevice \in Seq(Command \union Line)
  BY <1>1, SeqMonotonic DEF TypeOK
<1>3. /\ Len(InFlight) = Len(toDevice) + Len(fromDevice)
      /\ \A k \in 1..Len(InFlight) :
           InFlight[k] = IF k <= Len(toDevice) THEN toDevice[k] ELSE fromDevice[k - Len(toDevice)]
  BY <1>2, ConcatProperties DEF InFlight
<1>4. Len(toDevice) \in Nat /\ Len(fromDevice) \in Nat
  BY LenProperties DEF TypeOK
<1>5. i \in 1..Len(InFlight) /\ InFlight[i].state = "live" /\ i \in Int
  BY <1>3, <1>4 DEF LiveCommands
<1>6. CASE i <= Len(toDevice)
  <2>1. InFlight[i] = toDevice[i] /\ i \in 1..Len(toDevice)
    BY <1>3, <1>4, <1>5, <1>6
  <2>2. QED BY <1>5, <2>1 DEF Live
<1>7. CASE ~(i <= Len(toDevice))
  <2>1. InFlight[i] = fromDevice[i - Len(toDevice)] /\ i - Len(toDevice) \in 1..Len(fromDevice)
    BY <1>3, <1>4, <1>5, <1>7
  <2>2. QED BY <1>5, <2>1 DEF Live
<1>8. QED BY <1>6, <1>7

LEMMA InvSequential == TypeOK /\ LinesInv => StrictlySequential
<1> SUFFICES ASSUME TypeOK, LinesInv PROVE StrictlySequential
  OBVIOUS
<1>1. ASSUME NEW i \in LiveCommands, NEW j \in LiveCommands PROVE i = j
  <2>1. CASE Live(toDevice, i) /\ Live(toDevice, j)
    BY <2>1 DEF LinesInv
  <2>2. CASE ~Live(toDevice, i) /\ ~Live(toDevice, j)
    <3>1. /\ Live(fromDevice, i - Len(toDevice)) /\ i \in Int
          /\ Live(fromDevice, j - Len(toDevice)) /\ j \in Int
      BY <2>2, InFlightLive
    <3>2. i - Len(toDevice) = j - Len(toDevice)
      BY <3>1 DEF LinesInv
    <3>3. Len(toDevice) \in Nat
      BY LenProperties DEF TypeOK
    <3>4. QED BY <3>1, <3>2, <3>3
  <2>3. QED BY <2>1, <2>2, InFlightLive DEF LinesInv
<1>2. ASSUME NEW i \in LiveCommands PROVE InFlight[i].task = holder /\ reply # NoFuture
  BY InFlightLive DEF LinesInv
<1>3. QED BY <1>1, <1>2 DEF StrictlySequential

\* However many callers there are, at most one command is waiting for an answer on the line, and
\* its task owns the lock.
THEOREM CommandsAreSequential == Spec => []StrictlySequential
<1>1. HubInv => StrictlySequential
  BY InvSequential DEF HubInv
<1>2. QED BY <1>1, HubInvariant, PTL

\* The answer to a command that is still waited for goes to the task that sent it.
THEOREM AnswersMatch == Spec => []AckMatches
<1>1. HubInv => AckMatches
  BY FutureAssumption DEF HubInv, LinesInv, OwnerInv, AckMatches
<1>2. QED BY <1>1, HubInvariant, PTL

\* No reply is awaited on a connection that is closed.
THEOREM NoAnswerWithoutConnection == Spec => []PendingHasConnection
<1>1. HubInv => PendingHasConnection
  BY DEF HubInv, PortInv
<1>2. QED BY <1>1, HubInvariant, PTL

\* The hub stays off the port as long as an installer waits for its flasher, unloads and other
\* installs, cancelled ones included.  It does not for one whose installer left before it ended.
THEOREM FlasherIsAlone == Spec => []FlashHasPort
<1>1. HubInv => FlashHasPort
  BY DEF HubInv, PortInv
<1>2. QED BY <1>1, HubInvariant, PTL

\* A loaded entry has its run task after any number of installs that succeeded, failed or were
\* cancelled while they waited for the lock or flashed.  After one that was cancelled in async_close
\* it may have none.
THEOREM RunTaskLives == Spec => []RunAlive
<1>1. HubInv => RunAlive
  BY DEF HubInv, PortInv
<1>2. QED BY <1>1, HubInvariant, PTL

LEMMA VersionStepHolds == HubInv /\ [Next]_vars => [VersionStep]_vars
<1> SUFFICES ASSUME HubInv, [Next]_vars, version' # version, version' # NoText
             PROVE  version' = deviceVersion \/ (reply \in Line /\ reply.task \in Callers)
  BY DEF VersionStep
<1>1. ASSUME NEW t \in Senders, Finish(t)
      PROVE  version' = deviceVersion \/ (reply \in Line /\ reply.task \in Callers)
  <2>1. t \in Queries /\ reply \in Line /\ version' = VersionIn(reply)
    BY <1>1 DEF Finish, HubInv, TypeOK
  <2>2. reply.task \in Senders
    BY <2>1 DEF Line, HubInv, VersionInv
  <2>3. QED BY <2>1, <2>2 DEF HubInv, VersionInv, Tells, Senders
<1>2. ASSUME HandleLine PROVE version' = deviceVersion
  <2>1. Head(fromDevice) = fromDevice[1] /\ 1 \in 1..Len(fromDevice)
    BY <1>2, EmptySeq, LenProperties DEF HandleLine, HubInv, TypeOK
  <2>2. version' = fromDevice[1].text /\ fromDevice[1].task = NoTask
    BY <1>2, <2>1 DEF HandleLine
  <2>3. QED BY <2>1, <2>2 DEF HubInv, VersionInv, Tells
<1>3. (\E t \in Senders : Finish(t)) \/ HandleLine
  <2>1. ASSUME NEW c \in Callers, CallerStep(c) PROVE \E t \in Senders : Finish(t)
    BY <2>1 DEF CallerStep, CommandStep, CallCommand, WriteFails, Write, Timeout, CancelWaiting,
                CancelSent, Senders
  <2>2. ASSUME NEW q \in Queries, QueryStep(q) PROVE \E t \in Senders : Finish(t)
    BY <2>2 DEF QueryStep, CommandStep, QueryWake, EndQuery, WriteFails, Write, Timeout, Senders
  <2>3. ASSUME NEW i \in Installers PROVE ~CallInstall(i) /\ ~InstallStep(i) /\ ~CancelStep(i)
    BY DEF CallInstall, InstallStep, InstallCloses, StartFlash, FlashEnds, EndFlash, EndInstall,
           CancelStep, CancelInstall, CancelClosing, CancelFlash, hubVars
  <2>4. RunStep => HandleLine
    BY DEF RunStep, LoseConnection, EndRun
  <2>5. ~Connect /\ ~Unload /\ ~EndUnload /\ ~Unplug /\ ~DeviceStep /\ ~DeviceRestart
    BY DEF Connect, Unload, EndUnload, Unplug, DeviceStep, DeviceHandle, DeviceMisses,
           DeviceRestart, hubVars
  <2>6. ~UNCHANGED vars
    BY DEF vars, hubVars
  <2>7. QED BY <2>1, <2>2, <2>3, <2>4, <2>5, <2>6 DEF Next
<1>4. QED BY <1>1, <1>2, <1>3

\* The hub shows no version but that of the firmware that runs, for any versions, unless a user's
\* answer was taken for one.
THEOREM VersionIsRight == Spec => VersionIsReported
  BY HubInvariant, VersionStepHolds, PTL DEF Spec, VersionIsReported
=============================================================================
