--------------------------------- MODULE Hub ---------------------------------
(***************************************************************************)
(* The hub of the Home Assistant integration: one serial connection to a   *)
(* CC1101Duino, shared by                                                  *)
(*   - the run task, which reads lines and reconnects (async_run),         *)
(*   - the callers of _async_command, one command at a time,               *)
(*   - a version task per connection (_async_query_version),               *)
(*   - the firmware installers (async_install_firmware), and               *)
(*   - the unloading of the config entry (async_close).                    *)
(* All of them are coroutines of one asyncio event loop, so an action is   *)
(* what a coroutine does from one await to the next.  The three delays of  *)
(* the code (version query, command timeout, reconnect) are steps that may *)
(* come at any moment.  The model starts where async_setup_entry ends.     *)
(*                                                                         *)
(* The device is the firmware's command loop as the hub sees it: it        *)
(* handles one line after the other, answers each, loses one now and then, *)
(* and restarts whenever it likes.                                         *)
(***************************************************************************)
EXTENDS Naturals, Sequences, SequencesExt

CONSTANTS
  Callers,     \* coroutines that send a user's command
  Queries,     \* version tasks that may be alive at once
  Installers,  \* calls of async_install_firmware that may be alive at once
  Versions,    \* firmware versions a device can report
  Bundled,     \* the version of the bundled firmware
  Legacy,      \* what the hub shows for firmware that predates versions
  Done,        \* the text of "OK Done"
  NoText,      \* no version known; the text of a "BAD ..." reply
  NoTask,
  NoFuture, Pending, Lost,  \* states of _reply without an answer
  MaxLines     \* bound: lines in flight in each direction

Tasks == Callers \union Queries \union Installers
Senders == Callers \union Queries  \* the tasks that run _async_command

ASSUME HubAssumption ==
  /\ Bundled \in Versions
  /\ {Legacy, Done, NoText} \intersect Versions = {}
  /\ Legacy # Done /\ Legacy # NoText /\ Done # NoText
  /\ NoTask \notin Tasks
  /\ Callers \intersect Queries = {}
  /\ Callers \intersect Installers = {}
  /\ Queries \intersect Installers = {}
  /\ MaxLines \in Nat \ {0}

\* A line on its way to the device, and one on its way back.  `state` is a history flag:
\* whether the command the line belongs to is still waiting, or over.  A ready message is a line of no task.
Command == [task : Senders, state : {"live", "over"}]
Line == [task : Senders \union {NoTask}, state : {"live", "over"},
         verdict : {"OK", "BAD"}, text : Versions \union {Legacy, Done, NoText}]

ASSUME FutureAssumption == /\ NoFuture # Pending /\ NoFuture # Lost /\ Pending # Lost
                           /\ {NoFuture, Pending, Lost} \intersect Line = {}

VARIABLES
  entry,          \* the config entry: loaded, unloading, unloaded
  pc,             \* where each task waits
  run,            \* the run task: none, connecting, reading, cancelled
  query,          \* _version_task: the latest version task
  conn,           \* open: _reader and _writer are set, and `connected`; or closed
  version,        \* firmware_version
  reply,          \* _reply: NoFuture, Pending, Lost, or the line that answered it
  holder,         \* the task that owns _send_lock
  waiters,        \* the tasks waiting for _send_lock, in order
  link,           \* up: the port is open and works; or down
  toDevice,       \* commands written and not handled
  fromDevice,     \* lines printed and not read
  deviceVersion,  \* the firmware on the device; Legacy if it has no V command
  flashing,       \* the installers whose executor thread flashes, awaited or not
  pause           \* history: "cut" if the last install that closed was cancelled before it could start
                  \* the run task again

hubVars == <<entry, pc, run, query, conn, version, reply, holder, waiters>>
linkVars == <<link, toDevice, fromDevice, deviceVersion>>
flashVars == <<flashing, pause>>
vars == <<hubVars, linkVars, flashVars>>

\* A task of _async_command that is over may run again: the next call, the next connection.
States == {"idle", "delay", "command", "reply", "cancelled", "install", "closing", "flashing"}

TypeOK ==
  /\ entry \in {"loaded", "unloading", "unloaded"}
  /\ pc \in [Tasks -> States]
  /\ run \in {"none", "connecting", "reading", "cancelled"}
  /\ query \in Queries \union {NoTask}
  /\ conn \in {"open", "closed"} /\ link \in {"up", "down"}
  /\ version \in Versions \union {Legacy, Done, NoText}
  /\ reply \in {NoFuture, Pending, Lost} \union Line
  /\ holder \in Tasks \union {NoTask}
  /\ waiters \in Seq(Tasks)
  /\ toDevice \in Seq(Command)
  /\ fromDevice \in Seq(Line)
  /\ deviceVersion \in Versions \union {Legacy}
  /\ flashing \subseteq Installers
  /\ pause \in {"resumed", "cut"}

Ready(v) == [task |-> NoTask, state |-> "over", verdict |-> "OK", text |-> v]

\* Set up and started: connected, version not known yet and its query sleeping.
Init ==
  /\ entry = "loaded" /\ run = "reading" /\ conn = "open" /\ link = "up"
  /\ query \in Queries
  /\ pc = [t \in Tasks |-> IF t = query THEN "delay" ELSE "idle"]
  /\ version = NoText
  /\ reply = NoFuture
  /\ holder = NoTask /\ waiters = <<>>
  /\ toDevice = <<>>
  /\ deviceVersion \in Versions \union {Legacy}
  /\ fromDevice \in {<<>>, <<Ready(deviceVersion)>>}
  /\ flashing = {} /\ pause = "resumed"

-----------------------------------------------------------------------------
(* The lock, the pending reply and the history flag.                        *)

Goto(t, s) == pc' = [pc EXCEPT ![t] = s]

\* Variant: a caller does not wait for the one before it.
AcquireUnlocked(t) == holder' = t /\ UNCHANGED waiters

\* asyncio.Lock is fair: a newcomer waits behind those already waiting.
Acquire(t) ==
  IF holder = NoTask
    THEN holder' = t /\ UNCHANGED waiters
    ELSE waiters' = Append(waiters, t) /\ UNCHANGED holder

\* Variant: the lock is freed and nobody is woken.
ReleaseSilently == holder' = NoTask /\ UNCHANGED waiters

Release ==
  IF waiters = <<>>
    THEN holder' = NoTask /\ UNCHANGED waiters
    ELSE holder' = Head(waiters) /\ waiters' = Tail(waiters)

\* Every line in flight belongs to a command that is over.
Outdated(lines) == [i \in 1..Len(lines) |-> [lines[i] EXCEPT !.state = "over"]]

\* _async_command leaves its try block: no reply is expected any more.
DropReply ==
  /\ reply' = NoFuture
  /\ toDevice' = Outdated(toDevice)
  /\ fromDevice' = Outdated(fromDevice)

\* Variant: whoever waits is left to its timeout.
ReplyLeft(r) == r

\* What _close makes of the pending reply.
FailedReply(r) == IF r = Pending THEN Lost ELSE r

\* _close; `lines` are what was printed before and is lost with the open port.
Close ==
  /\ conn' = "closed" /\ link' = "down"
  /\ reply' = FailedReply(reply)
  /\ fromDevice' = <<>>

-----------------------------------------------------------------------------
(* _async_command, by a caller or by a version task.                        *)

\* A service call or an entity sends a command; both need a loaded entry.
CallCommand(c) ==
  /\ entry = "loaded" /\ pc[c] = "idle"
  /\ Acquire(c) /\ Goto(c, "command")
  /\ UNCHANGED <<entry, run, query, conn, version, reply, linkVars, flashVars>>

\* The version task wakes up, and asks only if no ready message came meanwhile.
QueryWake(q) ==
  /\ pc[q] = "delay"
  /\ IF version # NoText
       THEN Goto(q, "idle") /\ UNCHANGED <<holder, waiters>>
       ELSE Goto(q, "command") /\ Acquire(q)
  /\ UNCHANGED <<entry, run, query, conn, version, reply, linkVars, flashVars>>

\* The lock is held but there is no connection, or writing to a broken one raises.
WriteFails(t) ==
  /\ pc[t] = "command" /\ holder = t
  /\ conn = "closed" \/ link = "down"
  /\ Goto(t, "idle") /\ Release
  /\ UNCHANGED <<entry, run, query, conn, version, reply, linkVars, flashVars>>

Write(t) ==
  /\ pc[t] = "command" /\ holder = t
  /\ conn = "open" /\ link = "up"
  /\ Len(toDevice) < MaxLines
  /\ reply' = Pending
  /\ toDevice' = Append(toDevice, [task |-> t, state |-> "live"])
  /\ Goto(t, "reply")
  /\ UNCHANGED <<entry, run, query, conn, version, holder, waiters, link, fromDevice, deviceVersion, flashVars>>

\* Variant: the reply is kept as it came.
VersionLine(line) == line

\* Variant: the two cases swapped.
VersionSwapped(line) == IF line.verdict = "OK" THEN Legacy ELSE line.text

\* "OK <version>", or the "BAD Unknown command" of firmware that predates versions.
VersionIn(line) == IF line.verdict = "OK" THEN line.text ELSE Legacy

\* The task resumes with an answer or with the loss of the connection.
Finish(t) ==
  /\ pc[t] = "reply" /\ reply \notin {NoFuture, Pending}
  /\ version' = IF t \in Queries /\ reply # Lost THEN VersionIn(reply) ELSE version
  /\ DropReply /\ Release /\ Goto(t, "idle")
  /\ UNCHANGED <<entry, run, query, conn, link, deviceVersion, flashVars>>

\* COMMAND_TIMEOUT passes first, even if the answer came and the task did not run yet.
Timeout(t) ==
  /\ pc[t] = "reply"
  /\ DropReply /\ Release /\ Goto(t, "idle")
  /\ UNCHANGED <<entry, run, query, conn, version, link, deviceVersion, flashVars>>

\* The caller itself is cancelled, such as by an automation that is restarted.
LeaveLock(t) ==
  \/ holder = t /\ Release
  \/ /\ \E i \in 1..Len(waiters) : waiters[i] = t /\ waiters' = RemoveAt(waiters, i)
     /\ UNCHANGED holder

CancelWaiting(c) ==
  /\ pc[c] = "command"
  /\ LeaveLock(c) /\ Goto(c, "idle")
  /\ UNCHANGED <<entry, run, query, conn, version, reply, linkVars, flashVars>>

CancelSent(c) ==
  /\ pc[c] = "reply"
  /\ DropReply /\ Release /\ Goto(c, "idle")
  /\ UNCHANGED <<entry, run, query, conn, version, link, deviceVersion, flashVars>>

-----------------------------------------------------------------------------
(* async_close: cancel the run task and the latest version task, wait for   *)
(* both, and close.  Other version tasks, of earlier connections, live on.  *)

CancelTasks(p) ==
  /\ run' = IF run = "none" THEN "none" ELSE "cancelled"
  /\ pc' = [t \in Tasks |-> IF t = query /\ p[t] # "idle" THEN "cancelled" ELSE p[t]]

EndRun ==
  /\ run = "cancelled" /\ run' = "none"
  /\ UNCHANGED <<entry, pc, query, conn, version, reply, holder, waiters, linkVars, flashVars>>

\* CancelledError inside _async_query_version, wherever it waits.
EndQuery(q) ==
  /\ pc[q] = "cancelled"
  /\ Goto(q, "idle")
  /\ \/ /\ holder = q /\ DropReply /\ Release
     \/ /\ holder # q
        /\ IF \E i \in 1..Len(waiters) : waiters[i] = q THEN LeaveLock(q)
                                                         ELSE UNCHANGED <<holder, waiters>>
        /\ UNCHANGED <<reply, toDevice, fromDevice>>
  /\ UNCHANGED <<entry, run, query, conn, version, link, deviceVersion, flashVars>>

\* Variant: the tasks are cancelled and not waited for.
TasksCancelled == TRUE

\* Variant: waits for the version tasks of earlier connections too.
AllTasksEnded == run = "none" /\ \A q \in Queries : pc[q] = "idle"

TasksEnded == run = "none" /\ \A q \in Queries : pc[q] # "cancelled"

-----------------------------------------------------------------------------
(* Installing firmware and unloading the entry.                             *)

\* The installer's name stands for the call and its thread, so it is free when both are over.
CallInstall(i) ==
  /\ entry = "loaded" /\ pc[i] = "idle" /\ i \notin flashing
  /\ Acquire(i) /\ Goto(i, "install")
  /\ UNCHANGED <<entry, run, query, conn, version, reply, linkVars, flashVars>>

InstallCloses(i) ==
  /\ pc[i] = "install" /\ holder = i
  /\ CancelTasks([pc EXCEPT ![i] = "closing"])
  /\ pause' = "resumed"
  /\ UNCHANGED <<entry, query, conn, version, reply, holder, waiters, linkVars, flashing>>

StartFlash(i) ==
  /\ pc[i] = "closing" /\ TasksEnded
  /\ query' = NoTask
  /\ Close /\ Goto(i, "flashing")
  /\ flashing' = flashing \union {i}
  /\ UNCHANGED <<entry, run, version, holder, waiters, toDevice, deviceVersion, pause>>

\* The executor's thread returns or raises.  A flash that failed late has written the new firmware
\* all the same.  A flash takes seconds, so what was printed before it has been read by then.
FlashEnds(i) ==
  /\ i \in flashing /\ flashing' = flashing \ {i}
  /\ fromDevice = <<>> /\ reply \notin Line
  /\ deviceVersion' \in {deviceVersion, Bundled}
  /\ toDevice' = <<>>
  /\ UNCHANGED <<hubVars, link, fromDevice, pause>>

\* Variant: start() is forgotten.
NotStarted == "none"

\* The run task start() creates, which connects first.
Started == "connecting"

\* The finally clause, whether the flash succeeded, failed or is not awaited any more.  Whoever is
\* in async_close waits for tasks that have ended already, and so runs before the installer does.
EndInstall(i) ==
  /\ pc[i] = "flashing" /\ entry # "unloading"
  /\ run' = Started
  /\ Release /\ Goto(i, "idle")
  /\ UNCHANGED <<entry, query, conn, version, reply, linkVars, pause>>

EndFlash(i) == i \notin flashing /\ EndInstall(i) /\ UNCHANGED flashing

\* The installer is cancelled while it waits for the lock,
CancelInstall(i) ==
  /\ pc[i] = "install"
  /\ LeaveLock(i) /\ Goto(i, "idle")
  /\ UNCHANGED <<entry, run, query, conn, version, reply, linkVars, flashVars>>

\* while it waits in async_close, before the try block: the tasks are cancelled, nothing is closed
\* and nothing is started again,
CancelClosing(i) ==
  /\ pc[i] = "closing"
  /\ Release /\ Goto(i, "idle")
  /\ pause' = "cut"
  /\ UNCHANGED <<entry, run, query, conn, version, reply, linkVars, flashing>>

\* or while the thread flashes, which goes on unless the executor had not begun with it.
CancelFlash(i) ==
  /\ EndInstall(i)
  /\ flashing' \in {flashing, flashing \ {i}}

\* The platforms are gone and no service finds the entry; the unload callback is async_close.
Unload ==
  /\ entry = "loaded" /\ entry' = "unloading"
  /\ CancelTasks(pc)
  /\ UNCHANGED <<query, conn, version, reply, holder, waiters, linkVars, flashVars>>

EndUnload ==
  /\ entry = "unloading" /\ TasksEnded
  /\ entry' = "unloaded" /\ query' = NoTask
  /\ Close
  /\ UNCHANGED <<pc, run, version, holder, waiters, toDevice, deviceVersion, flashVars>>

-----------------------------------------------------------------------------
(* The run task.                                                            *)

\* The port opens, and a version task is created for this connection.  The one of the
\* connection before is not cancelled: it may still sleep or wait for the lock.
Connect ==
  /\ run = "connecting" /\ run' = "reading"
  /\ conn' = "open" /\ link' = "up"
  /\ version' = NoText
  /\ \E q \in Queries : pc[q] = "idle" /\ query' = q /\ Goto(q, "delay")
  /\ fromDevice' = <<>>
  /\ UNCHANGED <<entry, reply, holder, waiters, toDevice, deviceVersion, flashVars>>

\* What a reply line does to the future: nobody waits, or it has its result already.
Answered(r, line) == IF r = Pending THEN line ELSE r

HandleLine ==
  /\ run = "reading" /\ fromDevice # <<>>
  /\ fromDevice' = Tail(fromDevice)
  /\ LET line == Head(fromDevice) IN
       IF line.task = NoTask
         THEN version' = line.text /\ UNCHANGED reply
         ELSE reply' = Answered(reply, line) /\ UNCHANGED version
  /\ UNCHANGED <<entry, pc, run, query, conn, holder, waiters, link, toDevice, deviceVersion, flashVars>>

\* readline returns the end of the stream or raises; async_run closes and sleeps.
LoseConnection ==
  /\ run = "reading" /\ link = "down"
  /\ run' = "connecting"
  /\ Close
  /\ UNCHANGED <<entry, pc, query, version, holder, waiters, toDevice, deviceVersion, flashVars>>

-----------------------------------------------------------------------------
(* The device and the port.                                                 *)

Unplug ==
  /\ conn = "open" /\ link = "up" /\ link' = "down"
  /\ UNCHANGED <<hubVars, toDevice, fromDevice, deviceVersion, flashVars>>

\* V is answered with the version or, by firmware without it, as an unknown command.
AnswerTo(cmd, v) ==
  LET verdict == IF cmd.task \notin Queries THEN v
                 ELSE IF deviceVersion # Legacy THEN "OK" ELSE "BAD"
  IN  [task |-> cmd.task, state |-> cmd.state, verdict |-> verdict,
       text |-> IF verdict = "BAD" THEN NoText
                ELSE IF cmd.task \in Queries THEN deviceVersion ELSE Done]

\* What the device prints is lost while nobody has the port open.
DeviceHandle ==
  /\ toDevice # <<>> /\ toDevice' = Tail(toDevice)
  /\ conn = "open" /\ link = "up" => Len(fromDevice) < MaxLines
  /\ IF conn = "open" /\ link = "up"
       THEN \E v \in {"OK", "BAD"} : fromDevice' = Append(fromDevice, AnswerTo(Head(toDevice), v))
       ELSE UNCHANGED fromDevice
  /\ UNCHANGED <<hubVars, link, deviceVersion, flashVars>>

\* Its serial buffer overflows while it transmits, and the line is not a command any more.
DeviceMisses ==
  /\ toDevice # <<>> /\ toDevice' = Tail(toDevice)
  /\ UNCHANGED <<hubVars, link, fromDevice, deviceVersion, flashVars>>

\* The watchdog, the reset line of a port being opened, or the power.
DeviceRestart ==
  /\ conn = "open" /\ link = "up" => Len(fromDevice) < MaxLines
  /\ toDevice' = <<>>
  /\ fromDevice' = IF conn = "open" /\ link = "up" THEN Append(fromDevice, Ready(deviceVersion)) ELSE fromDevice
  /\ UNCHANGED <<hubVars, link, deviceVersion, flashVars>>

-----------------------------------------------------------------------------
CommandStep(t) == WriteFails(t) \/ Write(t) \/ Finish(t) \/ Timeout(t)
CallerStep(c) == CallCommand(c) \/ CommandStep(c) \/ CancelWaiting(c) \/ CancelSent(c)
QueryStep(q) == QueryWake(q) \/ CommandStep(q) \/ EndQuery(q)
InstallStep(i) == InstallCloses(i) \/ StartFlash(i) \/ FlashEnds(i) \/ EndFlash(i)
CancelStep(i) == CancelInstall(i) \/ CancelClosing(i) \/ CancelFlash(i)
RunStep == HandleLine \/ LoseConnection \/ EndRun
DeviceStep == DeviceHandle \/ DeviceMisses

Next ==
  \/ \E c \in Callers : CallerStep(c)
  \/ \E q \in Queries : QueryStep(q)
  \/ \E i \in Installers : CallInstall(i) \/ InstallStep(i) \/ CancelStep(i)
  \/ RunStep \/ Connect
  \/ Unload \/ EndUnload
  \/ DeviceStep \/ Unplug \/ DeviceRestart

\* The event loop runs what is ready and fires every timer; the flasher's reads all time out,
\* so its job ends; the device handles or loses what it is sent; a port that is tried again
\* and again opens in the end.  Nobody has to call, cancel, unload or unplug anything.
Fairness ==
  /\ \A c \in Callers : WF_vars(CommandStep(c))
  /\ \A q \in Queries : WF_vars(QueryStep(q))
  /\ \A i \in Installers : WF_vars(InstallStep(i))
  /\ WF_vars(RunStep) /\ WF_vars(EndUnload) /\ WF_vars(DeviceStep)
  /\ SF_vars(Connect)

Spec == Init /\ [][Next]_vars /\ Fairness

-----------------------------------------------------------------------------
(* Properties.                                                              *)

InFlight == toDevice \o fromDevice

LiveCommands == {i \in 1..Len(InFlight) : InFlight[i].state = "live"}

\* Commands are strictly sequential: of all the lines in flight at most one belongs to a command
\* that is still waiting, and that command's task owns the lock (async_send_line, _send_lock).
StrictlySequential ==
  /\ \A i, j \in LiveCommands : i = j
  /\ \A i \in LiveCommands : InFlight[i].task = holder /\ reply # NoFuture

\* A reply to a command that nobody gave up is delivered to the task that sent it
\* (_handle_line sets whatever future is pending, without looking at the command letter).
AckMatches ==
  reply \in Line /\ reply.state = "live" => reply.task = holder /\ pc[holder] \in {"reply", "cancelled"}

\* A reply is the answer to the command that waits for it, as async_send_line says.
AckIsOwn == reply \in Line => reply.state = "live"

\* Nobody waits for an answer that cannot come: _close fails the pending reply at once, it is
\* not left to the timeout.
PendingHasConnection == reply = Pending => conn = "open"

\* A flasher whose installer waits for it has the port for itself: the hub neither has it open nor
\* can open it, unloads and other installs included.
FlashHasPort == \A i \in Installers : pc[i] = "flashing" => conn = "closed" /\ run = "none"

Installing == \E i \in Installers : pc[i] \in {"closing", "flashing"}

\* While the entry is loaded and nothing is being installed there is a run task to reconnect; in
\* particular it is back after an install that failed, or that was cancelled while it flashed.  Only
\* an install cancelled in async_close leaves none, until the next install.
RunAlive == entry = "loaded" /\ ~Installing /\ pause = "resumed" => run \in {"connecting", "reading"}

\* After the entry is unloaded the hub has no run task and does not hold the port.
UnloadedIsQuiet == entry = "unloaded" => run = "none" /\ conn = "closed"

\* The version shown is the one of the firmware that runs, across restarts, flashing and
\* reconnecting, unless the answer to some user's command was taken for it.
VersionStep ==
  version' # version /\ version' # NoText =>
    \/ version' = deviceVersion
    \/ reply \in Line /\ reply.task \in Callers
VersionIsReported == [][VersionStep]_vars

\* Every command a caller sends ends, whatever happens to the connection, the lock and the device.
CommandsEnd == \A c \in Callers : []<>(pc[c] = "idle")

\* Every install ends: nothing async_close waits for waits for the lock the installer holds.
InstallsEnd == \A i \in Installers : []<>(pc[i] = "idle")

\* A loaded entry that lost its connection gets it back ("reconnecting whenever the connection
\* drops"), installs in between or not, unless one of them was cancelled in async_close.
Reconnects == []<>(conn = "open" \/ entry # "loaded" \/ pause = "cut")
=============================================================================
