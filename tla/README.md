# CC1101Duino: verification

CC1101Duino is an Arduino with a CC1101 radio and a Home Assistant integration. The firmware listens
for pulses, prints what looks like a message as a line on the serial port, and transmits what it is
told to; the integration reads these lines, decodes them, makes devices of them, sends commands,
updates the firmware, and asks Claude about signals nobody knows.

This directory holds TLA+ models of that code, configurations that check them with TLC, and proofs
checked by TLAPS. `PROJECT.json` names for every definition the lines it models, for every run what
it checks, and for every property a mutation of the model that breaks it (the operators marked
`Variant` in the modules). Paths are those of the repository.

## The system

| Part | Code | State | Operations |
|---|---|---|---|
| Hub | `custom_components/cc1101duino/hub.py`, `__init__.py` | reader and writer, the send lock, the pending reply, the run and version tasks, the version; sightings | connect, run, close, send a command, query the version, install firmware, handle a line |
| Classifier | `classifier.py` | records of signal types, known signals, requests of 24 hours, tasks, a lock, a store | load, unload, add, add decoded, classify, forget |
| Claude client | `claude.py` | none | one request |
| Flasher | `firmware.py` | a session with the bootloader | parse a hex file, reset, sync, program, verify |
| Entities | `remote.py`, `sensor.py`, `binary_sensor.py`, `update.py` | the values shown | add, update, restore, remove |
| Own coders | `protocol/signal.py`, `packetizers.py`, `coders/` | none | decode a line to signals, encode a signal to a line |
| SIGNALduino | `protocol/signalduino/` | when each message was last heard (repeats) | decode what no own coder decodes |
| Firmware | `src/main.cpp`, `src/rf.cpp`, `src/cc1101.cpp`, `src/serial_host.cpp` | settings in memory and EEPROM, in_rx, the radio, interrupts | setup, loop, the commands S, F, M, V |
| Pulse FIFO | `lib/SimpleFIFO` with `src/rf.cpp` | a ring buffer with a counter | enqueue by two interrupt handlers, dequeue by the loop, flush |
| Serial framing | `src/serial.cpp` | state, command letter, buffer | loop over bytes |
| Signal detector | `lib/signalDecoder`, `lib/bitstore` | patterns, message, bit store | decode one pulse, reset |

How they interact:

- The *interrupt handlers* put pulses into the FIFO, the *main loop* takes them out and gives them
  to the detector, which prints a line through the serial port. A transmission takes the main loop
  for as long as it lasts; nobody takes pulses out or reads the port meanwhile.
- The *hub* and the *firmware* exchange lines. A command is a line `^<letter>...`, its reply a line
  `^$<letter>OK ...` or `^$<letter>BAD ...`; nothing numbers them. The firmware also prints a ready
  message on its own, after every reset, and opening the port may reset it.
- A received line goes from the detector through the *hub* to the own coders and, if they make
  nothing of it, to SIGNALduino's protocols; the readings go to the entities, the rest becomes
  events.
- In Home Assistant everything is a coroutine of one event loop; only the flasher and the creation
  of the Claude client run in a thread. The hub calls the classifier for each line; both are
  unloaded with the entry, the hub first.

What is hard: a reply that comes late; a connection that breaks while something waits; installing
and unloading during anything else; a counter changed by an interrupt handler and the main loop;
resets between the bytes of a setting; tasks that queue for a lock and act on what was true before;
records that are removed, and collected again, while a request is out; restarts of Home Assistant
with requests out; a bootloader that answers the command before; a message buffer and a pattern
table that are full, moved and merged in the middle of a message; packets that are damaged, cut and
repeated. `PROJECT.json` lists these as hazards, each with its line and the properties about it.

## Modules

| Module | Models | Checked by | Proofs |
|---|---|---|---|
| `Hub` | the hub's connection and all who use it, with the device as it sees it | `MCHub.cfg`, `MCHub_LateReply.cfg`, `MCHub_Unload.cfg` | `HubProofs` |
| `PulseFifo` | the ring buffer, one access to shared state at a time | `MCPulseFifo.cfg`, `MCPulseFifo_Order.cfg` | `PulseFifoProofs` |
| `Classifier` | the classifier from one await to the next | `MCClassifier.cfg`, `MCClassifier_Limit.cfg` | `ClassifierProofs` |
| `Firmware` | setup, settings, transmissions and interrupts | `MCFirmware.cfg` | `FirmwareProofs` |
| `Programming` | what flashing promises, abstractly | by `MCFlasher.cfg` | |
| `Flasher` | reading a HEX file and the session with the bootloader; implements `Programming` | `MCFlasher.cfg` | `FlasherProofs` |
| `BitStore` | the packed values of the message buffer | by `MCDetector.cfg` | `BitStoreProofs` |
| `Detector` | the signal detector, pulse by pulse; uses `BitStore` | `MCDetector.cfg` | `DetectorProofs` |
| `Packets` | a line through the packetizers and the own coders, and a command the other way | by `MCReceiver.cfg` | |
| `Demodulation` | a line through SIGNALduino's demodulator; extends `Packets` | by `MCReceiver.cfg` | |
| `Receiver` | from decoded lines to sensors and events, in time | `MCReceiver.cfg` | `ReceiverProofs` |
| `SdWs` | the weather stations of `clients/sd_ws.py`, from bits to readings | by `MCAir.cfg` | |
| `Codes` | the checks and conversions of `functions.py`, for pulses and for Manchester | by `MCAir.cfg` | |
| `Clients` | two more client modules, and which client reads a message | by `MCAir.cfg` | |
| `Air` | telegrams that arrive damaged, late or inverted; uses `Clients` | `MCAir.cfg` | |

`SdWs`, `Codes` and `Clients` extend one another, and `Codes` extends `Demodulation`.

### Hub

`pc` says where each task waits: a caller or version task in `command` waits for the lock or just
got it, in `reply` awaits the answer; an installer goes from `install` (the lock) through `closing`
(`async_close`) to `flashing` (the executor job). `run` is the run task. `conn` stands for
`_reader`, `_writer` and `connected`, which change together. `holder` and `waiters` are
`_send_lock`. Each action is what a coroutine does from one await to the next: `CallCommand`,
`Write`, `Finish`, `Timeout` are the pieces of `_async_command`; `InstallCloses`, `StartFlash`,
`EndFlash` those of `async_install_firmware`; `Connect`, `HandleLine`, `LoseConnection` those of
`async_run`. Cancelling is modelled wherever a caller or an installer waits (`CancelWaiting`,
`CancelSent`, `CancelInstall`, `CancelClosing`, `CancelFlash`); the run task and the version tasks
are only cancelled by `async_close` (`CancelTasks`). The three delays of the code (version query,
command timeout, reconnect) may be over at any moment.

An install has two parts that can come apart: the coroutine, in `pc`, and the executor's thread, in
`flashing`. Cancelled while the thread flashes (`CancelFlash`), the coroutine runs its `finally`
clause, which starts the run task, and the thread goes on until `FlashEnds`, unless the executor had
not begun with it. Cancelled earlier, in `async_close` (`CancelClosing`), it is not in the `try`
block yet: the run task is cancelled and nothing starts it again. `pause` is history: `cut` from
such a cancellation until the next install that gets to `async_close`. `RunAlive` and `Reconnects`
leave out the entries where `pause` is `cut`, and `FlashHasPort` is about a flash that is still
awaited. An installer is not called again before its thread is done, so that a name stands for one
of each.

Worth knowing, as `hub.py` says otherwise: a hub whose install is cancelled at `hub.py:193` stays
loaded without a run task (`CallInstall`, `InstallCloses`, `CancelClosing` is such a behaviour),
though the task is to "read lines forever" (`hub.py:141`); and one that is cancelled at `hub.py:195`
has the run task open the port while the thread flashes, though the connection is to be paused
"meanwhile" (`hub.py:183`): `CancelFlash`, then `Connect` before `FlashEnds`.

The device handles lines in order, answers each, and may lose one (its buffer overflows while it
transmits), restart, or be unplugged. The field `state` of a line is a history flag: whether its
command still waits. Properties are stated with it, nothing in the model reads it.

Not modelled: the time between `async_connect` and `start()` in `async_setup_entry`; the death of
the run task by an exception that is neither `OSError` nor `SerialException`; signal lines, which
touch nothing of this state.

`EndInstall` is not taken while the entry is `unloading`: whoever is in `async_close` then waits for
no task that is alive, so it goes on before the job's result, or a cancellation, is delivered to the
installer. `FlashEnds` waits until the lines printed before it are read and handled: a flash takes
seconds.

### PulseFifo

The handlers run with interrupts disabled, so `Enqueue` is one step. `dequeue` is five steps of the
main loop, since on an 8-bit processor the decrement is a load and a store and an `int` is read as
two bytes. A pulse is the number of its capture; a slot holds the number of each of its bytes, so
that a torn read shows. `written`, `taken` and `overrun` are history.

### Classifier

A signal type is an element of `Ids`; two receptions of one type are alike and of two types are not.
A task is its type, where it waits, and whether the record it found is still the one in `records`
(`held`) or was removed meanwhile (`detached`): Python keeps the object, the model keeps this flag.
`removed` is history: whether a record of the task's type was removed since the task was started, so
that it may find one that was collected afresh. Tasks are started eagerly: with the lock free, one
runs inside the call that starts it up to its first real await. Time is abstract: `RequestExpires`
is a request getting older than a day, `RetryDue` the retry delay having passed. `transmissions` and
`attempts` count up to the limit they are compared with. The least recently heard type that `_prune`
drops may be any. A crash comes just after a delayed save: a later one loses what happened since,
and so equals one at the save.

Not modelled: exceptions nobody expects; what the callers waiting in `async_classify` return;
automatic classification turned off (nothing is started then).

Worth knowing: the README says that a signal type is sent once (`README.md:104`), but a type that
was classified, is sent again by the user and interrupted by unloading is collected again afterwards
(`classifier.py:325`), and so is sent again by itself.

### Firmware

`pc` goes through the steps between which an interrupt or a reset makes a difference; `job` is what
they belong to. A frequency is a float whose bytes are written one after the other, here in two
halves; the instance has a valid mixture of two frequencies and an invalid one. A pulse is measured
from one edge to the next, and the time of the last edge (`lastRxTime`, here `lastRx`) is kept
across a transmission: a pulse is `fresh` when both came since receiving began, `spanning` when only
the second did, and `stale` when neither. The first pulse after a transmission is `spanning`, also
that of an interrupt that is pending when the buffer is flushed. It is harmless since nothing is
before it, which is what `NothingStale` says. `Watchdog` bites in a transmission only, whose length
the command decides and which does not feed it. Resets by the reset line or the power come at any
step. The ring buffer is a queue here: `PulseFifo` shows what it is worth. `resetAt` is history.

Not modelled: the parsing of parameters (a command's parameters are any that parse), the pulses of a
transmission, and the driver's registers: the driver is what `rf.cpp` calls of it.

### Flasher and Programming

`pc` is the command whose answer the programmer waits for, `commands` and `answers` are the two
directions of the line. A read takes as many bytes as it wants, or gives up, whenever it likes: what
comes after the timeout meets the next read. The bootloader handles commands in order, may stop to
hear (it then starts the firmware, which prints something), may store a wrong byte, and the line may
lose a byte; each of these is counted by `faults`. Addresses are in two digits of a small base as
they are in two bytes in the code. `parse_hex` reads one record in a step (`ReadRecord`), until an
end record or the end of the file, and a bad record fails the attempt; a record's checksum is its
field `valid`. What is read so far is an invariant (`ReadSoFar`), so that it can be proved for files
of any length.

`Programming` has four variables: the image, the chip, the flash, and whether the attempt is reading
its file, running, done or failed. `KeepsPromise` is `Programming`'s specification under a mapping
that forgets the session, liveness included.

Not modelled: the text of a HEX file; a port that cannot be opened or breaks (the exception fails
the attempt at any step, as `TooShort` does).

### Detector and BitStore

The state `d` is the decoder's class: the buffer, the pattern table, the histogram, clock, sync, the
message's limits and the Manchester decoder's part. One step is `decode` of one pulse with all it
calls, which may report, move what is left of a message to the front, and go on. `heard` and
`reports` are history. `BitStore` has two values of four bits in a byte, as in the code, and the
functions that shift by half a byte. A value is or-ed into its place, bit by bit (`Ored`), as the
code does: whether the place was empty is what `BitStoreProofs` is about.

The code's loops are bounded, and a definition that has to go on from what the step before left
(merging patterns, trying candidates, reading bits) is written as that many steps one after the
other: `MergeAll`, `Search` and `DecodeBits`. The last has 512 of them, more than two for each value
in the buffer, and `ReadingEnds` proves that they are enough.

Facts the model taught, which no property contradicts since nothing promises otherwise: after an MS
report what follows stays in the buffer, so the third repeat of three may stay there until more is
heard, and two of its gaps may be taken for the syncs of a frame with the next signal; a pattern is
a moving average and may drift; MsMoveCount is only set by the constructor and by reports; the last
value of an MS report is printed and not counted; the search for the first high pulse compares an
index with lengths. `CleanIsReported` is about signals that find the buffer empty for that reason.

Not modelled: the RSSI (data), debug output, and formats of output that the firmware does not
enable.

### Packets and Demodulation

Pure operators: a line is a record of its type, its pulse lengths and the indexes received; the
result is the set of its signals. The same signal is reported once for a line, and the order of its
signals is left to `Receiver`, which takes them in any. All packetizers and coders of `ALL_CODERS`
are there. `Demodulation` has three protocols of `protocols.json`: 3 (`It`, an MS remote), 8 (`Tx3`,
a sensor without checksum, with its client module `CulTx`) and 74 (`Fs20`, a remote with parities
and a sum); `PatternExists` is the search for a combination of patterns in the code's order.
Temperatures and relative lengths are in tenths. Both modules agree with the Python code on the
lines of the instance and on damaged variants of each.

Left out, as none of the three protocols has them: start sequences, float symbols, filters, bits
reconstructed from a half, and the limit on messages of one MU line. Manchester protocols are in
`Codes`.

### Codes, SdWs, Clients and Air

What the bits of a telegram are to SIGNALduino once the pulses are decoded. `Codes` has the
functions of `postDemodulation` and the Manchester methods, with the length limits and the clock
ranges of `protocols.json`; `SdWs` has one operator for each weather station of `DECODERS`, with its
checks (sums, parities, CRCs, LFSRs); `Clients` has Hideki and Maverick. A value is in hundredths,
as the code rounds it to two digits; a reading is a set of pairs, and the order of its signals is
left out. The operators yield a set, empty for a telegram that is refused. All of them agree with
the Python code on the recordings of `tests/fixtures/signalduino.json` and on some 9900 damaged
variants of them.

`Air` damages a telegram: bits are flipped, its first bits are lost, its levels are inverted.
`Strength` bounds how many bits a code must notice: two where the check is a CRC or a digest that
was made for it, one where it is a sum or a parity, and none where the code has no check. Some codes
are weaker than one expects, and their strength is one: the WH2 (protocol 64), as two wrong bits in
its preamble make `_prematch_64` shift the telegram, whose CRC is still right in its new place; and
the FS20, FHT80 and FHT80TF (74, 73 and 70), as two bits make a telegram of one a telegram of
another. `MayLose` and `Invertible` are what the code restores: a preamble that is cut, and levels
taken the other way round.

Not modelled: OSV2o3 and the client modules `cul_tcm97001`, `cul_ws`, `oregon`, `sd_ws07` and
`sd_ws09`. A message for one of these stands for its reading.

### Receiver

`Lines` are those of each place and `Decoded` the set of signals that each is decoded to, which come
in any order (`Receptions`): several may be values of one sensor, when a packet and a damaged repeat
of it are in one line, and the last is shown; the module is about what happens then, and its proofs
hold for any decoding. Time passes in `Tick`s of one second; clocks are kept as ages, capped where
no comparison tells an age from a higher one. `Receive` is `_handle_line` for a signal line:
sightings, then events and readings. An entity is `pending` while it is added, `live` when
registered and shown, `removed` when the user deleted its device: it is then still in the `entities`
of the platform, takes values and does not come back until the entry is reloaded. `Reload` stands
for unloading and setup together, as the platforms restore their entities before `hub.start()`.
`heard`, `again`, `surely`, `silence` and `latest` are history.

Not modelled: binary sensors, which differ in one point: a battery state that was stored while the
hub was disconnected (`unavailable`) comes back as unknown (`binary_sensor.py:77`), and the
diagnostics.

Worth knowing: a command of the own coder ends low when its last bit is 0, which merges with the
delay before the repeat, so that another receiver with this firmware hears the bit as a gap and does
not decode it; a command from a remote fires once per line, since only SIGNALduino's messages are
looked up as repeats; a LaCrosse packet with a wrong checksum may be accepted by protocol 8, which
has none, for a sensor `cul_tx` that was confirmed before; and a device heard at 0, 1 and 181 s is
not confirmed, though two of these are within the window, as only the first sighting is kept
(`const.py:30`).

## Runs

| Run | Result | Bounds | What it shows |
|---|---|---|---|
| `hub` | holds | 1 caller, 2 version tasks, 1 installer, 1 line in flight each way | see below |
| `hub_late_reply` | `AckIsOwn` violated | 2 callers, otherwise as `hub` | a late reply acknowledges the next command |
| `hub_unload` | `UnloadedIsQuiet` violated | as `hub` | an install that ends or is cancelled after unloading revives the hub |
| `pulse_fifo` | holds | 3 slots, a counter below 8, 8 pulses between flushes | see below |
| `pulse_fifo_order` | `DequeuesNext` violated | as `pulse_fifo` | a pulse in a full buffer is overwritten before it is read |
| `classifier` | holds | 2 types, 2 tasks, 2 transmissions, 2 requests a day, 2 attempts, 1 pending type | see below |
| `classifier_limit` | `DailyLimit` violated | as `classifier`, 2 pending types, 1 request a day | tasks that queue exceed the daily limit |
| `firmware` | holds | 2 halves of 2 values, 3 modulations, 2 slots, 2 resets | see below |
| `flasher` | holds | 6 files, 12 bytes of flash in pages of 4, 3 sync attempts, 2 faults | see below |
| `detector` | holds | any 3 of 11 signals, in the real buffer of 254 and table of 8 | see below |
| `receiver` | holds | 27 lines at 4 places, a window of 5 s with a gap of 2 s, repeats of 2 s | see below |
| `air` | holds | 47 recorded telegrams, each damaged up to its strength | see below |

`hub`: commands are strictly sequential (`StrictlySequential`), a reply reaches the task that sent
its command unless the command was given up (`AckMatches`), nobody waits for a reply without a
connection (`PendingHasConnection`), a flash that is awaited has the port (`FlashHasPort`), the hub
has a run task whenever it should (`RunAlive`), the version shown is the running one or an answer to
a user's command (`VersionIsReported`), every command and every install ends (`CommandsEnd`,
`InstallsEnd`), and the connection comes back (`Reconnects`). These are stated as `[]<>`, which for
a predicate `P` is the same as `~P ~> P`. Two version tasks are enough for one that outlives its
connection, one caller and they for three that compete for the lock. One line each way is enough for
a late reply and a live command at once. The device has one version or predates versions, so that a
flash can change what it reports.

`pulse_fifo`: pulses come whole and in order while none is overwritten (`InOrder`), and the loop
returns (`LoopReturns`). The buffer wraps twice within the bound, and the counter can lose as many
increments as there are slots. The violating run fills the buffer: the decrement makes room before
the oldest pulse is read, and a handler that comes in between overwrites that pulse. The other race
of the decrement, a handler between its load and its store, has no violating run of its own; it is
in `pulse_fifo` as in the code: the handler's increment is undone, the counter is one too low until
the next flush, and `InOrder` holds all the same.

`classifier`: every task is the one registered for its type (`TasksAreRegistered`), so the done
callback, which pops by type, pops itself; no type stays `classifying` (`ClassifyingIsAsked`); an
answer goes to the record it was asked for (`AnswersMatch`); what is sent automatically is due when
sent, and was heard often enough unless the type was removed while its task waited (`SentWhenDue`);
unloading sends nothing (`UnloadSendsNothing`); and tasks end (`TasksEnd`). With two types and two
tasks one can queue behind the other, be forgotten, pruned and heard again there. A type is due at
its second transmission, so that one that was collected afresh is not. That such a type is sent
after it was heard once is what the code does, since it compares the number only when a task is
started (`classifier.py:246`, `:291`), though a type is "only sent after it was heard in several
separate transmissions" (`classifier.py:74`): `SentWhenDue` leaves it out by `removed`, and for it
only the number.

`firmware`: the main loop always listens as set (`ListensAsSet`), the radio is only tuned to what
was checked (`InBand`), a transmission uses its own parameters (`SendsUndisturbed`), what was
captured before or during it is not decoded after it, and the one pulse that may be measured across
comes first (`NothingStale`), a restart keeps the settings unless it comes while they are stored
(`KeptAcrossRestarts`), and the device gets back to its main loop, from an endless transmission by
the watchdog (`GetsBack`). Two resets are enough for one that tears a setting and one in what setup
makes of it.

`flasher`: the image is what the file says for each address (`ImageIsFile`), and flashing keeps the
promise of `Programming` (`KeepsPromise`): a success means that the flash holds the image, nothing
but its pages is touched, nothing on another chip, and every attempt ends. Two faults are enough for
a late answer that shifts the next ones together with a page that comes out wrong; the bytes 16 and
20 of the files look like the frame of an answer.

`detector`: the buffer is what was heard last, without a gap (`BufferIsRecent`), and its patterns
keep about the lengths of the pulses they stand for (`LengthsAreKept`); each report is a stretch of
what was heard, in order, and none has a pulse that an earlier one had (`ReportsAreRecent`), with
about its lengths (`LengthsAreReported`); the bits of a Manchester report are in the signal
(`BitsAreHeard`), and a clear signal is reported (`CleanIsReported`). The eleven signals are frames
with a sync that are long enough, too short, too few and more than the buffer holds, frames of
uneven pulses, whose patterns are merged, a signal without sync, Manchester signals that are short,
interrupted and longer than the buffer, pulses of more lengths than the table has, and silence.
Three in a row are enough for what one leaves to meet the next. `DetectorProofs` has the first and
the third for any pulses.

`receiver`: a sensor without checksum is added when, and almost whenever, its device was heard at
two times within the window (`SensorsAreHeardTwice`); a press is one event (`OneEventPerPress`);
what a sensor shows is what it last reported (`ShowsLastHeard`); what the own coders let through was
sent, or is one of the mistakes in `Mistaken` (`DecodedWasSent`). The lines are whole packets,
packets with a flipped bit, packets cut at either end, a packet followed by a damaged one, two
halves of one packet and of two, all in the code's own numbers. LaCrosse and FS20 have checks, and
no mistake of theirs is in the list. Nexus, Minka Aire and the IT remotes (protocol 3) have none,
and the list says for the lines of the instance what comes through: a flipped bit of a temperature,
of a command and of a remote's code, and the values of two Nexus packets whose halves agree where
they overlap or do not overlap. What a cut line or halves that disagree would make is not in the
list. The places are separate neighbourhoods, so that their states add up and do not multiply; one
has devices of both kinds. A window of 5 with a gap of 2 has each order of two sightings and a
window that ends between them; `ReceiverProofs` is for any.

`air`: whatever a damaged telegram is heard as, by the code it was sent in or by another one with
the same pulses or clock, is what was sent (`OnlyWhatWasSent`), and an undamaged one is heard as the
recording says, also when it is inverted or cut where the code restores it (`StillHeard`). There are
one or two telegrams of each code and each station. One or two wrong bits, anywhere, are what the
checks promise to notice: a parity one, a CRC two. Damage is bounded, so a telegram comes to rest,
and the run does not check for deadlock.

The violations are disagreements between the code and what it, its comments or the README say;
`PROJECT.json` quotes them under `findings`.

### Fairness

- `Hub`: the event loop runs every coroutine that is ready and fires every timer; the flasher's
  reads have timeouts; the device handles or loses every line (weak fairness). Opening the port is
  tried again and again, and a port that can be opened infinitely often is opened (strong fairness,
  since installs may come in between each time). Nobody has to call, cancel, unload or unplug.
- `PulseFifo`: the main loop runs between interrupts, and a transmission ends. `LoopReturns` holds
  because pulses are bounded between flushes: it says that the loop ends once they stop, and nothing
  about pulses that come faster than they are decoded.
- `Classifier`: the event loop runs what is ready, the executor creates the client, a request ends
  by the client's own timeout.
- `Flasher`: a read returns after its timeout at the latest (`serial` timeouts of one second), so
  the programmer goes on; nothing is asked of the bootloader.
- `Detector` is driven by pulses, `Receiver` by lines and `Air` by chance; nothing about them is
  liveness.
- `Firmware`: the processor runs; a transmission that can end does, or the watchdog bites.

## Proofs

TLAPS proves for all values of the constants (numbers of tasks, versions, sizes, frequencies):

- `HubProofs`: all safety properties of `hub` and `VersionIsReported`, from one inductive invariant,
  `HubInv`, with installs that may be cancelled anywhere. The properties are not inductive: that a
  reply goes to its sender needs that whoever awaits a reply or the flasher owns the lock
  (`OwnerInv`), and that a live line is the owner's and the only one (`LinesInv`); that the flasher
  is alone needs what the run task does to agree with the connection (`PortInv`). It assumes that
  the sets of tasks are disjoint and that the special texts and states differ from each other
  (`HubAssumption`, `FutureAssumption`).
- `PulseFifoProofs`: `TypeOK` and the safety property of `pulse_fifo`, from two invariants: the
  counter lags behind the unread pulses (by one more between the store of the decrement and the
  read), and while nothing was overwritten the unread pulses lie in order in consecutive slots. It
  assumes `0 < Size < Width`, which holds for 90 and 256.
- `FirmwareProofs`: `TypeOK`, all safety properties of `firmware` and `KeptAcrossRestarts`, from
  `FirmwareInv`, which says for each step what is valid, stored, tuned and attached already. It
  assumes that the defaults are valid (`FirmwareAssumption`).

- `ReceiverProofs`: `TypeOK`, `ShowsLastHeard`, `OneEventPerPress` and `SensorsAreHeardTwice`, for
  any lines, decoding, order of a line's signals, windows and gaps. The invariant relates the one
  sighting the hub keeps of a device to all times it was heard: each is less than the gap after the
  sighting, or so old that the sighting may be pruned (`Stands`). It assumes that a line has
  finitely many signals, that own coders and clients have different names, and that twice the gap
  fits in the window (`LinesAssumption`, `CodersAssumption`, `TimesAssumption`).

- `ClassifierProofs`: `TypeOK` and all safety properties of `classifier`, from `IInv == TypeOK /\
  Good`. `Good` says that tasks and registrations match, so that a type has one task
  (`Registering`); that only the holder of the lock is past it, and that who waits is in line once,
  so that an end or a cancellation always hands it to someone who is still there (`Locking`); that a
  record a task holds is in `records` and is `classifying` when the request is out (`Holding`), and
  no other record is (`Asking`); that what was due when a task was started is due for as long as it
  waits, its transmissions included unless a record of its type was removed, since a type with a
  task is changed by nobody else (`Waiting`); and that nothing is started once unloading began
  (`Ending`). None of the properties is inductive by itself: `ClassifyingIsAsked`, say, needs
  `Holding` for the end of a task, which needs `Registering` for a record that is removed and
  collected again. It assumes that limits are positive where the code compares with them before
  counting, and that the marks for no task and no record are neither (`ClassifierAssumption`,
  `RecordAssumption`, `TaskAssumption`).

- `FlasherProofs`: `TypeOK`, `ImageIsFile`, and that every step of flashing is a step of
  `Programming` or none (`FlashingKeepsPromise`), for any files, sizes, data and number of faults.
  `ReadSoFar` says what the image is after the records read so far, for each address. For the
  session: before the chip is known many answers may be under way, but the middle byte of the
  signature, 149, is in none of them until the last command was handled, so that the signature can
  only be matched by its own answer, and the line is quiet afterwards (`Greeting`); then there is
  one command or one answer at a time, and an answer of the expected length is the whole of it
  (`Turns`); the bootloader has the address of the page (`Loaded`); a write under way is of the
  image, for the right chip (`Writes`); and the flash holds the pages that were compared
  (`Verified`). So a page counts only when its own contents came back, whatever was late. It assumes
  that a page is whole words, and that bytes are bytes (`FlasherAssumption`, `FilesAssumption`); the
  number of faults is any.

- `BitStoreProofs`: whatever is added, moved, changed and reset in any order, a buffer of any size
  reads back as the sequence that these calls are to make (`BufferIsSequence`). A value is or-ed
  into its place and a move shifts by half a byte, so that this needs the other half of the last
  byte to be empty (`Clean`), which is why `moveLeft` clears a half when it moves an odd number. It
  assumes two values to a byte, as in the detector (`BufferAssumption`).

- `DetectorProofs`: the types and index ranges of the detector (`TypeOK`), `BufferIsRecent` and
  `ReportsAreRecent`, for any stream of pulses, of any length. The invariant, `Inv`, says of the
  detector that its fields hold what they may (`Typed`), that the places after the buffer's values
  are empty, so that nothing is or-ed onto another value (`Clean`, of `BitStoreProofs`, which is
  used for the buffer), that each value has a pattern in use with the sign of its pulse and high and
  low alternate (`IsRecent`), that the next pattern goes after the last until the table is full
  (`Placed`), without which it could take the place of one that is in use, and that what is left of
  a Manchester signal is not taken for a message with a sync (`Continued`), whose limits would be
  those of another buffer. These are `Sound`, and each function keeps them. Between pulses the
  buffer is not marked as cut (`truncated`), since the pulse was added to it. And every pulse report
  ends before the first pulse that is still in the buffer (`ReportsAreGone`): `ReportsAreRecent`
  does not say so, but needs that nothing that was reported comes back. Inside one `decode`, which
  may report several times and move the buffer in between, `Right` says that each report so far is a
  stretch of what was heard after those before it, and `Fresh` that nothing in the buffer was
  reported. It assumes that a fragment is a sequence of pulses (`FragmentsAssumption`), each within
  the limits that `rf.cpp` sets.
- `ReadingEnds`, also there: the loop of `doDecode` ends in every buffer, after at most as many
  steps as the model gives it. A step that looks for the next long may find it where it is, and any
  other goes on by one place at least, so that it takes two steps for a place at most (`Took`).

Proved only, and in no run since they follow from the above or from a type: the counter of the ring
buffer never exceeds the unread pulses, never wraps and nothing unwritten is read (`CountNeverOver`,
`NoWrap`, `ReadsWritten`), the EEPROM holds what is used (`StoredAsSet`), Claude is asked about one
type at a time (`OneRequestAtATime`), the buffer of the detector is a sequence (`BufferIsSequence`).

The types of `PulseFifo`, `Firmware` and `Detector` are proved and in no run: the proofs cover every
instance.

Only model-checked:

- `LengthsAreKept`, `LengthsAreReported`, `BitsAreHeard` and `CleanIsReported` of `Detector`. A
  pattern is a moving average and may drift away from the pulses in the buffer, so that the first
  two hold for the signals of the instance, whose lengths are steady, and not for any; the others
  compare a report with what was sent, by recursion over its bits.
- `DecodedWasSent`, `OnlyWhatWasSent` and `StillHeard`: facts about the decoding of given lines and
  telegrams, with recursion over their bits.
- All liveness: TLAPS does not prove liveness under fairness. This includes that an attempt to flash
  ends, the part of `KeepsPromise` that `FlashingKeepsPromise` leaves out.

## Not modelled

- The framing of the serial line byte by byte: the hub and the firmware see whole lines, and lose
  some.
- The likeness of unknown signals (`fingerprint.py`): what `Classifier` calls the type of a signal.
- Most of the pulse side of `protocols.json`: how pulses become bits is modelled for three
  protocols, one of each way a message takes. Filters, starts and float symbols are left out.
- The client modules `cul_tcm97001.py`, `cul_ws.py`, `oregon.py`, `sd_ws07.py`, `sd_ws09.py` and the
  method OSV2o3: more bit layouts like those of `SdWs`, which the tests compare with recordings.
- The parser of a transmission's parameters, texts, forms, services, and the samples sent to Claude.
- The Claude service, Home Assistant itself, the serial port, the bootloader and the radio driver,
  which appear as what the code does with them.

## Plan

1. Done: the models of all parts above, with the refinement of `Programming` by `Flasher`.
2. Done: proofs of `Hub`, `PulseFifo`, `Firmware`, `Receiver`, `Classifier`, `Flasher`, `BitStore`
   and `Detector`.
3. Possible next: the framing of the serial line, as an implementation of the channel of lines that
   `Hub` and `Firmware` see; how far a pattern may drift from its pulses; the likeness of signals,
   which is symmetric and not transitive.
