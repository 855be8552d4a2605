------------------------------ MODULE Firmware ------------------------------
(***************************************************************************)
(* The firmware between its reset and its main loop: the receive settings  *)
(* in memory and in the EEPROM, the radio, the interrupts that feed the    *)
(* decoder, and the commands that change them (main.cpp, rf.cpp and        *)
(* HostSerial::handle).                                                    *)
(*                                                                         *)
(* A command is handled in one go by the main loop; a step is what happens *)
(* between two points at which an interrupt or a reset makes a difference. *)
(* The ring buffer is PulseFifo; here it is a queue of the ages of pulses. *)
(* A pulse is the time from one level change to the next: fresh if both    *)
(* came since receiving began, spanning if only the second did, and stale  *)
(* if neither.                                                             *)
(***************************************************************************)
EXTENDS Naturals, Sequences, SequencesExt

CONSTANTS
  Parts,        \* values of one half of a frequency, a float that is written byte by byte
  Valid,        \* the frequencies of validFrequency
  DefaultFreq,  \* DEFAULT_FREQUENCY
  DriverFreq,   \* what the driver's Init tunes to
  Mods,         \* modulations, valid or not
  ValidMods,    \* those of validModulation
  DefaultMod,   \* DEFAULT_MODULATION
  FifoSize,
  MaxResets     \* bound: resets that are not the watchdog's

Freqs == [high : Parts, low : Parts]

ASSUME FirmwareAssumption ==
  /\ Valid \subseteq Freqs /\ DefaultFreq \in Valid /\ DriverFreq \notin Freqs
  /\ ValidMods \subseteq Mods /\ DefaultMod \in ValidMods
  /\ FifoSize \in Nat \ {0} /\ MaxResets \in Nat

VARIABLES
  pc,        \* off, the step of setup or of a command, or idle: the main loop
  job,       \* what the steps belong to: boot, set or send
  rxFreq, rxMod, inRx,  \* rx_freq, rx_mod, in_rx
  txFreq, txMod, repeats,  \* the parameters of the transmission; repeats: some or endless
  stored,    \* the EEPROM: the two halves of the frequency, and the modulation
  radio,     \* frequency, modulation, and rx or tx
  pin, timer,  \* the interrupts: attached or detached, on or off
  lastRx,    \* lastRxTime: fresh if it was taken since receiving began, or old
  fifo, decoder,  \* the pulses in the ring buffer, and those the decoder collects
  resetAt,   \* history: where the last reset came
  resets

settings == <<rxFreq, rxMod, stored>>
sending == <<txFreq, txMod, repeats>>
pulses == <<lastRx, fifo, decoder>>
vars == <<pc, job, settings, inRx, sending, radio, pin, timer, pulses, resetAt, resets>>

Ages == {"fresh", "spanning", "stale"}
Repeats == {"some", "endless"}
Storing == {"putHigh", "putLow", "putMod"}
Steps == {"off", "idle", "tune", "modulate", "attach", "detach", "txTune", "txModulate", "txStart",
          "send", "start"} \union Storing

TypeOK ==
  /\ pc \in Steps /\ job \in {"boot", "set", "send"}
  /\ rxFreq \in Freqs /\ rxMod \in Mods /\ inRx \in {"no", "yes"}
  /\ txFreq \in Freqs /\ txMod \in Mods /\ repeats \in Repeats
  /\ stored \in [high : Parts, low : Parts, mod : Mods]
  /\ radio \in [freq : Freqs \union {DriverFreq}, mod : Mods, mode : {"rx", "tx"}]
  /\ pin \in {"attached", "detached"} /\ timer \in {"on", "off"}
  /\ lastRx \in {"fresh", "old"}
  /\ fifo \in Seq(Ages) /\ Len(fifo) <= FifoSize /\ decoder \subseteq Ages
  /\ resetAt \in Steps /\ resets \in 0..MaxResets

\* Any EEPROM, such as a blank one.
Init ==
  /\ pc = "off" /\ job = "boot"
  /\ stored \in [high : Parts, low : Parts, mod : Mods]
  /\ rxFreq = DefaultFreq /\ rxMod = DefaultMod /\ inRx = "no"
  /\ txFreq = DefaultFreq /\ txMod = DefaultMod /\ repeats = "some"
  /\ radio = [freq |-> DriverFreq, mod |-> DefaultMod, mode |-> "rx"]
  /\ pin = "detached" /\ timer = "off"
  /\ lastRx = "old" /\ fifo = <<>> /\ decoder = {}
  /\ resetAt = "putHigh" /\ resets = 0

-----------------------------------------------------------------------------
(* Reset and setup.                                                         *)

StoredFreq == [high |-> stored.high, low |-> stored.low]

\* The power, the reset line, or the watchdog.  Memory is lost (of the settings the last values
\* are kept, to compare with them); the radio goes on by itself.
ResetNow ==
  /\ pc' = "off" /\ job' = "boot" /\ resetAt' = pc
  /\ inRx' = "no" /\ pin' = "detached" /\ timer' = "off"
  /\ lastRx' = "old" /\ fifo' = <<>> /\ decoder' = {}
  /\ UNCHANGED <<settings, sending, radio>>

Reset == pc # "off" /\ resets < MaxResets /\ resets' = resets + 1 /\ ResetNow

\* Variant: the watchdog is not enabled.
NoWatchdog == FALSE

\* Two seconds without wdt_reset: transmitData does not feed the watchdog.
Watchdog == pc = "send" /\ ResetNow /\ UNCHANGED resets

\* Variant: only the frequency is looked at.
FreqStored == StoredFreq \in Valid

SettingsStored == StoredFreq \in Valid /\ stored.mod \in ValidMods

\* cc1101.setup and the first half of initRxSystem: what is stored is used if all of it is valid,
\* else the defaults are set, the frequency first.
Boot ==
  /\ pc = "off"
  /\ radio' = [freq |-> DriverFreq, mod |-> DefaultMod, mode |-> "rx"]
  /\ IF SettingsStored
       THEN pc' = "start" /\ rxFreq' = StoredFreq /\ rxMod' = stored.mod
       ELSE pc' = "putHigh" /\ rxFreq' = DefaultFreq /\ rxMod' = stored.mod
  /\ UNCHANGED <<job, stored, inRx, sending, pin, timer, pulses, resetAt, resets>>

-----------------------------------------------------------------------------
(* setRxFrequency and setRxModulation.                                      *)

\* Variant: refreshRxConfig is forgotten after a modulation was set.
NextUnrefreshed == IF job = "boot" THEN "start" ELSE "idle"

\* refreshRxConfig does nothing before receiving begins.
AfterStoring == IF inRx = "yes" THEN "tune" ELSE "start"

\* EEPROM.put of the float, one byte after the other.
PutHigh ==
  /\ pc = "putHigh" /\ pc' = "putLow"
  /\ stored' = [stored EXCEPT !.high = rxFreq.high]
  /\ UNCHANGED <<job, rxFreq, rxMod, inRx, sending, radio, pin, timer, pulses, resetAt, resets>>

\* During setup the default modulation follows.
PutLow ==
  /\ pc = "putLow"
  /\ stored' = [stored EXCEPT !.low = rxFreq.low]
  /\ IF job = "boot" THEN pc' = "putMod" /\ rxMod' = DefaultMod
                     ELSE pc' = AfterStoring /\ UNCHANGED rxMod
  /\ UNCHANGED <<job, rxFreq, inRx, sending, radio, pin, timer, pulses, resetAt, resets>>

\* Variant: the EEPROM keeps the old modulation.
ModKept == stored.mod

\* The modulation to be stored.
ModToStore == rxMod

PutMod ==
  /\ pc = "putMod" /\ pc' = AfterStoring
  /\ stored' = [stored EXCEPT !.mod = ModToStore]
  /\ UNCHANGED <<job, rxFreq, rxMod, inRx, sending, radio, pin, timer, pulses, resetAt, resets>>

-----------------------------------------------------------------------------
(* Receiving: refreshRxConfig, and the rest of endTransmission.             *)

\* During setup Timer1.initialize starts the timer before anything else.
StartReceiving ==
  /\ pc = "start" /\ pc' = "tune" /\ inRx' = "yes"
  /\ timer' = IF job = "boot" THEN "on" ELSE timer
  /\ UNCHANGED <<job, settings, sending, radio, pin, pulses, resetAt, resets>>

\* cc1101.endTransmission and setMHZ.
Tune ==
  /\ pc = "tune" /\ pc' = "modulate"
  /\ radio' = [radio EXCEPT !.freq = rxFreq, !.mode = "rx"]
  /\ UNCHANGED <<job, settings, inRx, sending, pin, timer, pulses, resetAt, resets>>

\* setModulation.  A set command is done then; setup and a transmission attach the interrupts.
Modulate ==
  /\ pc = "modulate" /\ pc' = IF job = "set" THEN "idle" ELSE "attach"
  /\ radio' = [radio EXCEPT !.mod = rxMod]
  /\ UNCHANGED <<job, settings, inRx, sending, pin, timer, pulses, resetAt, resets>>

\* Variant: the ring buffer is not flushed.
ResetOnly == decoder' = {} /\ fifo' = [i \in 1..Len(fifo) |-> "stale"]

\* signalDecoder.reset and fifo.flush, with interrupts disabled.
Flushed == decoder' = {} /\ fifo' = <<>>

\* lastRxTime is left as it is, and so is a time before receiving began.  An interrupt that is
\* pending here is a Capture that comes next.
Attach ==
  /\ pc = "attach" /\ pc' = "idle"
  /\ Flushed /\ lastRx' = "old"
  /\ pin' = "attached" /\ timer' = "on"
  /\ UNCHANGED <<job, settings, inRx, sending, radio, resetAt, resets>>

-----------------------------------------------------------------------------
(* The commands.  One with invalid parameters changes nothing.              *)

SetFrequency(f) ==
  /\ pc = "idle" /\ f \in Valid
  /\ pc' = "putHigh" /\ job' = "set" /\ rxFreq' = f
  /\ UNCHANGED <<rxMod, stored, inRx, sending, radio, pin, timer, pulses, resetAt, resets>>

SetModulation(m) ==
  /\ pc = "idle" /\ m \in ValidMods
  /\ pc' = "putMod" /\ job' = "set" /\ rxMod' = m
  /\ UNCHANGED <<rxFreq, stored, inRx, sending, radio, pin, timer, pulses, resetAt, resets>>

\* Variant: the frequency is not checked.
AnyTransmission(f, m) == m \in ValidMods

CanTransmit(f, m) == f \in Valid /\ m \in ValidMods

\* transmitData with parameters that parse, and the checks of beginTransmission.
Transmit(f, m, r) ==
  /\ pc = "idle" /\ inRx = "yes" /\ CanTransmit(f, m)
  /\ pc' = "detach" /\ job' = "send"
  /\ txFreq' = f /\ txMod' = m /\ repeats' = r /\ inRx' = "no"
  /\ UNCHANGED <<settings, radio, pin, timer, pulses, resetAt, resets>>

\* Variant: the pin's interrupt stays attached.
StaysAttached == "attached"

\* What detachInterrupt leaves.
PinDetached == "detached"

\* A timer interrupt that is pending here comes after sei and starts the timer again.
Detach ==
  /\ pc = "detach" /\ pc' = "txTune"
  /\ Flushed
  /\ pin' = PinDetached /\ timer' \in {"on", "off"}
  /\ UNCHANGED <<job, settings, inRx, sending, radio, lastRx, resetAt, resets>>

TuneToSend ==
  /\ pc = "txTune" /\ pc' = "txModulate"
  /\ radio' = [radio EXCEPT !.freq = txFreq]
  /\ UNCHANGED <<job, settings, inRx, sending, pin, timer, pulses, resetAt, resets>>

ModulateToSend ==
  /\ pc = "txModulate" /\ pc' = "txStart"
  /\ radio' = [radio EXCEPT !.mod = txMod]
  /\ UNCHANGED <<job, settings, inRx, sending, pin, timer, pulses, resetAt, resets>>

StartSending ==
  /\ pc = "txStart" /\ pc' = "send"
  /\ radio' = [radio EXCEPT !.mode = "tx"]
  /\ UNCHANGED <<job, settings, inRx, sending, pin, timer, pulses, resetAt, resets>>

\* All repeats are sent.  A byte counts them: with more than 255 they never are.
EndSending ==
  /\ pc = "send" /\ repeats = "some" /\ pc' = "start"
  /\ UNCHANGED <<job, settings, inRx, sending, radio, pin, timer, pulses, resetAt, resets>>

-----------------------------------------------------------------------------
(* The interrupts, and loopRxSystem.                                        *)

\* enqueue's check; a pulse without room is lost.
HasRoom == Len(fifo) < FifoSize

Listening == inRx = "yes" /\ pin = "attached"

\* The age of a pulse that is measured from lastRxTime until now.
AgeNow ==
  IF ~Listening THEN "stale" ELSE IF lastRx = "fresh" THEN "fresh" ELSE "spanning"

\* handleRxInterrupt and timer1RxSystem.  Both measure from lastRxTime and set it anew, also if the
\* pulse is shorter than minPulse or finds no room.
Capture ==
  /\ pin = "attached" \/ timer = "on"
  /\ lastRx' = IF Listening THEN "fresh" ELSE "old"
  /\ \/ HasRoom /\ fifo' = Append(fifo, AgeNow)
     \/ UNCHANGED fifo
  /\ UNCHANGED <<pc, job, settings, inRx, sending, radio, pin, timer, decoder, resetAt, resets>>

\* A pulse goes to the decoder, which goes on collecting or ends a message with it.
Decode ==
  /\ pc = "idle" /\ fifo # <<>>
  /\ fifo' = Tail(fifo)
  /\ decoder' \in {decoder \union {Head(fifo)}, {}}
  /\ UNCHANGED <<pc, job, settings, inRx, sending, radio, pin, timer, lastRx, resetAt, resets>>

-----------------------------------------------------------------------------
Setting == PutHigh \/ PutLow \/ PutMod
Receiving == StartReceiving \/ Tune \/ Modulate \/ Attach
Sending == Detach \/ TuneToSend \/ ModulateToSend \/ StartSending
MainStep == Boot \/ Setting \/ Receiving \/ Sending

Next ==
  \/ MainStep \/ EndSending \/ Watchdog \/ Reset
  \/ \E f \in Freqs : SetFrequency(f)
  \/ \E m \in Mods : SetModulation(m)
  \/ \E f \in Freqs, m \in Mods, r \in Repeats : Transmit(f, m, r)
  \/ Capture \/ Decode

\* The processor runs; a transmission ends or the watchdog bites.
Fairness == WF_vars(MainStep) /\ WF_vars(EndSending \/ Watchdog)

Spec == Init /\ [][Next]_vars /\ Fairness

-----------------------------------------------------------------------------
(* Properties.                                                              *)

\* Whenever the main loop runs, the radio receives with the settings in memory and both
\* interrupts are on: no command, and no transmission that failed or was cut off, leaves the
\* device deaf or on another frequency.
ListensAsSet ==
  pc = "idle" =>
    /\ radio = [freq |-> rxFreq, mod |-> rxMod, mode |-> "rx"]
    /\ inRx = "yes" /\ pin = "attached" /\ timer = "on"

\* Whenever the main loop runs, what is stored is what is used.
StoredAsSet == pc = "idle" => StoredFreq = rxFreq /\ stored.mod = rxMod

\* "The frequency is kept across restarts of the firmware": and the modulation, unless the
\* restart came while they were being stored.
KeptStep == pc = "off" /\ pc' # "off" /\ resetAt \notin Storing => UNCHANGED <<rxFreq, rxMod>>
KeptAcrossRestarts == [][KeptStep]_vars

\* The radio is only ever tuned where validFrequency and validModulation allow it, whatever a
\* blank EEPROM or a write that was cut off left behind.
InBand == radio.freq \in Valid \union {DriverFreq} /\ radio.mod \in ValidMods

\* While the radio sends it uses the transmission's parameters, and the level changes of its own
\* transmission raise no interrupt.
SendsUndisturbed ==
  pc = "send" => radio = [freq |-> txFreq, mod |-> txMod, mode |-> "tx"] /\ pin = "detached"

\* What was captured before or during a transmission never meets what is captured after it.  One
\* pulse may be measured across: the first, which nothing precedes in the buffer or the decoder.
NothingStale ==
  pc = "idle" =>
    /\ "stale" \notin ToSet(fifo) \union decoder
    /\ \A i \in 1..Len(fifo) : fifo[i] = "spanning" => i = 1 /\ decoder = {}

\* The device gets back to its main loop, and listens again, after whatever it is sent.
GetsBack == []<>(pc = "idle")
=============================================================================
