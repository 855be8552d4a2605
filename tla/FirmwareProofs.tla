--------------------------- MODULE FirmwareProofs ---------------------------
(***************************************************************************)
(* What the firmware guarantees for every set of frequencies and           *)
(* modulations, every buffer size and any number of resets.                *)
(*                                                                         *)
(* The safety properties only speak of the main loop, of a transmission or *)
(* of a restart.  They follow from one inductive invariant that says for   *)
(* each step of setup and of a command what is already in place: which     *)
(* job it can belong to, what of the settings is stored, how far the radio *)
(* is tuned and which interrupts are on.                                   *)
(***************************************************************************)
EXTENDS Firmware, SequenceTheorems, TLAPS

TxSteps == {"txTune", "txModulate", "txStart", "send"}

\* Which steps a job has, and whether in_rx is set in them.
JobInv ==
  /\ pc \in {"off"} => job = "boot"
  /\ pc \in {"detach"} \union TxSteps => job = "send"
  /\ pc \in Storing => job # "send"
  /\ pc \in {"start", "attach"} => job # "set"
  /\ job = "set" => inRx = "yes"
  /\ pc \in {"off", "start", "detach"} \union TxSteps => inRx = "no"
  /\ pc \in Storing /\ job = "boot" => inRx = "no"
  /\ pc \in {"tune", "modulate", "attach", "idle"} => inRx = "yes"

\* What is used is valid, and it is stored as far as the storing got.
StoredInv ==
  /\ pc # "off" => rxFreq \in Valid
  /\ pc \notin {"off", "putHigh", "putLow"} => rxMod \in ValidMods
  /\ job = "set" => rxMod \in ValidMods
  /\ pc \notin {"off", "putHigh"} => stored.high = rxFreq.high
  /\ pc \notin {"off", "putHigh", "putLow"} => stored.low = rxFreq.low
  /\ pc \notin {"off", "putMod"} => stored.mod = rxMod

\* How far the radio is tuned.
RadioInv ==
  /\ InBand
  /\ pc \in {"detach"} \union TxSteps => txFreq \in Valid /\ txMod \in ValidMods
  /\ pc \in {"modulate", "attach", "idle"} => radio.freq = rxFreq /\ radio.mode = "rx"
  /\ pc \in {"attach", "idle"} => radio.mod = rxMod
  /\ pc \in {"txModulate", "txStart", "send"} => radio.freq = txFreq
  /\ pc \in {"txStart", "send"} => radio.mod = txMod
  /\ pc = "send" => radio.mode = "tx"

\* The interrupts are on in the main loop and while a setting is changed; the pin's is off from
\* reset and from the start of a transmission until the device receives.
PinInv ==
  /\ pc \in {"idle"} \/ job = "set" => pin = "attached" /\ timer = "on"
  /\ pc \notin {"idle", "detach"} /\ job # "set" => pin = "detached"

\* While the interrupts are on for receiving there is nothing stale, and a pulse is measured across
\* a transmission only while nothing was captured since.
PulseInv ==
  pc = "idle" \/ job = "set" =>
    /\ "stale" \notin ToSet(fifo) /\ "stale" \notin decoder
    /\ lastRx = "old" => fifo = <<>> /\ decoder = {}
    /\ \A i \in 1..Len(fifo) : fifo[i] = "spanning" => i = 1 /\ decoder = {}

\* After a restart that did not come while they were stored, the settings are as they were.
RestartInv ==
  pc = "off" /\ resetAt \notin Storing \union {"off"} =>
    /\ rxFreq \in Valid /\ rxMod \in ValidMods
    /\ StoredFreq = rxFreq /\ stored.mod = rxMod

FirmwareInv ==
  TypeOK /\ JobInv /\ StoredInv /\ RadioInv /\ PinInv /\ PulseInv /\ RestartInv /\ resetAt # "off"

-----------------------------------------------------------------------------
(* Types.                                                                   *)

LEMMA FreqIs == \A f \in Freqs : f = [high |-> f.high, low |-> f.low]
  BY DEF Freqs

LEMMA ValidAreFreqs == \A f \in Valid : f \in Freqs /\ f.high \in Parts /\ f.low \in Parts
  BY FirmwareAssumption DEF Freqs

LEMMA AppendedSet ==
  ASSUME NEW S, NEW q \in Seq(S), NEW e \in S
  PROVE  ToSet(Append(q, e)) = ToSet(q) \union {e}
<1>1. /\ Len(q) \in Nat /\ DOMAIN q = 1..Len(q)
      /\ DOMAIN Append(q, e) = 1..(Len(q) + 1)
      /\ \A i \in 1..Len(q) : Append(q, e)[i] = q[i]
      /\ Append(q, e)[Len(q) + 1] = e
  BY LenProperties, AppendProperties
<1>2. 1..(Len(q) + 1) = 1..Len(q) \union {Len(q) + 1}
  BY <1>1
<1>3. QED BY <1>1, <1>2 DEF ToSet

LEMMA TailSet ==
  ASSUME NEW S, NEW q \in Seq(S), q # <<>>
  PROVE  ToSet(Tail(q)) \subseteq ToSet(q) /\ Head(q) \in ToSet(q)
<1>1. /\ Len(q) \in Nat \ {0} /\ DOMAIN q = 1..Len(q) /\ Head(q) = q[1]
      /\ Tail(q) \in Seq(S) /\ Len(Tail(q)) = Len(q) - 1
      /\ \A i \in 1..Len(Tail(q)) : Tail(q)[i] = q[i + 1]
  BY HeadTailProperties, LenProperties, EmptySeq
<1>2. DOMAIN Tail(q) = 1..Len(Tail(q))
  BY <1>1, LenProperties
<1>3. QED BY <1>1, <1>2 DEF ToSet

-----------------------------------------------------------------------------
(* The steps.                                                               *)

LEMMA StepCases ==
  ASSUME [Next]_vars
  PROVE  \/ Boot \/ PutHigh \/ PutLow \/ PutMod
         \/ StartReceiving \/ Tune \/ Modulate \/ Attach
         \/ Detach \/ TuneToSend \/ ModulateToSend \/ StartSending \/ EndSending
         \/ ResetNow /\ pc # "off"
         \/ \E f \in Freqs : SetFrequency(f)
         \/ \E m \in Mods : SetModulation(m)
         \/ \E f \in Freqs, m \in Mods, r \in Repeats : Transmit(f, m, r)
         \/ Capture \/ Decode \/ UNCHANGED vars
  BY DEF Next, MainStep, Setting, Receiving, Sending, Watchdog, Reset

\* A step hands on to a step that its job has.
LEMMA JobStep ==
  ASSUME FirmwareInv, [Next]_vars
  PROVE  JobInv'
<1> USE FirmwareInv DEF FirmwareInv, settings, sending, pulses, JobInv, TxSteps, Storing
<1>1. CASE Boot  BY <1>1 DEF Boot, SettingsStored, StoredFreq
<1>2. CASE PutHigh  BY <1>2 DEF PutHigh
<1>3. CASE PutLow  BY <1>3 DEF PutLow, AfterStoring, TypeOK
<1>4. CASE PutMod  BY <1>4 DEF PutMod, AfterStoring, ModToStore, TypeOK
<1>5. CASE StartReceiving  BY <1>5 DEF StartReceiving
<1>6. CASE Tune  BY <1>6 DEF Tune
<1>7. CASE Modulate  BY <1>7 DEF Modulate
<1>8. CASE Attach  BY <1>8 DEF Attach, Flushed
<1>9. CASE Detach  BY <1>9 DEF Detach, Flushed, PinDetached
<1>10. CASE TuneToSend  BY <1>10 DEF TuneToSend
<1>11. CASE ModulateToSend  BY <1>11 DEF ModulateToSend
<1>12. CASE StartSending  BY <1>12 DEF StartSending
<1>13. CASE EndSending  BY <1>13 DEF EndSending
<1>14. CASE ResetNow /\ pc # "off"  BY <1>14 DEF ResetNow
<1>15. ASSUME NEW f \in Freqs, SetFrequency(f) PROVE JobInv'
  BY <1>15 DEF SetFrequency
<1>16. ASSUME NEW m \in Mods, SetModulation(m) PROVE JobInv'
  BY <1>16 DEF SetModulation
<1>17. ASSUME NEW f \in Freqs, NEW m \in Mods, NEW r \in Repeats, Transmit(f, m, r) PROVE JobInv'
  BY <1>17 DEF Transmit, CanTransmit
<1>18. CASE Capture  BY <1>18 DEF Capture
<1>19. CASE Decode  BY <1>19 DEF Decode
<1>20. CASE UNCHANGED vars  BY <1>20 DEF vars
<1>21. QED
  BY <1>1, <1>2, <1>3, <1>4, <1>5, <1>6, <1>7, <1>8, <1>9, <1>10, <1>11, <1>12, <1>13, <1>14, <1>15, <1>16, <1>17, <1>18, <1>19, <1>20, StepCases

\* A setting is used only when it is valid, and its storing is finished before the next step.
LEMMA StoredStep ==
  ASSUME FirmwareInv, [Next]_vars
  PROVE  StoredInv'
<1> USE FirmwareInv DEF FirmwareInv, settings, sending, pulses, StoredInv, JobInv, TxSteps, Storing
<1>1. CASE Boot  BY <1>1, FirmwareAssumption DEF Boot, SettingsStored, StoredFreq, TypeOK
<1>2. CASE PutHigh  BY <1>2 DEF PutHigh
<1>3. CASE PutLow  BY <1>3, FirmwareAssumption DEF PutLow, AfterStoring, TypeOK
<1>4. CASE PutMod  BY <1>4 DEF PutMod, AfterStoring, ModToStore
<1>5. CASE StartReceiving  BY <1>5 DEF StartReceiving
<1>6. CASE Tune  BY <1>6 DEF Tune
<1>7. CASE Modulate  BY <1>7 DEF Modulate
<1>8. CASE Attach  BY <1>8 DEF Attach, Flushed
<1>9. CASE Detach  BY <1>9 DEF Detach, Flushed, PinDetached
<1>10. CASE TuneToSend  BY <1>10 DEF TuneToSend
<1>11. CASE ModulateToSend  BY <1>11 DEF ModulateToSend
<1>12. CASE StartSending  BY <1>12 DEF StartSending
<1>13. CASE EndSending  BY <1>13 DEF EndSending
<1>14. CASE ResetNow /\ pc # "off"  BY <1>14 DEF ResetNow
<1>15. ASSUME NEW f \in Freqs, SetFrequency(f) PROVE StoredInv'
  BY <1>15 DEF SetFrequency
<1>16. ASSUME NEW m \in Mods, SetModulation(m) PROVE StoredInv'
  BY <1>16 DEF SetModulation
<1>17. ASSUME NEW f \in Freqs, NEW m \in Mods, NEW r \in Repeats, Transmit(f, m, r) PROVE StoredInv'
  BY <1>17 DEF Transmit, CanTransmit
<1>18. CASE Capture  BY <1>18 DEF Capture
<1>19. CASE Decode  BY <1>19 DEF Decode
<1>20. CASE UNCHANGED vars  BY <1>20 DEF vars
<1>21. QED
  BY <1>1, <1>2, <1>3, <1>4, <1>5, <1>6, <1>7, <1>8, <1>9, <1>10, <1>11, <1>12, <1>13, <1>14, <1>15, <1>16, <1>17, <1>18, <1>19, <1>20, StepCases

\* The radio is tuned to what was checked before.
LEMMA RadioStep ==
  ASSUME FirmwareInv, [Next]_vars
  PROVE  RadioInv'
<1> USE FirmwareInv DEF FirmwareInv, settings, sending, pulses, RadioInv, InBand, StoredInv, JobInv, TxSteps, Storing
<1>1. CASE Boot  BY <1>1, FirmwareAssumption DEF Boot, SettingsStored, StoredFreq
<1>2. CASE PutHigh  BY <1>2 DEF PutHigh
<1>3. CASE PutLow  BY <1>3 DEF PutLow, AfterStoring
<1>4. CASE PutMod  BY <1>4 DEF PutMod, AfterStoring, ModToStore
<1>5. CASE StartReceiving  BY <1>5 DEF StartReceiving
<1>6. CASE Tune  BY <1>6 DEF Tune
<1>7. CASE Modulate  BY <1>7 DEF Modulate
<1>8. CASE Attach  BY <1>8 DEF Attach, Flushed
<1>9. CASE Detach  BY <1>9 DEF Detach, Flushed, PinDetached
<1>10. CASE TuneToSend  BY <1>10 DEF TuneToSend
<1>11. CASE ModulateToSend  BY <1>11 DEF ModulateToSend
<1>12. CASE StartSending  BY <1>12 DEF StartSending
<1>13. CASE EndSending  BY <1>13 DEF EndSending
<1>14. CASE ResetNow /\ pc # "off"  BY <1>14 DEF ResetNow
<1>15. ASSUME NEW f \in Freqs, SetFrequency(f) PROVE RadioInv'
  BY <1>15 DEF SetFrequency
<1>16. ASSUME NEW m \in Mods, SetModulation(m) PROVE RadioInv'
  BY <1>16 DEF SetModulation
<1>17. ASSUME NEW f \in Freqs, NEW m \in Mods, NEW r \in Repeats, Transmit(f, m, r) PROVE RadioInv'
  BY <1>17 DEF Transmit, CanTransmit
<1>18. CASE Capture  BY <1>18 DEF Capture
<1>19. CASE Decode  BY <1>19 DEF Decode
<1>20. CASE UNCHANGED vars  BY <1>20 DEF vars
<1>21. QED
  BY <1>1, <1>2, <1>3, <1>4, <1>5, <1>6, <1>7, <1>8, <1>9, <1>10, <1>11, <1>12, <1>13, <1>14, <1>15, <1>16, <1>17, <1>18, <1>19, <1>20, StepCases

\* The interrupts are attached last and detached first.
LEMMA PinStep ==
  ASSUME FirmwareInv, [Next]_vars
  PROVE  PinInv'
<1> USE FirmwareInv DEF FirmwareInv, settings, sending, pulses, PinInv, JobInv, TxSteps, Storing
<1>1. CASE Boot  BY <1>1 DEF Boot, SettingsStored, StoredFreq
<1>2. CASE PutHigh  BY <1>2 DEF PutHigh
<1>3. CASE PutLow  BY <1>3 DEF PutLow, AfterStoring
<1>4. CASE PutMod  BY <1>4 DEF PutMod, AfterStoring, ModToStore
<1>5. CASE StartReceiving  BY <1>5 DEF StartReceiving
<1>6. CASE Tune  BY <1>6 DEF Tune
<1>7. CASE Modulate  BY <1>7 DEF Modulate
<1>8. CASE Attach  BY <1>8 DEF Attach, Flushed
<1>9. CASE Detach  BY <1>9 DEF Detach, Flushed, PinDetached
<1>10. CASE TuneToSend  BY <1>10 DEF TuneToSend
<1>11. CASE ModulateToSend  BY <1>11 DEF ModulateToSend
<1>12. CASE StartSending  BY <1>12 DEF StartSending
<1>13. CASE EndSending  BY <1>13 DEF EndSending
<1>14. CASE ResetNow /\ pc # "off"  BY <1>14 DEF ResetNow
<1>15. ASSUME NEW f \in Freqs, SetFrequency(f) PROVE PinInv'
  BY <1>15 DEF SetFrequency
<1>16. ASSUME NEW m \in Mods, SetModulation(m) PROVE PinInv'
  BY <1>16 DEF SetModulation
<1>17. ASSUME NEW f \in Freqs, NEW m \in Mods, NEW r \in Repeats, Transmit(f, m, r) PROVE PinInv'
  BY <1>17 DEF Transmit, CanTransmit
<1>18. CASE Capture  BY <1>18 DEF Capture
<1>19. CASE Decode  BY <1>19 DEF Decode
<1>20. CASE UNCHANGED vars  BY <1>20 DEF vars
<1>21. QED
  BY <1>1, <1>2, <1>3, <1>4, <1>5, <1>6, <1>7, <1>8, <1>9, <1>10, <1>11, <1>12, <1>13, <1>14, <1>15, <1>16, <1>17, <1>18, <1>19, <1>20, StepCases

\* The buffer and the decoder are emptied before the interrupts go on, and the first pulse after that
\* sets lastRxTime.
LEMMA PulseStep ==
  ASSUME FirmwareInv, [Next]_vars
  PROVE  PulseInv'
<1> USE FirmwareInv DEF FirmwareInv, settings, sending, pulses, PulseInv, PinInv, JobInv, TxSteps, Storing
<1>1. CASE Boot  BY <1>1 DEF Boot, SettingsStored, StoredFreq
<1>2. CASE PutHigh  BY <1>2 DEF PutHigh
<1>3. CASE PutLow  BY <1>3 DEF PutLow, AfterStoring
<1>4. CASE PutMod  BY <1>4 DEF PutMod, AfterStoring, ModToStore
<1>5. CASE StartReceiving  BY <1>5 DEF StartReceiving
<1>6. CASE Tune  BY <1>6 DEF Tune
<1>7. CASE Modulate  BY <1>7 DEF Modulate
<1>8. CASE Attach  BY <1>8 DEF Attach, Flushed, ToSet
<1>9. CASE Detach  BY <1>9 DEF Detach, Flushed, PinDetached
<1>10. CASE TuneToSend  BY <1>10 DEF TuneToSend
<1>11. CASE ModulateToSend  BY <1>11 DEF ModulateToSend
<1>12. CASE StartSending  BY <1>12 DEF StartSending
<1>13. CASE EndSending  BY <1>13 DEF EndSending
<1>14. CASE ResetNow /\ pc # "off"  BY <1>14 DEF ResetNow
<1>15. ASSUME NEW f \in Freqs, SetFrequency(f) PROVE PulseInv'
  BY <1>15 DEF SetFrequency
<1>16. ASSUME NEW m \in Mods, SetModulation(m) PROVE PulseInv'
  BY <1>16 DEF SetModulation
<1>17. ASSUME NEW f \in Freqs, NEW m \in Mods, NEW r \in Repeats, Transmit(f, m, r) PROVE PulseInv'
  BY <1>17 DEF Transmit, CanTransmit
<1>18. CASE Capture
  <2> SUFFICES ASSUME pc = "idle" \/ job = "set", fifo' = Append(fifo, AgeNow)
               PROVE  PulseInv'
    BY <1>18 DEF Capture, Listening, TypeOK
  <2>1. Listening /\ lastRx' = "fresh" /\ UNCHANGED <<pc, job, decoder>>
    BY <1>18 DEF Capture, Listening, TypeOK
  <2>2. AgeNow \in Ages /\ AgeNow = (IF lastRx = "fresh" THEN "fresh" ELSE "spanning")
    BY <2>1 DEF AgeNow, Ages
  <2>3. ToSet(fifo') = ToSet(fifo) \union {AgeNow}
    BY <2>2, AppendedSet DEF TypeOK
  <2>4. /\ Len(fifo) \in Nat /\ Len(fifo') = Len(fifo) + 1
        /\ \A i \in 1..Len(fifo) : fifo'[i] = fifo[i]
        /\ fifo'[Len(fifo) + 1] = AgeNow
    BY <2>2, AppendProperties, LenProperties DEF TypeOK
  <2>5. ASSUME NEW i \in 1..Len(fifo'), fifo'[i] = "spanning" PROVE i = 1 /\ decoder' = {}
    <3>1. CASE i \in 1..Len(fifo)
      BY <2>1, <2>4, <2>5, <3>1
    <3>2. CASE i = Len(fifo) + 1
      <4>1. lastRx = "old"
        BY <2>2, <2>4, <2>5, <3>2 DEF TypeOK
      <4>2. fifo = <<>> /\ decoder = {}
        BY <4>1
      <4>3. QED BY <2>1, <3>2, <4>2, EmptySeq
    <3>3. QED BY <2>4, <3>1, <3>2
  <2>6. QED BY <2>1, <2>2, <2>3, <2>5
<1>19. CASE Decode
  <2> SUFFICES ASSUME pc = "idle" PROVE PulseInv'
    BY <1>19 DEF Decode
  <2>1. ToSet(Tail(fifo)) \subseteq ToSet(fifo) /\ Head(fifo) \in ToSet(fifo)
    BY <1>19, TailSet DEF Decode, TypeOK
  <2>2. /\ Len(fifo) \in Nat /\ Len(fifo') = Len(fifo) - 1
        /\ \A i \in 1..Len(fifo') : fifo'[i] = fifo[i + 1]
    BY <1>19, HeadTailProperties, LenProperties DEF Decode, TypeOK
  <2>3. \A i \in 1..Len(fifo') : fifo'[i] # "spanning"
    BY <2>2
  <2>4. "stale" \notin decoder' /\ "stale" \notin ToSet(fifo') /\ lastRx' # "old"
    BY <1>19, <2>1 DEF Decode, TypeOK
  <2>5. QED BY <2>3, <2>4
<1>20. CASE UNCHANGED vars  BY <1>20 DEF vars
<1>21. QED
  BY <1>1, <1>2, <1>3, <1>4, <1>5, <1>6, <1>7, <1>8, <1>9, <1>10, <1>11, <1>12, <1>13, <1>14, <1>15, <1>16, <1>17, <1>18, <1>19, <1>20, StepCases

\* A reset keeps what was stored completely.
LEMMA RestartStep ==
  ASSUME FirmwareInv, [Next]_vars
  PROVE  RestartInv'
<1> USE FirmwareInv DEF FirmwareInv, settings, sending, pulses, RestartInv, StoredInv, StoredFreq, Storing
<1>1. CASE Boot  BY <1>1 DEF Boot, SettingsStored, StoredFreq
<1>2. CASE PutHigh  BY <1>2 DEF PutHigh
<1>3. CASE PutLow  BY <1>3 DEF PutLow, AfterStoring
<1>4. CASE PutMod  BY <1>4 DEF PutMod, AfterStoring, ModToStore
<1>5. CASE StartReceiving  BY <1>5 DEF StartReceiving
<1>6. CASE Tune  BY <1>6 DEF Tune
<1>7. CASE Modulate  BY <1>7 DEF Modulate
<1>8. CASE Attach  BY <1>8 DEF Attach, Flushed
<1>9. CASE Detach  BY <1>9 DEF Detach, Flushed, PinDetached
<1>10. CASE TuneToSend  BY <1>10 DEF TuneToSend
<1>11. CASE ModulateToSend  BY <1>11 DEF ModulateToSend
<1>12. CASE StartSending  BY <1>12 DEF StartSending
<1>13. CASE EndSending  BY <1>13 DEF EndSending
<1>14. CASE ResetNow /\ pc # "off"  BY <1>14, FreqIs, ValidAreFreqs DEF ResetNow
<1>15. ASSUME NEW f \in Freqs, SetFrequency(f) PROVE RestartInv'
  BY <1>15 DEF SetFrequency
<1>16. ASSUME NEW m \in Mods, SetModulation(m) PROVE RestartInv'
  BY <1>16 DEF SetModulation
<1>17. ASSUME NEW f \in Freqs, NEW m \in Mods, NEW r \in Repeats, Transmit(f, m, r) PROVE RestartInv'
  BY <1>17 DEF Transmit, CanTransmit
<1>18. CASE Capture  BY <1>18 DEF Capture
<1>19. CASE Decode  BY <1>19 DEF Decode
<1>20. CASE UNCHANGED vars  BY <1>20 DEF vars
<1>21. QED
  BY <1>1, <1>2, <1>3, <1>4, <1>5, <1>6, <1>7, <1>8, <1>9, <1>10, <1>11, <1>12, <1>13, <1>14, <1>15, <1>16, <1>17, <1>18, <1>19, <1>20, StepCases

\* The buffer holds FifoSize pulses at most.
LEMMA TypeStep ==
  ASSUME FirmwareInv, [Next]_vars
  PROVE  TypeOK'
<1> USE FirmwareInv DEF FirmwareInv, TypeOK, settings, sending, pulses, Steps, Storing
<1>1. CASE Boot
  BY <1>1, FirmwareAssumption, ValidAreFreqs DEF Boot, SettingsStored
<1>2. CASE PutHigh \/ PutLow \/ PutMod
  <2>1. rxFreq.high \in Parts /\ rxFreq.low \in Parts
    BY DEF Freqs
  <2>2. QED BY <1>2, <2>1, FirmwareAssumption DEF PutHigh, PutLow, PutMod, AfterStoring, ModToStore
<1>3. CASE StartReceiving \/ Tune \/ Modulate
  <2>1. CASE StartReceiving
    BY <2>1 DEF StartReceiving
  <2>2. CASE Tune
    BY <2>2 DEF Tune
  <2>3. CASE Modulate
    BY <2>3 DEF Modulate
  <2>4. QED BY <1>3, <2>1, <2>2, <2>3
<1>4. CASE Attach \/ Detach
  <2>1. fifo' = <<>> /\ decoder' = {}
    BY <1>4 DEF Attach, Detach, Flushed
  <2>2. QED BY <1>4, <2>1, EmptySeq, FirmwareAssumption DEF Attach, Detach, PinDetached
<1>5. CASE TuneToSend \/ ModulateToSend \/ StartSending \/ EndSending
  BY <1>5 DEF TuneToSend, ModulateToSend, StartSending, EndSending
<1>6. ASSUME NEW f \in Freqs, SetFrequency(f) PROVE TypeOK'
  BY <1>6 DEF SetFrequency
<1>7. ASSUME NEW m \in Mods, SetModulation(m) PROVE TypeOK'
  BY <1>7 DEF SetModulation
<1>8. ASSUME NEW f \in Freqs, NEW m \in Mods, NEW r \in Repeats, Transmit(f, m, r) PROVE TypeOK'
  BY <1>8 DEF Transmit
<1>9. CASE Capture
  <2>1. AgeNow \in Ages
    BY DEF AgeNow, Ages
  <2>2. fifo' \in Seq(Ages) /\ Len(fifo') <= FifoSize
    BY <1>9, <2>1, FirmwareAssumption, AppendProperties, LenProperties DEF Capture, HasRoom
  <2>3. QED BY <1>9, <2>2 DEF Capture
<1>10. CASE Decode
  BY <1>10, FirmwareAssumption, HeadTailProperties DEF Decode
<1>11. CASE Watchdog \/ Reset
  <2>1. fifo' = <<>> /\ fifo' \in Seq(Ages) /\ Len(fifo') = 0 /\ decoder' = {}
    BY <1>11, EmptySeq DEF Watchdog, Reset, ResetNow
  <2>2. resets' \in 0..MaxResets
    BY <1>11, FirmwareAssumption DEF Watchdog, Reset
  <2>3. QED BY <1>11, <2>1, <2>2, FirmwareAssumption DEF Watchdog, Reset, ResetNow
<1>12. CASE UNCHANGED vars
  BY <1>12 DEF vars
<1>13. QED
  BY <1>1, <1>2, <1>3, <1>4, <1>5, <1>6, <1>7, <1>8, <1>9, <1>10, <1>11, <1>12
  DEF Next, MainStep, Setting, Receiving, Sending

-----------------------------------------------------------------------------
(* The invariant.                                                           *)

LEMMA InitInv == Init => FirmwareInv
<1> SUFFICES ASSUME Init PROVE FirmwareInv
  OBVIOUS
<1>1. TypeOK
  BY FirmwareAssumption, ValidAreFreqs DEF Init, TypeOK, Steps, Storing, Repeats
<1>2. JobInv /\ StoredInv /\ PinInv /\ PulseInv /\ RestartInv
  BY DEF Init, JobInv, StoredInv, PinInv, PulseInv, RestartInv, TxSteps, Storing
<1>3. RadioInv
  BY FirmwareAssumption DEF Init, RadioInv, InBand, TxSteps
<1>4. QED BY <1>1, <1>2, <1>3 DEF FirmwareInv, Init

LEMMA NextInv == FirmwareInv /\ [Next]_vars => FirmwareInv'
<1> SUFFICES ASSUME FirmwareInv, [Next]_vars PROVE FirmwareInv'
  OBVIOUS
<1>1. (resetAt # "off")'
  BY StepCases DEF FirmwareInv, Boot, PutHigh, PutLow, PutMod, StartReceiving, Tune, Modulate, Attach,
     Detach, TuneToSend, ModulateToSend, StartSending, EndSending, ResetNow, SetFrequency,
     SetModulation, Transmit, Capture, Decode, vars
<1>2. QED
  BY <1>1, TypeStep, JobStep, StoredStep, RadioStep, PinStep, PulseStep, RestartStep DEF FirmwareInv

THEOREM FirmwareSafe == Spec => []FirmwareInv
  BY InitInv, NextInv, PTL DEF Spec

-----------------------------------------------------------------------------
(* What follows from it.                                                    *)

\* Type correctness: the firmware is always in a step of setup, of a command or in its main loop.
THEOREM FirmwareTypeOK == Spec => []TypeOK
<1>1. FirmwareInv => TypeOK
  BY DEF FirmwareInv
<1>2. QED BY <1>1, FirmwareSafe, PTL

\* The main loop always receives as set, after any sequence of commands, transmissions and resets.
THEOREM FirmwareListens == Spec => []ListensAsSet
<1>1. FirmwareInv => ListensAsSet
  BY DEF FirmwareInv, ListensAsSet, RadioInv, PinInv, JobInv, TypeOK
<1>2. QED BY <1>1, FirmwareSafe, PTL

\* In the main loop the EEPROM holds what is used.
THEOREM FirmwareStores == Spec => []StoredAsSet
<1>1. FirmwareInv => StoredAsSet
  BY FreqIs, ValidAreFreqs DEF FirmwareInv, StoredAsSet, StoredInv, StoredFreq
<1>2. QED BY <1>1, FirmwareSafe, PTL

\* The radio is never tuned to anything that was not checked.
THEOREM FirmwareStaysInBand == Spec => []InBand
<1>1. FirmwareInv => InBand
  BY DEF FirmwareInv, RadioInv
<1>2. QED BY <1>1, FirmwareSafe, PTL

\* A transmission uses its own parameters and disturbs no reception.
THEOREM FirmwareSends == Spec => []SendsUndisturbed
<1>1. FirmwareInv => SendsUndisturbed
  BY DEF FirmwareInv, TypeOK, SendsUndisturbed, RadioInv, PinInv, JobInv, TxSteps
<1>2. QED BY <1>1, FirmwareSafe, PTL

\* No message has pulses from both sides of a transmission, but for the time its first one may
\* count from before.
THEOREM FirmwareDropsStale == Spec => []NothingStale
<1>1. FirmwareInv => NothingStale
  BY DEF FirmwareInv, NothingStale, PulseInv
<1>2. QED BY <1>1, FirmwareSafe, PTL

\* A restart keeps the settings, wherever it comes but while they are stored.
THEOREM FirmwareKeeps == Spec => KeptAcrossRestarts
<1>1. ASSUME FirmwareInv, [Next]_vars
      PROVE  [KeptStep]_vars
  <2>1. CASE Boot
    BY <1>1, <2>1 DEF FirmwareInv, RestartInv, Boot, SettingsStored, KeptStep
  <2>2. CASE pc # "off" \/ pc' = "off"
    BY <2>2 DEF KeptStep
  <2>3. QED
    BY <1>1, <2>1, <2>2, StepCases DEF PutHigh, PutLow, PutMod, StartReceiving, Tune, Modulate,
       Attach, Detach, TuneToSend, ModulateToSend, StartSending, EndSending, SetFrequency,
       SetModulation, Transmit, Capture, Decode, vars
<1>2. QED BY <1>1, FirmwareSafe, PTL DEF Spec, KeptAcrossRestarts
=============================================================================
