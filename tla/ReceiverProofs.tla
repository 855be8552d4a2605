--------------------------- MODULE ReceiverProofs ---------------------------
(***************************************************************************)
(* Proofs about Receiver, for any lines and what they are decoded to.      *)
(*                                                                         *)
(* ClockInv says that the repeats are counted from the last time a message *)
(* was heard, SightingInv how the one sighting that is kept of a device    *)
(* stands for all the times it was heard, and ValueInv what an entity      *)
(* shows while it is added.                                                *)
(***************************************************************************)
EXTENDS Receiver, FiniteSetTheorems, WellFoundedInduction, TLAPS

\* How the time t since a device was heard relates to the sighting s: it is within the gap after
\* the sighting, or so long ago that the sighting before it may be pruned.
Stands(s, t) == (t <= s /\ s < t + MinGap /\ s <= Window) \/ t > Window - MinGap

ClockInv == recent = silence

SightingInv ==
  /\ confirmed \subseteq again /\ surely \subseteq confirmed
  /\ \A d \in Devices :
       /\ sightings[d] # None => sightings[d] \in heard[d]
       /\ d \in confirmed => sightings[d] = None /\ heard[d] = {}
       /\ \A t \in heard[d] : Stands(sightings[d], t)

ValueInv ==
  \A k \in Keys :
    /\ entities[k].status \in {"pending", "live"} => entities[k].value = latest[k]
    /\ entities[k].status = "pending" => entities[k].value \in Values

ReceiverInv == TypeOK /\ ClockInv /\ SightingInv /\ ValueInv

-----------------------------------------------------------------------------
(* What is received.                                                        *)

Under == {pair \in Nat \X Nat : pair[1] < pair[2]}

LEMMA UnderIsWellFounded == IsWellFoundedOn(Under, Nat)
  BY NatLessThanWellFounded, Zenon DEF OpToRel, Under

\* Of some of the places in a list one is the last.
LEMMA LastPlace ==
  ASSUME NEW n \in Nat, NEW S \in SUBSET (1..n), S # {}
  PROVE  Max(S) \in S
  <1> DEFINE fromEnd == {n - i : i \in S}
  <1>1. fromEnd \subseteq Nat /\ fromEnd # {}
    <2>1. \A i \in S : n - i \in Nat
      OBVIOUS
    <2> QED BY <2>1
  <1>2. PICK least \in fromEnd : \A j \in fromEnd : <<j, least>> \notin Under
    BY <1>1, UnderIsWellFounded, WFMin, Zenon
  <1>3. ASSUME NEW j \in fromEnd
        PROVE  j >= least
    <2>1. j \in Nat /\ least \in Nat
      BY <1>1, <1>2
    <2>2. ~ (j < least)
      BY <1>2, <2>1 DEF Under
    <2> QED BY <2>1, <2>2
  <1>4. PICK i \in S : least = n - i
    BY <1>2
  <1>5. \A j \in S : i >= j
    BY <1>3, <1>4
  <1> QED BY <1>4, <1>5 DEF Max

\* A reception is a list of signals.
LEMMA ReceptionsAreLists ==
  ASSUME place \in Places, NEW signals \in Receptions[place]
  PROVE  \E n \in Nat : signals \in [1..n -> Signals]
  <1>1. PICK l \in Lines[place] : signals \in SetToSeqs(Decoded[l])
    BY DEF Receptions
  <1>2. Cardinality(Decoded[l]) \in Nat
    BY <1>1, LinesAssumption, FS_CardinalityType
  <1>3. signals \in [1..Cardinality(Decoded[l]) -> Decoded[l]]
    BY <1>1 DEF SetToSeqs
  <1>4. Decoded[l] \subseteq Signals
    BY <1>1 DEF Signals
  <1> QED BY <1>2, <1>3, <1>4

LEMMA ReceptionsAreSignals ==
  ASSUME place \in Places, NEW signals \in Receptions[place]
  PROVE  /\ ToSet(signals) \subseteq Signals
         /\ Unconfirmed(signals) \subseteq Devices
         /\ \A m \in Messages : m.type = "message"
  <1>1. ToSet(signals) \subseteq Signals
    BY ReceptionsAreLists DEF ToSet
  <1>2. SensorsOf(signals) \subseteq Readings
    BY <1>1 DEF SensorsOf, Sensors, Readings
  <1>3. Unconfirmed(signals) \subseteq Devices
    BY <1>2 DEF Unconfirmed, Devices
  <1>4. \A m \in Messages : m.type = "message"
    BY DEF Messages
  <1> QED BY <1>1, <1>3, <1>4

\* A value of a sensor in a line is a reading, and one is the last.
LEMMA ReportsAreReadings ==
  ASSUME place \in Places, NEW signals \in Receptions[place], NEW k
  PROVE  /\ \A n \in Reports(signals, k) : /\ signals[n] \in Readings /\ Key(signals[n]) = k
                                          /\ signals[n].value \in Values
         /\ \A S \in SUBSET Reports(signals, k) : S # {} => Max(S) \in S
  <1>1. PICK n \in Nat : signals \in [1..n -> Signals]
    BY ReceptionsAreLists
  <1>2. Reports(signals, k) \subseteq 1..n
    BY <1>1 DEF Reports
  <1>3. \A i \in Reports(signals, k) : signals[i] \in Readings /\ Key(signals[i]) = k
    BY <1>1, <1>2 DEF Reports, Readings, Sensors
  <1>4. \A i \in Reports(signals, k) : signals[i].value \in Values
    BY <1>3 DEF Values
  <1> QED BY <1>1, <1>2, <1>3, <1>4, LastPlace

-----------------------------------------------------------------------------
(* Type correctness.                                                        *)

LEMMA InitTypeOK ==
  ASSUME Init
  PROVE  TypeOK
  BY TimesAssumption DEF Init, TypeOK, None, Absent, Statuses

LEMMA ReceiveSightingsType ==
  ASSUME TypeOK, NEW signals \in Receptions[place], Receive(signals)
  PROVE  /\ sightings' \in [Devices -> 0..None] /\ heard' \in [Devices -> SUBSET (0..Window)]
         /\ confirmed' \subseteq Devices /\ again' \subseteq Devices /\ surely' \subseteq Devices
  <1>1. Unconfirmed(signals) \subseteq Devices
    BY ReceptionsAreSignals DEF TypeOK
  <1>2. NoteSightings(signals) /\ HearAgain(signals)
    BY DEF Receive
  <1>3. sightings' \in [Devices -> 0..None]
    BY <1>2, TimesAssumption DEF NoteSightings, Sighted, TypeOK, None
  <1>4. confirmed' \subseteq Devices
    BY <1>1, <1>2 DEF NoteSightings, TypeOK
  <1>5. heard' \in [Devices -> SUBSET (0..Window)]
    BY <1>2, TimesAssumption DEF HearAgain, TypeOK
  <1>6. again' \subseteq Devices /\ surely' \subseteq Devices
    BY <1>1, <1>2 DEF HearAgain, TypeOK
  <1> QED BY <1>3, <1>4, <1>5, <1>6

\* Of a sensor's values in a line, all are for an entity or make one, or none is.
LEMMA AcceptedAlike ==
  ASSUME NEW r \in Readings, NEW s \in Readings, Key(r) = Key(s), Accepted(r)
  PROVE  Accepted(s)
  <1>1. r.coder = s.coder /\ r.id = s.id
    BY DEF Key
  <1>2. NeedsConfirmation(r) <=> NeedsConfirmation(s)
    BY <1>1, CodersAssumption
  <1> QED BY <1>1, <1>2 DEF Accepted, Device

\* What a line makes of an entity: the last of its values is what it has.
LEMMA EntityAfter ==
  ASSUME TypeOK, NEW signals \in Receptions[place], Receive(signals), NEW k \in Keys
  PROVE  \/ /\ \A n \in Reports(signals, k) : ~ Accepted(signals[n])
            /\ entities'[k] = entities[k]
         \/ /\ Reports(signals, k) # {}
            /\ \A n \in Reports(signals, k) : Accepted(signals[n])
            /\ entities'[k].value = signals[Max(Reports(signals, k))].value
            /\ entities'[k].status = IF entities[k].status = "none" THEN "pending"
                                     ELSE entities[k].status
            /\ entities'[k] \in [status : {entities'[k].status}, value : Values]
  <1> DEFINE accepted == {n \in Reports(signals, k) : Accepted(signals[n])}
             status == IF entities[k].status = "none" THEN "pending" ELSE entities[k].status
  <1>1. entities'[k] = IF accepted = {} THEN entities[k]
                       ELSE [status |-> status, value |-> signals[Max(accepted)].value]
    BY DEF Receive, HandleSignals
  <1>2. CASE accepted = {}
    BY <1>1, <1>2
  <1>3. CASE accepted # {}
    <2>1. PICK i \in Reports(signals, k) : Accepted(signals[i])
      BY <1>3
    <2>2. \A n \in Reports(signals, k) : Accepted(signals[n])
      BY <2>1, ReportsAreReadings, AcceptedAlike DEF TypeOK
    <2>3. accepted = Reports(signals, k)
      BY <2>2
    <2>4. signals[Max(accepted)].value \in Values
      <3>1. Max(accepted) \in Reports(signals, k)
        BY <1>3, <2>3, ReportsAreReadings, Zenon DEF TypeOK
      <3> QED BY <3>1, ReportsAreReadings DEF TypeOK
    <2> HIDE DEF accepted, status
    <2>5. entities'[k] = [status |-> status, value |-> signals[Max(accepted)].value]
      BY <1>1, <1>3
    <2> QED BY <1>3, <2>2, <2>3, <2>4, <2>5 DEF status
  <1> QED BY <1>2, <1>3

LEMMA ReceiveTypeOK ==
  ASSUME TypeOK, NEW signals \in Receptions[place], Receive(signals)
  PROVE  TypeOK'
  <1>1. /\ place' = place /\ saved' = saved /\ automaticAdd' = automaticAdd
        /\ FireEvents(signals) /\ HandleSignals(signals)
    BY DEF Receive
  <1>2. recent' \in [Messages -> 0..RepeatWindow]
    BY <1>1, TimesAssumption DEF FireEvents, Remembered, TypeOK
  <1>3. silence' \in [Messages -> 0..RepeatWindow]
    BY TimesAssumption DEF Receive, TypeOK
  <1>4. entities' \in [Keys -> [status : Statuses, value : Values \union {Unknown}]]
    <2>1. \A k \in Keys : entities'[k] \in [status : Statuses, value : Values \union {Unknown}]
      <3> TAKE k \in Keys
      <3>1. entities[k] \in [status : Statuses, value : Values \union {Unknown}]
        BY DEF TypeOK
      <3>2. CASE entities'[k] = entities[k]
        BY <3>1, <3>2
      <3>3. CASE /\ entities'[k].status = IF entities[k].status = "none" THEN "pending"
                                          ELSE entities[k].status
                 /\ entities'[k] \in [status : {entities'[k].status}, value : Values]
        <4>1. entities'[k].status \in Statuses
          BY <3>1, <3>3 DEF Statuses
        <4> QED BY <3>3, <4>1
      <3> QED BY <3>2, <3>3, EntityAfter
    <2>2. entities' = [k \in Keys |-> entities'[k]]
      BY <1>1 DEF HandleSignals
    <2> QED BY <2>1, <2>2
  <1>5. latest' \in [Keys -> Values \union {Unknown}]
    <2>1. \A k \in Keys : Reports(signals, k) # {}
            => signals[Max(Reports(signals, k))].value \in Values
      BY ReportsAreReadings DEF TypeOK
    <2> QED BY <2>1 DEF Receive, TypeOK
  <1>6. fired' \subseteq Signals
    BY <1>1, ReceptionsAreSignals DEF FireEvents, TypeOK
  <1> QED BY <1>1, <1>2, <1>3, <1>4, <1>5, <1>6, ReceiveSightingsType DEF TypeOK

LEMMA StepTypeOK ==
  ASSUME TypeOK, [Next]_vars
  PROVE  TypeOK'
  <1>1. CASE \E signals \in Receptions[place] : Receive(signals)
    BY <1>1, ReceiveTypeOK
  <1>2. ASSUME NEW k \in Keys, Added(k)
        PROVE  TypeOK'
    <2>1. entities[k] \in [status : Statuses, value : Values \union {Unknown}] /\ saved[k] \in Values \union {Unknown}
      BY DEF TypeOK
    <2>2. Restored(k, entities[k].value) \in Values \union {Unknown}
      BY <2>1 DEF Restored
    <2>3. entities' \in [Keys -> [status : Statuses, value : Values \union {Unknown}]]
      BY <1>2, <2>1, <2>2 DEF Added, TypeOK, Statuses
    <2> QED BY <1>2, <2>3 DEF Added, TypeOK, hub, received
  <1>3. ASSUME NEW device, RemoveDevice(device)
        PROVE  TypeOK'
    <2>1. entities' \in [Keys -> [status : Statuses, value : Values \union {Unknown}]]
      BY <1>3 DEF RemoveDevice, TypeOK, Statuses
    <2>2. saved' \in [Keys -> Values \union {Unknown}]
      BY <1>3 DEF RemoveDevice, TypeOK
    <2> QED BY <1>3, <2>1, <2>2 DEF RemoveDevice, TypeOK, hub, received
  <1>4. CASE Reload
    <2>1. entities' \in [Keys -> [status : Statuses, value : Values \union {Unknown}]]
      BY <1>4 DEF Reload, TypeOK, Absent, Statuses
    <2> QED BY <1>4, <2>1, TimesAssumption DEF Reload, TypeOK, None
  <1>5. CASE Tick
    <2>1. /\ recent' \in [Messages -> 0..RepeatWindow] /\ silence' \in [Messages -> 0..RepeatWindow]
          /\ sightings' \in [Devices -> 0..None]
      BY <1>5, TimesAssumption DEF Tick, Capped, TypeOK, None
    <2>2. heard' \in [Devices -> SUBSET (0..Window)]
      <3>1. ASSUME NEW d \in Devices
            PROVE  {age + 1 : age \in heard[d]} \ {None} \subseteq 0..Window
        <4>1. heard[d] \subseteq 0..Window
          BY DEF TypeOK
        <4>2. \A age \in 0..Window : age + 1 \in 0..Window \/ age + 1 = None
          BY TimesAssumption DEF None
        <4> QED BY <4>1, <4>2
      <3> QED BY <1>5, <3>1 DEF Tick
    <2> QED BY <1>5, <2>1, <2>2 DEF Tick, TypeOK
  <1>6. CASE UNCHANGED vars
    BY <1>6 DEF TypeOK, vars, hub, received
  <1> QED BY <1>1, <1>2, <1>3, <1>4, <1>5, <1>6 DEF Next

-----------------------------------------------------------------------------
(* The sightings.                                                           *)

\* The first sighting stands for what was heard since.
LEMMA ConfirmedInTime ==
  ASSUME TypeOK, SightingInv, NEW d \in Devices
  PROVE  /\ Confirms(d) => \E t \in heard[d] : t \in MinGap..Window
         /\ (\E t \in heard[d] : t \in MinGap..(Window - MinGap)) => Confirms(d)
  BY TimesAssumption DEF TypeOK, SightingInv, Confirms, Stands, None

LEMMA ReceiveSightingInv ==
  ASSUME TypeOK, SightingInv, NEW signals \in Receptions[place], Receive(signals)
  PROVE  SightingInv'
  <1> DEFINE new == Unconfirmed(signals)
  <1>1. new \subseteq Devices /\ new \intersect confirmed = {}
    BY ReceptionsAreSignals DEF TypeOK, Unconfirmed
  <1>2. confirmed' = confirmed \union {d \in new : Confirms(d)}
    BY DEF Receive, NoteSightings
  <1>3. again' = again \union {d \in new : \E t \in heard[d] : t \in MinGap..Window}
    BY DEF Receive, HearAgain
  <1>4. surely' = surely \union {d \in new : \E t \in heard[d] : t \in MinGap..(Window - MinGap)}
    BY DEF Receive, HearAgain
  <1>5. confirmed' \subseteq again' /\ surely' \subseteq confirmed'
    BY <1>1, <1>2, <1>3, <1>4, ConfirmedInTime DEF SightingInv
  <1>6. ASSUME NEW d \in Devices
        PROVE  /\ sightings'[d] # None => sightings'[d] \in heard'[d]
               /\ d \in confirmed' => sightings'[d] = None /\ heard'[d] = {}
               /\ \A t \in heard'[d] : Stands(sightings'[d], t)
    <2>1. sightings'[d] = IF d \in new THEN Sighted(d) ELSE sightings[d]
      BY DEF Receive, NoteSightings
    <2>2. heard'[d] = IF d \in confirmed' THEN {} ELSE heard[d] \union {age \in {0} : d \in new}
      BY DEF Receive, HearAgain
    <2>3. CASE d \in confirmed'
      <3>1. sightings'[d] = None
        BY <1>1, <1>2, <2>1, <2>3 DEF Sighted, SightingInv
      <3> QED BY <2>2, <2>3, <3>1
    <2>4. CASE d \in new /\ d \notin confirmed'
      <3>1. ~ Confirms(d)
        BY <1>2, <2>4
      <3>2. sightings'[d] = IF sightings[d] = None THEN 0 ELSE sightings[d]
        BY <2>1, <2>4, <3>1 DEF Sighted
      <3>3. heard'[d] = heard[d] \union {0}
        BY <2>2, <2>4
      <3>4. sightings[d] \in 0..None /\ heard[d] \subseteq 0..Window
        BY DEF TypeOK
      <3>5. /\ sightings[d] # None => sightings[d] \in heard[d] /\ sightings[d] < MinGap
            /\ \A t \in heard[d] : Stands(sightings[d], t)
        BY <3>1, <3>4, TimesAssumption DEF SightingInv, Confirms, None
      <3>6. Stands(sightings'[d], 0)
        BY <3>2, <3>4, <3>5, TimesAssumption DEF Stands, None
      <3>7. \A t \in heard[d] : Stands(sightings'[d], t)
        BY <3>2, <3>4, <3>5, TimesAssumption DEF Stands, None
      <3> QED BY <2>4, <3>2, <3>3, <3>5, <3>6, <3>7
    <2>5. CASE d \notin new /\ d \notin confirmed'
      <3>1. sightings'[d] = sightings[d] /\ heard'[d] = heard[d]
        BY <2>1, <2>2, <2>5
      <3> QED BY <2>5, <3>1 DEF SightingInv
    <2> QED BY <2>3, <2>4, <2>5
  <1>7. None' = None
    BY DEF None
  <1> QED BY <1>5, <1>6, <1>7 DEF SightingInv, Stands

LEMMA TickSightingInv ==
  ASSUME TypeOK, SightingInv, Tick
  PROVE  SightingInv'
  <1>1. confirmed' = confirmed /\ again' = again /\ surely' = surely
    BY DEF Tick
  <1>2. ASSUME NEW d \in Devices
        PROVE  /\ sightings'[d] # None => sightings'[d] \in heard'[d]
               /\ d \in confirmed => sightings'[d] = None /\ heard'[d] = {}
               /\ \A t \in heard'[d] : Stands(sightings'[d], t)
    <2>1. sightings[d] \in 0..None /\ heard[d] \subseteq 0..Window
      BY DEF TypeOK
    <2>2. sightings'[d] = IF sightings[d] < None THEN sightings[d] + 1 ELSE None
      BY DEF Tick, Capped
    <2>3. heard'[d] = {age + 1 : age \in heard[d]} \ {None}
      BY DEF Tick
    <2>4. sightings'[d] # None => sightings'[d] \in heard'[d]
      BY <2>1, <2>2, <2>3, TimesAssumption DEF SightingInv, None
    <2>5. d \in confirmed => sightings'[d] = None /\ heard'[d] = {}
      BY <2>1, <2>2, <2>3, TimesAssumption DEF SightingInv, None
    <2>6. ASSUME NEW t \in heard'[d]
          PROVE  Stands(sightings'[d], t)
      <3>1. PICK age \in heard[d] : t = age + 1 /\ t # None
        BY <2>3, <2>6
      <3>2. Stands(sightings[d], age)
        BY DEF SightingInv
      <3> QED BY <2>1, <2>2, <3>1, <3>2, TimesAssumption DEF Stands, None
    <2> QED BY <2>4, <2>5, <2>6
  <1>3. None' = None
    BY DEF None
  <1> QED BY <1>1, <1>2, <1>3 DEF SightingInv, Stands

LEMMA StepSightingInv ==
  ASSUME TypeOK, SightingInv, [Next]_vars
  PROVE  SightingInv'
  <1>1. CASE \E signals \in Receptions[place] : Receive(signals)
    BY <1>1, ReceiveSightingInv
  <1>2. CASE \E k \in Keys : Added(k)
    BY <1>2 DEF Added, SightingInv, Stands, None, hub, received
  <1>3. CASE \E k \in Keys : RemoveDevice(<<k[1], k[2]>>)
    BY <1>3 DEF RemoveDevice, SightingInv, Stands, None, hub, received
  <1>4. CASE Reload
    BY <1>4 DEF Reload, SightingInv, Stands, None
  <1>5. CASE Tick
    BY <1>5, TickSightingInv
  <1>6. CASE UNCHANGED vars
    BY <1>6 DEF SightingInv, Stands, None, vars, hub, received
  <1> QED BY <1>1, <1>2, <1>3, <1>4, <1>5, <1>6 DEF Next

-----------------------------------------------------------------------------
(* What entities show.                                                      *)

LEMMA ReceiveValueInv ==
  ASSUME TypeOK, ValueInv, NEW signals \in Receptions[place], Receive(signals)
  PROVE  ValueInv'
  <1> SUFFICES ASSUME NEW k \in Keys, entities'[k].status \in {"pending", "live"}
               PROVE  /\ entities'[k].value = latest'[k]
                      /\ entities'[k].status = "pending" => entities'[k].value \in Values
    BY DEF ValueInv
  <1>1. latest'[k] = IF Reports(signals, k) # {} THEN signals[Max(Reports(signals, k))].value
                     ELSE latest[k]
    BY DEF Receive
  <1>2. CASE /\ \A n \in Reports(signals, k) : ~ Accepted(signals[n])
             /\ entities'[k] = entities[k]
    <2>1. Reports(signals, k) = {}
      BY <1>2, ReportsAreReadings DEF Accepted, TypeOK
    <2> QED BY <1>1, <1>2, <2>1 DEF ValueInv
  <1>3. CASE /\ Reports(signals, k) # {}
             /\ entities'[k].value = signals[Max(Reports(signals, k))].value
    BY <1>1, <1>3, ReportsAreReadings DEF TypeOK
  <1> QED BY <1>2, <1>3, EntityAfter

LEMMA StepValueInv ==
  ASSUME TypeOK, ValueInv, [Next]_vars
  PROVE  ValueInv'
  <1>1. CASE \E signals \in Receptions[place] : Receive(signals)
    BY <1>1, ReceiveValueInv
  <1>2. ASSUME NEW added \in Keys, Added(added)
        PROVE  ValueInv'
    <2>1. Restored(added, entities[added].value) = entities[added].value
      BY <1>2, TimesAssumption DEF Added, Restored, ValueInv
    <2>2. entities' = [entities EXCEPT ![added].status = "live"]
      BY <1>2, <2>1 DEF Added, TypeOK
    <2> QED BY <1>2, <2>2 DEF Added, ValueInv, TypeOK, received
  <1>3. CASE \E k \in Keys : RemoveDevice(<<k[1], k[2]>>)
    BY <1>3 DEF RemoveDevice, ValueInv, TypeOK, received
  <1>4. CASE Reload
    BY <1>4 DEF Reload, ValueInv, TypeOK, Absent
  <1>5. CASE Tick
    BY <1>5 DEF Tick, ValueInv
  <1>6. CASE UNCHANGED vars
    BY <1>6 DEF ValueInv, vars, received
  <1> QED BY <1>1, <1>2, <1>3, <1>4, <1>5, <1>6 DEF Next

-----------------------------------------------------------------------------
LEMMA StepClockInv ==
  ASSUME TypeOK, ClockInv, [Next]_vars
  PROVE  ClockInv'
  <1>1. CASE \E signals \in Receptions[place] : Receive(signals)
    BY <1>1 DEF Receive, FireEvents, Remembered, ClockInv
  <1>2. CASE \E k \in Keys : Added(k)
    BY <1>2 DEF Added, ClockInv, hub, received
  <1>3. CASE \E k \in Keys : RemoveDevice(<<k[1], k[2]>>)
    BY <1>3 DEF RemoveDevice, ClockInv, hub, received
  <1>4. CASE Reload
    BY <1>4 DEF Reload, ClockInv
  <1>5. CASE Tick
    BY <1>5 DEF Tick, ClockInv
  <1>6. CASE UNCHANGED vars
    BY <1>6 DEF ClockInv, vars, hub, received
  <1> QED BY <1>1, <1>2, <1>3, <1>4, <1>5, <1>6 DEF Next

LEMMA InitReceiverInv ==
  ASSUME Init
  PROVE  ReceiverInv
  <1>1. TypeOK
    BY InitTypeOK
  <1>2. ClockInv /\ SightingInv /\ ValueInv
    BY DEF Init, ClockInv, SightingInv, ValueInv, Absent
  <1> QED BY <1>1, <1>2 DEF ReceiverInv

LEMMA StepReceiverInv ==
  ASSUME ReceiverInv, [Next]_vars
  PROVE  ReceiverInv'
  BY StepTypeOK, StepClockInv, StepSightingInv, StepValueInv DEF ReceiverInv

\* The invariant holds whatever is received, however lines are decoded.
THEOREM ReceiverInvariant == Spec => []ReceiverInv
  <1>1. Init => ReceiverInv
    BY InitReceiverInv
  <1>2. ReceiverInv /\ [Next]_vars => ReceiverInv'
    BY StepReceiverInv
  <1> QED BY <1>1, <1>2, PTL DEF Spec

\* Every variable keeps its type.
THEOREM ReceiverTypeOK == Spec => []TypeOK
  <1>1. ReceiverInv => TypeOK
    BY DEF ReceiverInv
  <1> QED BY <1>1, ReceiverInvariant, PTL

\* A sensor that is shown shows what it last reported, the last of a line with several of its values
\* (async_added_to_hass, handle_value).
THEOREM SensorsShowLastHeard == Spec => []ShowsLastHeard
  <1>1. ReceiverInv => ShowsLastHeard
    BY DEF ReceiverInv, ValueInv, ShowsLastHeard
  <1> QED BY <1>1, ReceiverInvariant, PTL

\* A press is one event, however often the remote repeats it (_is_repeat).
THEOREM PressesFireOnce == Spec => OneEventPerPress
  <1> DEFINE Press == \A m \in Messages : m \in fired' <=> (silence[m] = RepeatWindow /\ silence'[m] = 0)
  <1>1. ASSUME ReceiverInv, [Next]_vars
        PROVE  [Press]_vars
    <2>0. recent = silence /\ silence \in [Messages -> 0..RepeatWindow] /\ place \in Places
      BY <1>1 DEF ReceiverInv, ClockInv, TypeOK
    <2>1. ASSUME NEW signals \in Receptions[place], Receive(signals), NEW m \in Messages
          PROVE  m \in fired' <=> (silence[m] = RepeatWindow /\ silence'[m] = 0)
      <3>1. m.type = "message"
        BY <2>0, ReceptionsAreSignals
      <3>2. m \in fired' <=> m \in ToSet(signals) /\ ~ (silence[m] < RepeatWindow)
        BY <2>0, <2>1, <3>1 DEF Receive, FireEvents, IsRepeat
      <3>3. silence[m] \in 0..RepeatWindow /\ silence'[m] = IF m \in ToSet(signals) THEN 0 ELSE silence[m]
        BY <2>0, <2>1 DEF Receive
      <3> QED BY <3>2, <3>3, TimesAssumption
    <2>2. CASE \E k \in Keys : Added(k)
      BY <2>0, <2>2, TimesAssumption DEF Added, received
    <2>3. CASE \E k \in Keys : RemoveDevice(<<k[1], k[2]>>)
      BY <2>0, <2>3, TimesAssumption DEF RemoveDevice, received
    <2>4. CASE Reload
      BY <2>0, <2>4, TimesAssumption DEF Reload
    <2>5. CASE Tick
      BY <2>0, <2>5, TimesAssumption DEF Tick, Capped
    <2> QED BY <1>1, <2>1, <2>2, <2>3, <2>4, <2>5 DEF Next
  <1> QED BY <1>1, ReceiverInvariant, PTL DEF Spec, OneEventPerPress

\* A sensor without a checksum is added after it was heard twice, and never later than that
\* (_note_sightings, is_confirmed).
THEOREM SensorsAreConfirmed == Spec => SensorsAreHeardTwice
  <1> DEFINE Added2(s) == NeedsConfirmation(s) /\ entities[Key(s)].status = "none"
                            /\ entities'[Key(s)].status # "none"
             Twice == surely' \subseteq confirmed' /\ \A s \in Readings : Added2(s) => Device(s) \in again'
  <1>1. ASSUME ReceiverInv, ReceiverInv', [Next]_vars
        PROVE  [Twice]_vars
    <2> USE DEF ReceiverInv
    <2>1. surely' \subseteq confirmed' /\ confirmed' \subseteq again'
      BY <1>1 DEF SightingInv
    <2>2. ASSUME NEW signals \in Receptions[place], Receive(signals), NEW s \in Readings, Added2(s)
          PROVE  Device(s) \in again'
      <3>1. Key(s) \in Keys
        BY DEF Keys
      <3>2. PICK n \in Reports(signals, Key(s)) : Accepted(signals[n])
        BY <1>1, <2>2, <3>1, EntityAfter
      <3> DEFINE r == signals[n]
      <3>5. r \in Readings /\ Key(r) = Key(s)
        BY <1>1, ReportsAreReadings DEF TypeOK
      <3>3. Device(r) = Device(s)
        BY <3>5 DEF Key, Device
      <3>4. NeedsConfirmation(r)
        <4>1. r \in Readings /\ r.coder = s.coder
          BY <3>5 DEF Key
        <4> QED BY <2>2, <4>1, CodersAssumption
      <3> QED BY <2>1, <2>2, <3>2, <3>3, <3>4, <3>5 DEF Accepted
    <2>3. ASSUME NEW k \in Keys, Added(k), NEW s \in Readings
          PROVE  ~ Added2(s)
      <3>1. Key(s) \in Keys
        BY DEF Keys
      <3> QED BY <1>1, <2>3, <3>1 DEF Added, TypeOK
    <2>4. ASSUME NEW device, RemoveDevice(device), NEW s \in Readings
          PROVE  ~ Added2(s)
      <3>1. Key(s) \in Keys
        BY DEF Keys
      <3> QED BY <1>1, <2>4, <3>1 DEF RemoveDevice, TypeOK
    <2>5. ASSUME Reload, NEW s \in Readings
          PROVE  ~ Added2(s)
      <3>1. Key(s) \in Keys
        BY DEF Keys
      <3> QED BY <1>1, <2>5, <3>1 DEF Reload, TypeOK, Absent
    <2>6. CASE Tick
      BY <2>1, <2>6 DEF Tick
    <2> QED BY <1>1, <2>1, <2>2, <2>3, <2>4, <2>5, <2>6 DEF Next
  <1> QED BY <1>1, ReceiverInvariant, PTL DEF Spec, SensorsAreHeardTwice
=============================================================================
