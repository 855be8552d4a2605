------------------------------- MODULE Receiver -------------------------------
(***************************************************************************)
(* From a received line to what Home Assistant shows: the hub hands the    *)
(* decoded readings to the sensors (hub.py, remote.py, sensor.py) and      *)
(* fires the rest as events, once for a press of a remote                  *)
(* (signalduino/coder.py).  A sensor that no checksum vouches for is only  *)
(* added when heard again.                                                 *)
(*                                                                         *)
(* Time passes in ticks of a second, and what a clock is compared with is  *)
(* kept as its age.  A clock's age is capped where no comparison tells it  *)
(* from a higher one: an entry that old is pruned before it is looked at.  *)
(***************************************************************************)
EXTENDS Integers, FiniteSets, SequencesExt

CONSTANTS
  Lines,         \* the lines that may be received at each of the places where the receiver may be
  Decoded,       \* the signals of each of the lines (process_signal_line)
  Sent,          \* the signals that the sensors and remotes of all places send
  Mistaken,      \* those that a code without a check makes of lines that were damaged
  Unchecked,     \* UNCHECKED_CODERS, besides all of SIGNALduino's protocols
  NoProtocol,    \* the protocol of a signal that has none
  Unknown,       \* no value
  RepeatWindow,  \* REPEAT_WINDOW
  MinGap,        \* AUTOCREATE_MIN_GAP
  Window         \* AUTOCREATE_WINDOW

Places == DOMAIN Lines
Signals == UNION {UNION {Decoded[l] : l \in Lines[p]} : p \in Places}

\* A line is decoded to a list, in the order of its packets, which is left open.
Receptions == [p \in Places |-> UNION {SetToSeqs(Decoded[l]) : l \in Lines[p]}]

Sensors(signals) == {s \in signals : s.type = "sensor"}
SensorsOf(signals) == Sensors(ToSet(signals))

NeedsConfirmation(signal) == signal.protocol # NoProtocol \/ signal.coder \in Unchecked
Device(signal) == <<signal.coder, signal.id>>
Key(signal) == <<signal.coder, signal.id, signal.subtype>>

Readings == Sensors(Signals)
Messages == {s \in Signals : s.type = "message"}
Keys == {Key(s) : s \in Readings}
Devices == {Device(s) : s \in {r \in Readings : NeedsConfirmation(r)}}
Values == {s.value : s \in Readings}

ASSUME LinesAssumption == \A p \in Places : \A l \in Lines[p] : IsFiniteSet(Decoded[l])

\* The names of the own coders and of SIGNALduino's clients differ.
ASSUME CodersAssumption ==
  \A r, s \in Readings : r.coder = s.coder => (NeedsConfirmation(r) <=> NeedsConfirmation(s))

ASSUME TimesAssumption ==
  /\ RepeatWindow \in Nat \ {0} /\ MinGap \in Nat \ {0} /\ Window \in Nat /\ 2 * MinGap <= Window
  /\ Unknown \notin Values

VARIABLES
  place,         \* where the receiver is
  recent,        \* SignalduinoCoder._recent: for how long a message was not heard
  sightings,     \* _sightings: for how long the first sighting of a device is past
  confirmed,     \* _confirmed
  entities,      \* the entities of the platforms, by their key: the live ones are registered
  saved,         \* the values stored of sensors that are gone
  automaticAdd,  \* the option
  fired,         \* the events of the last step
  \* What was really received:
  heard,         \* how long ago each unconfirmed device was, since the hub is loaded
  again,         \* the devices that were heard twice within the window
  surely,        \* those of them that were heard twice well within it
  silence,       \* for how long each message was not
  latest         \* the last reading of each sensor that has an entity

hub == <<place, recent, sightings, confirmed>>
received == <<heard, again, surely, silence, latest>>
vars == <<hub, entities, saved, automaticAdd, fired, received>>

None == Window + 1  \* no sighting, or one that is pruned
Absent == [status |-> "none", value |-> Unknown]

\* Variant: nothing is pruned.
NeverPruned(age, cap) == age + 1

Capped(age, cap) == IF age < cap THEN age + 1 ELSE cap

-----------------------------------------------------------------------------
(* A received line (_handle_line).                                          *)

\* A device that was sighted within the window, and not just now.
Confirms(device) == sightings[device] # None /\ sightings[device] >= MinGap

\* Variant: a repeat makes the sighting a new one.
SightedAgain(device) == IF Confirms(device) THEN None ELSE 0

Sighted(device) == IF Confirms(device) THEN None ELSE IF sightings[device] = None THEN 0 ELSE sightings[device]

Unconfirmed(signals) ==
  {Device(s) : s \in {r \in SensorsOf(signals) : NeedsConfirmation(r)}} \ confirmed

\* _note_sightings.
NoteSightings(signals) ==
  /\ sightings' = [d \in Devices |-> IF d \in Unconfirmed(signals) THEN Sighted(d) ELSE sightings[d]]
  /\ confirmed' = confirmed \union {d \in Unconfirmed(signals) : Confirms(d)}

\* Variant: a repeat is not remembered.
HeardNow(message) == IF recent[message] < RepeatWindow THEN recent[message] ELSE 0

\* _is_repeat: whether a message is one, and for how long it was not heard from now on.
IsRepeat(message) == recent[message] < RepeatWindow
Remembered(message) == 0

\* Remotes repeat each press, but only the first of the messages is an event.
FireEvents(signals) ==
  /\ fired' = {s \in ToSet(signals) : s.type # "sensor" /\ ~ (s.type = "message" /\ IsRepeat(s))}
  /\ recent' = [m \in Messages |-> IF m \in ToSet(signals) THEN Remembered(m) ELSE recent[m]]

\* Whether a reading is for an entity, or makes one.
Accepted(signal) ==
  \/ entities[Key(signal)].status # "none"
  \/ automaticAdd /\ (NeedsConfirmation(signal) => Device(signal) \in confirmed')

\* Where in a line a sensor's values are.
Reports(signals, k) == {n \in DOMAIN signals : signals[n].type = "sensor" /\ Key(signals[n]) = k}

\* handle_signal, for one after the other: an entity that is added has the value before it is shown,
\* or gets it after, and another value of the same line comes last.
HandleSignals(signals) ==
  LET accepted(k) == {n \in Reports(signals, k) : Accepted(signals[n])}
      status(k) == IF entities[k].status = "none" THEN "pending" ELSE entities[k].status
  IN entities' = [k \in Keys |->
       IF accepted(k) = {} THEN entities[k]
       ELSE [status |-> status(k), value |-> signals[Max(accepted(k))].value]]

\* The bookkeeping of what was received.
HearAgain(signals) ==
  LET devices == Unconfirmed(signals)
      before(first, last) == {d \in devices : \E age \in heard[d] : age \in first..last}
  IN /\ again' = again \union before(MinGap, Window)
     /\ surely' = surely \union before(MinGap, Window - MinGap)
     /\ heard' = [d \in Devices |-> IF d \in confirmed' THEN {}
                                    ELSE heard[d] \union {age \in {0} : d \in devices}]

\* A line that is decoded to these signals.
Receive(signals) ==
  /\ NoteSightings(signals) /\ FireEvents(signals) /\ HandleSignals(signals)
  /\ HearAgain(signals)
  /\ silence' = [m \in Messages |-> IF m \in ToSet(signals) THEN 0 ELSE silence[m]]
  /\ latest' = [k \in Keys |->
       IF entities'[k].status # "none" /\ Reports(signals, k) # {}
       THEN signals[Max(Reports(signals, k))].value ELSE latest[k]]
  /\ UNCHANGED <<place, saved, automaticAdd>>

-----------------------------------------------------------------------------
(* Home Assistant and the user.                                             *)

\* Variant: what is stored is taken in any case.
RestoredAlways(k, value) == IF saved[k] = Unknown THEN value ELSE saved[k]

\* async_added_to_hass: the stored value, unless there is one already.
Restored(k, value) == IF value = Unknown THEN saved[k] ELSE value

\* An entity is added, registered and shown.
Added(k) ==
  /\ entities[k].status = "pending"
  /\ entities' = [entities EXCEPT ![k].status = "live", ![k].value = Restored(k, @)]
  /\ saved' = [saved EXCEPT ![k] = Unknown]
  /\ fired' = {}
  /\ UNCHANGED <<hub, automaticAdd, received>>

\* The user deletes the device of a sensor; its values are stored.
RemoveDevice(device) ==
  LET removed == {k \in Keys : <<k[1], k[2]>> = device /\ entities[k].status = "live"}
  IN /\ removed # {}
     /\ entities' = [k \in Keys |-> IF k \in removed THEN [entities[k] EXCEPT !.status = "removed"]
                                    ELSE entities[k]]
     /\ saved' = [k \in Keys |-> IF k \in removed THEN entities[k].value ELSE saved[k]]
     /\ fired' = {}
     /\ UNCHANGED <<hub, automaticAdd, received>>

\* The entry is loaded anew, with a hub and a coder that remember nothing.  The values of all
\* entities are stored; those registered are recreated and have theirs again before the hub is
\* started, and one that was just being added is forgotten.
Reload ==
  LET live == {k \in Keys : entities[k].status = "live"}
  IN /\ entities' = [k \in Keys |-> IF k \in live THEN entities[k] ELSE Absent]
     /\ latest' = [k \in Keys |-> IF k \in live THEN latest[k] ELSE Unknown]
     /\ automaticAdd' \in BOOLEAN
     /\ recent' = [m \in Messages |-> RepeatWindow] /\ silence' = recent'
     /\ sightings' = [d \in Devices |-> None] /\ heard' = [d \in Devices |-> {}]
     /\ confirmed' = {} /\ again' = {} /\ surely' = {}
     /\ fired' = {}
     /\ UNCHANGED <<place, saved>>

Tick ==
  /\ recent' = [m \in Messages |-> Capped(recent[m], RepeatWindow)]
  /\ silence' = [m \in Messages |-> Capped(silence[m], RepeatWindow)]
  /\ sightings' = [d \in Devices |-> Capped(sightings[d], None)]
  /\ heard' = [d \in Devices |-> {age + 1 : age \in heard[d]} \ {None}]
  /\ fired' = {}
  /\ UNCHANGED <<place, confirmed, entities, saved, automaticAdd, again, surely, latest>>

-----------------------------------------------------------------------------
Init ==
  /\ place \in Places
  /\ recent = [m \in Messages |-> RepeatWindow] /\ silence = recent
  /\ sightings = [d \in Devices |-> None] /\ heard = [d \in Devices |-> {}]
  /\ confirmed = {} /\ again = {} /\ surely = {}
  /\ entities = [k \in Keys |-> Absent]
  /\ saved = [k \in Keys |-> Unknown] /\ latest = saved
  /\ automaticAdd \in BOOLEAN
  /\ fired = {}

Next ==
  \/ \E signals \in Receptions[place] : Receive(signals)
  \/ \E k \in Keys : Added(k)
  \/ \E k \in Keys : RemoveDevice(<<k[1], k[2]>>)
  \/ Reload
  \/ Tick

Spec == Init /\ [][Next]_vars

-----------------------------------------------------------------------------
(* Properties.                                                              *)

Statuses == {"none", "pending", "live", "removed"}

\* Every variable has its type.
TypeOK ==
  /\ place \in Places
  /\ recent \in [Messages -> 0..RepeatWindow] /\ silence \in [Messages -> 0..RepeatWindow]
  /\ sightings \in [Devices -> 0..None] /\ heard \in [Devices -> SUBSET (0..Window)]
  /\ confirmed \subseteq Devices /\ again \subseteq Devices /\ surely \subseteq Devices
  /\ entities \in [Keys -> [status : Statuses, value : Values \union {Unknown}]]
  /\ saved \in [Keys -> Values \union {Unknown}] /\ latest \in [Keys -> Values \union {Unknown}]
  /\ automaticAdd \in BOOLEAN
  /\ fired \subseteq Signals

\* A sensor that no checksum vouches for is only added for a device that was heard at two times
\* which are neither those of one transmission nor further apart than the window (is_confirmed);
\* and heard at two such times it is confirmed, unless they are further apart than the window less
\* the gap: whatever else was heard in between, and however the entry was reloaded (_note_sightings).
SensorsAreHeardTwice ==
  [][/\ surely' \subseteq confirmed'
     /\ \A s \in Readings :
          NeedsConfirmation(s) /\ entities[Key(s)].status = "none" /\ entities'[Key(s)].status # "none"
            => Device(s) \in again']_vars

\* However long a remote's button is held, it fires once: an event only comes after silence,
\* and what comes after silence is an event (_is_repeat).
OneEventPerPress ==
  [][\A m \in Messages : m \in fired' <=> (silence[m] = RepeatWindow /\ silence'[m] = 0)]_vars

\* A sensor that is shown shows what it last reported, as its value was when it was added, when
\* it was recreated, and when it was removed and is heard again (async_added_to_hass, handle_value).
ShowsLastHeard == \A k \in Keys : entities[k].status = "live" => entities[k].value = latest[k]

\* What the own coders make of a line that was cut, joined of parts that disagree, or, where the
\* code has a check, received with a wrong bit, is never shown as a reading nor fired as an event:
\* it was sent (decode_internal, unpack, postDemo_FS20), or it is what a code without a check
\* (UNCHECKED_CODERS, Minka Aire and the IT remotes) makes of wrong bits, or of parts of two packets
\* that do not disagree.
DecodedWasSent ==
  LET possible == Sent \union Mistaken
  IN /\ fired \subseteq possible
     /\ \A s \in Readings : s.protocol = NoProtocol /\ entities[Key(s)].status = "live"
          => \E r \in Sensors(possible) : Key(r) = Key(s) /\ r.value = entities[Key(s)].value

=============================================================================
