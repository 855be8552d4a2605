--------------------------------- MODULE Air ---------------------------------
(***************************************************************************)
(* Telegrams that reach SIGNALduino damaged.                               *)
(*                                                                         *)
(* A receiver takes a bit for the other one, begins to listen after a      *)
(* telegram began, or takes its levels the wrong way round.  None of this  *)
(* is the code's: it is what the checks of Codes, SdWs and Clients are     *)
(* for.  What they make of a telegram is what it is heard as: readings,    *)
(* and the messages that a client which is not modelled would read.        *)
(***************************************************************************)
EXTENDS Clients

CONSTANT Telegrams  \* those that may be sent

VARIABLES
  telegram,  \* the one that is sent
  flipped,   \* the places of its bits that are received as the other one
  lost,      \* how many of its first bits are not received
  inverted   \* it is received inverted

vars == <<telegram, flipped, lost, inverted>>

\* protocols.json, the protocols in pulses whose telegrams Codes checks: their lengths.  Those of the
\* FS20 have the same pulses, so that all of them read each other's telegrams.
Length(id) ==
  CASE id = 80 -> 104..114 [] id = 45 -> 96..120 [] id = 74 -> 50..67 [] id = 73 -> 59..67
    [] id = 70 -> 50..58   [] id = 60 -> 38..82  [] id = 66 -> 43..44 [] id = 67 -> 32..34

Family(id) == IF id \in {74, 73, 70} THEN {74, 73, 70} ELSE {id}

\* _pad.
Whole(bits) == bits \o Copies(0, (4 - (Len(bits) % 4)) % 4)

\* What a telegram is heard as whose bits are received.
HeardMC(t, bits) ==
  UNION {Client(m) : m \in ParseMC([inverted |-> FALSE, clock |-> t.clock, bits |-> Whole(bits), length |-> Len(bits)])}

HeardPulses(t, bits) ==
  UNION {{Client([protocol |-> id, bits |-> Whole(post)]) : post \in PostDemodulated(id, bits)} :
           id \in {f \in Family(t.id) : Len(bits) \in Length(f)}}

Heard(t, bits) ==
  CASE t.kind = "MC" -> HeardMC(t, bits)
    [] t.kind = "pulses" -> UNION HeardPulses(t, bits)
    [] t.kind = "SD_WS" -> SdWs(t.id, t.x, Whole(bits))

Received ==
  LET bit(i) == IF (i \in flipped) # inverted THEN 1 - telegram.bits[i] ELSE telegram.bits[i]
  IN From([i \in DOMAIN telegram.bits |-> bit(i)], lost)

-----------------------------------------------------------------------------
(* What the codes are made for.                                             *)

Damage == Cardinality(flipped) + (IF lost > 0 THEN 1 ELSE 0) + (IF inverted THEN 1 ELSE 0)

\* How much damage a telegram's checks are to notice: parities and sums that of a bit, the longer checks
\* that of two.  A WH2 that begins with 254 is taken for one that began late, and the check of its bits
\* in their new places is most of the time right; of two bits one may be that.
Checked1 == {33, 37, 38, 44, 50, 53, 64, 110, 111, 135, 136, 80, 45, 74, 73, 70, 60, 66, 18, 119}
Checked2 == {27, 48, 54, 58, 85, 120, 129, 12}
Strength(t) ==
  CASE t.id \in Checked2 -> 2
    [] t.id \in Checked1 -> 1
    [] OTHER -> 0

\* Of which the beginning may be lost, and how much of it.
MayLose(t) ==
  CASE t.id = 12 /\ Len(t.bits) = 90 -> 1
    [] t.id = 129 /\ t.kind = "MC" -> 3
    [] t.id = 64 -> IF Len(t.bits) = 56 THEN 2 ELSE 1
    [] t.id = 58 /\ t.kind = "MC" -> 2
    [] t.id \in {74, 73, 70} -> 3
    [] OTHER -> 0

Invertible == {12, 18}

Init ==
  /\ telegram \in Telegrams
  /\ flipped = {} /\ lost = 0 /\ inverted = FALSE

\* A bit is received wrong.
Flip ==
  /\ Damage < Strength(telegram)
  /\ \E i \in DOMAIN telegram.bits \ flipped : i > lost /\ flipped' = flipped \union {i}
  /\ UNCHANGED <<telegram, lost, inverted>>

\* The receiver begins late.
LoseStart ==
  /\ Damage = 0
  /\ lost' \in 1..MayLose(telegram)
  /\ UNCHANGED <<telegram, flipped, inverted>>

\* The receiver takes the levels the other way.
Invert ==
  /\ flipped = {} /\ ~ inverted /\ telegram.id \in Invertible
  /\ inverted' = TRUE
  /\ UNCHANGED <<telegram, flipped, lost>>

Next == Flip \/ LoseStart \/ Invert

Spec == Init /\ [][Next]_vars

-----------------------------------------------------------------------------
(* Properties.                                                              *)

\* Whatever a damaged telegram is heard as, by the code it was sent in or by another that listens to
\* the same pulses or the same clock, is what was sent: no check lets a reading through that is wrong
\* because of a bit (of two, where the check is a longer one).
OnlyWhatWasSent == Heard(telegram, Received) \subseteq telegram.heard

\* A telegram whose bits are all right is heard for what it is, the recordings of the tests as they
\* say, and also if it was received inverted or from after its first bits, where the code restores it.
StillHeard == flipped = {} => Heard(telegram, Received) = telegram.heard

=============================================================================
