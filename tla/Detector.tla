------------------------------ MODULE Detector ------------------------------
(***************************************************************************)
(* The signal detector (signalDecoder.cpp): pulses are matched to at most  *)
(* eight patterns and buffered as pattern numbers; when a pulse does not   *)
(* continue the message, or there is no room, the buffer is searched for   *)
(* repetitions that begin with a sync pulse (MS), for a Manchester signal  *)
(* (MC), and is else reported as it is (MU).                               *)
(*                                                                         *)
(* The detector is a record d, and what its methods do to it are operators *)
(* from records to records.  Lengths are the microseconds of the code.     *)
(* MredEnabled is off (rf.cpp), so its output format is left out.          *)
(***************************************************************************)
EXTENDS Integers, FiniteSets, FiniteSetsExt, Sequences, SequencesExt

CONSTANTS
  Fragments,    \* what is received: pulses, and what is to come of them
  MaxFragments  \* bound: fragments one after the other

MaxNumPattern == 8
MaxMsgSize == 254
MinMessageLen == 40
SyncMinFact == 6
SyncMaxFact == 44
SyncMaxMicros == 17000
MaxPulse == 32001
McMinBitLen == 17
McMaxBits == 400  \* BitStore<50> with one bit for every value

Patterns == 0..(MaxNumPattern - 1)
None == -1

Message == INSTANCE BitStore WITH BufSize <- MaxMsgSize \div 2, PerByte <- 2

VARIABLES
  d,          \* the detector
  rest,       \* what is left of the fragment that is being received
  fragments,  \* those received, where they began and how much the buffer held
  heard,      \* the pulses decode was called with
  reports     \* what was written

\* What rf.cpp counts between two edges: it has a sign and is as long as minPulse at least.
Pulses == (-MaxPulse..MaxPulse) \ {0}

ASSUME FragmentsAssumption == \A f \in Fragments : f.pulses \in Seq(Pulses)

vars == <<d, rest, fragments, heard, reports>>

Abs(n) == IF n < 0 THEN -n ELSE n
Quotient(a, b) == IF a < 0 THEN -((-a) \div b) ELSE a \div b
Opposite(a, b) == (a < 0) # (b < 0)
InTol(val, set, tolerance) == Abs(val - set) <= tolerance

\* A percentage of the message, rounded.
Rounded(percent, count) == (percent * count + 50) \div 100

-----------------------------------------------------------------------------
(* The buffer.                                                              *)

NoMc == [longlow |-> None, longhigh |-> None, shortlow |-> None, shorthigh |-> None,
         clock |-> 0, sync |-> FALSE, bits |-> <<>>]

Zeros == [p \in Patterns |-> 0]

\* The constructor sets MsMoveCount after reset did.
New ==
  [message |-> Message!New, pattern |-> Zeros, histo |-> Zeros, patternLen |-> 0,
   patternPos |-> 0, state |-> "searching", clock |-> None, sync |-> None, mstart |-> 0,
   mend |-> 0, success |-> FALSE, truncated |-> FALSE, overflow |-> FALSE, mcDetected |-> FALSE,
   last |-> None, moves |-> 0, rssi |-> 0, mc |-> NoMc, bit |-> 0, out |-> <<>>]

\* reset.  What Manchester decoding, the RSSI and the serial line left behind stays.
Reset(e) ==
  [New EXCEPT !.message = Message!Reset(e.message), !.moves = 3,
              !.rssi = e.rssi, !.mc = e.mc, !.bit = e.bit, !.out = e.out]

Count(e) == e.message.count
At(e, i) == e.message.cell[i]

\* How many of the pulses heard are not in the buffer any more.
Gone(e, past) == Len(past) - Count(e)

\* The pattern of the value that was added last.
LastOf(m) == IF m.count > 0 THEN m.cell[m.count - 1] ELSE None

\* bufferMove.
BufferMove(e, start) ==
  LET moved == Message!MoveLeft(e.message, start) IN
    IF start = 0 \/ Count(e) = 0 THEN [e EXCEPT !.truncated = FALSE]
    ELSE IF start > Count(e) - 1 THEN Reset(e)
    ELSE [e EXCEPT !.message = moved, !.truncated = TRUE, !.last = LastOf(moved)]

\* addData: a value that does not fit is dropped.
AddData(e, value) ==
  IF Message!Full(e.message) THEN e
  ELSE [e EXCEPT !.message = Message!AddValue(@, value), !.truncated = FALSE]

\* How often the values from one position to another, exclusively, occur.  0 is the message's end.
CalcHisto(e, from, to) ==
  LET end == IF to = 0 THEN Count(e) ELSE to IN
    IF Count(e) = 0 THEN e
    ELSE [e EXCEPT !.histo = [p \in Patterns |->
                                Cardinality({i \in from..(end - 1) : At(e, i) = p})]]

\* findpatt: the first pattern within a fifth of the pulse.
FindPatt(e, val) ==
  LET near == {p \in 0..(e.patternLen - 1) :
                 /\ e.pattern[p] # 0 /\ ~ Opposite(val, e.pattern[p])
                 /\ InTol(val, e.pattern[p], Abs(val) \div 5)}
  IN IF near = {} THEN None ELSE Min(near)

\* Two patterns of one sign within a quarter of their mean become one, weighted.  Only later ones
\* are compared with the i-th.
Mergeable(e, i, j) ==
  LET a == e.pattern[i] b == e.pattern[j]
  IN /\ i < j /\ j < e.patternLen /\ e.histo[i] # 0 /\ e.histo[j] # 0
     /\ ~ Opposite(a, b) /\ InTol(b, a, (Abs(a) + Abs(b)) \div 8)

\* Variant: the sum is divided by the number of the first only.
WeightedTwice(a, h, b, k) == Quotient(a * h + b * k, h)

\* The mean of two lengths that occur h and k times.
Weighted(a, h, b, k) == Quotient(a * h + b * k, h + k)

\* The j-th becomes the i-th.
Merged(e, i, j) ==
  [e EXCEPT !.message = Message!ChangeValues(e.message, j, i),
            !.pattern =
              [e.pattern EXCEPT
                 ![i] = Weighted(e.pattern[i], e.histo[i], e.pattern[j], e.histo[j]), ![j] = 0],
            !.histo = [e.histo EXCEPT ![i] = e.histo[i] + e.histo[j], ![j] = 0]]

Merge(e, i, j) == IF Mergeable(e, i, j) THEN Merged(e, i, j) ELSE e

MergeInto(e, i) ==
  Merge(Merge(Merge(Merge(Merge(Merge(Merge(e, i, 1), i, 2), i, 3), i, 4), i, 5), i, 6), i, 7)

\* compress_pattern: each pattern in turn with all the later ones.
MergeAll(e) ==
  MergeInto(MergeInto(MergeInto(MergeInto(MergeInto(MergeInto(MergeInto(
    e, 0), 1), 2), 3), 4), 5), 6)

CompressPattern(e) == MergeAll(CalcHisto(e, 0, 0))

-----------------------------------------------------------------------------
(* Clock, sync and the message that begins with it.                         *)

\* getClock: the shortest high pulse that makes up 13 % of the message.
GetClock(e) ==
  LET often == {p \in 0..(e.patternLen - 1) :
                  e.pattern[p] >= 0 /\ 100 * e.histo[p] > 13 * Count(e)}
      shortest == {p \in often : \A q \in often : e.pattern[p] <= e.pattern[q]}
  IN IF often = {} THEN [e EXCEPT !.clock = None, !.state = "searching"]
     ELSE [e EXCEPT !.clock = Min(shortest), !.state = "clockfound"]

\* getSync: a long low pulse, rare but not unique, that follows a clock pulse early enough.
GetSync(e) ==
  LET reach == Min({125, Count(e) - MinMessageLen})
      follows(p) == {c \in 0..(reach - 1) : At(e, c) = e.clock /\ At(e, c + 1) = p}
      length(p) == Abs(e.pattern[p])
      syncs == {p \in 0..(e.patternLen - 1) :
                  /\ e.pattern[p] < 0 /\ length(p) < SyncMaxMicros
                  /\ length(p) \div e.pattern[e.clock] <= SyncMaxFact
                  /\ length(p) > SyncMinFact * e.pattern[e.clock]
                  /\ 100 * e.histo[p] < 8 * Count(e) /\ e.histo[p] > 1
                  /\ follows(p) # {}}
  IN IF syncs = {} THEN [e EXCEPT !.sync = None]
     ELSE [e EXCEPT !.sync = Max(syncs), !.state = "syncfound", !.mstart = Min(follows(Max(syncs)))]

\* What a report says a pattern's length is, 0 if it has no P for it.
Printed(e, p) == IF p \in 0..(e.patternLen - 1) /\ e.histo[p] # 0 THEN e.pattern[p] ELSE 0

\* The values of the buffer from one position to another, inclusively, and which of the pulses heard
\* they stand for.
Report(e, kind, from, to) ==
  [kind |-> kind, pulses |-> [i \in 1..(to - from + 1) |-> Printed(e, At(e, from + i - 1))],
   from |-> Gone(e, heard) + from + 1, clock |-> Printed(e, e.clock),
   sync |-> Printed(e, e.sync), overflow |-> e.overflow, rssi |-> e.rssi, bits |-> <<>>]

\* A report is written.
Reporting(e, r) == [e EXCEPT !.out = Append(e.out, r), !.success = TRUE]

\* The end of an MS message: before the second clock and sync.  Without one it is the last position
\* at an even distance from the start, or one past the message.
MsEnd(e) ==
  LET places == {m \in (e.mstart + 2)..(Count(e) - 2) : (m - e.mstart) % 2 = 0}
      data == {m \in places : At(e, m + 1) # e.sync}
      ends == {m \in places : /\ \E x \in data : x < m
                              /\ At(e, m + 1) = e.sync /\ At(e, m) = e.clock}
  IN IF ends # {} THEN [found |-> TRUE, mend |-> Min(ends) - 1]
     ELSE [found |-> FALSE,
           mend |-> IF (Count(e) - e.mstart) % 2 = 0 THEN Count(e) ELSE Count(e) - 1]

\* Variant: what was reported is kept with it.
KeepReported(e) ==
  IF Count(e) - e.mend >= MinMessageLen /\ e.moves > 0
  THEN [BufferMove([e EXCEPT !.moves = @ - 1], e.mstart) EXCEPT !.mstart = 0]
  ELSE e

\* After an MS report: what follows it is kept, three times, if it may be another message.
KeepRest(e) ==
  IF Count(e) - e.mend >= MinMessageLen /\ e.moves > 0
  THEN [BufferMove([e EXCEPT !.moves = @ - 1], e.mend + 1) EXCEPT !.mstart = 0]
  ELSE e

\* An end that was found is either long enough or not, so the branch for a message that was only
\* checked is never taken.
ProcessMs(e) ==
  LET end == MsEnd(e)
      f == CalcHisto([e EXCEPT !.mend = end.mend], e.mstart, end.mend)
      long == end.mend - e.mstart >= MinMessageLen
  IN IF ~ (e.state = "syncfound" /\ Count(e) >= MinMessageLen) THEN e
     ELSE IF end.found /\ ~ long THEN [f EXCEPT !.state = "clockfound"]
     ELSE IF end.found \/ (Count(e) < MaxMsgSize /\ Count(e) - e.mstart >= MinMessageLen)
       THEN Reporting(KeepRest([f EXCEPT !.truncated = FALSE]), Report(f, "MS", f.mstart, f.mend))
     ELSE IF Count(e) = MaxMsgSize /\ e.mstart > 0
       THEN [BufferMove(f, f.mstart) EXCEPT !.mstart = 0]
     ELSE [Reset(f) EXCEPT !.success = TRUE]

-----------------------------------------------------------------------------
(* Manchester: is it one?                                                   *)

\* The patterns that occur often enough, by length.
SortedPattern(e) ==
  LET often == {p \in 0..(e.patternLen - 1) : e.histo[p] >= Rounded(4, Count(e))}
      before(p, q) == e.pattern[p] < e.pattern[q] \/ (e.pattern[p] = e.pattern[q] /\ p < q)
  IN [k \in 1..Cardinality(often) |->
        CHOOSE p \in often : Cardinality({q \in often : before(q, p)}) = k - 1]

\* What a pattern is for a clock: the double of the shorter pulses.
Role(e, clockpulse, p) ==
  LET akt == e.pattern[p] IN
    IF InTol(clockpulse \div 2, Abs(akt), clockpulse \div 5)
      THEN IF akt > 0 THEN "shorthigh" ELSE "shortlow"
    ELSE IF InTol(clockpulse, Abs(akt), (2 * clockpulse) \div 5)
      THEN IF akt > 0 THEN "longhigh" ELSE "longlow"
    ELSE "none"

\* The four pulses of a Manchester signal that the patterns up to x make for clock k, the later ones
\* first; candidates are verified as soon as there are four.
CandidateOf(e, sorted, x, role) ==
  LET index(r) == Max({-1} \union {y \in 1..x : role[y] = r})
      pattern(r) == IF index(r) = -1 THEN None ELSE sorted[index(r)]
      used == {y \in 1..x : role[y] # "none"}
  IN [longlow |-> pattern("longlow"), longhigh |-> pattern("longhigh"),
      shortlow |-> pattern("shortlow"), shorthigh |-> pattern("shorthigh"),
      complete |-> x \in used /\ Cardinality({role[y] : y \in used}) = 4,
      even |-> 2 * Cardinality({y \in used : e.pattern[sorted[y]] > 0}) = Cardinality(used),
      clock |-> (MapThenSumSet(LAMBDA y : Abs(e.pattern[sorted[y]]), used) - 1) \div 6]

Candidate(e, sorted, k, x) ==
  CandidateOf(e, sorted, x, [y \in 1..x |-> Role(e, e.pattern[sorted[k]], sorted[y])])

Roles(c) == {c.longlow, c.longhigh, c.shortlow, c.shorthigh}

\* The neighbours that begin at positions of one parity in a stretch, of which four are noted.
Noted(e, stretch, parity) ==
  LET places == {i \in stretch : i % 2 = parity}
      pair(i) == <<At(e, i), At(e, i + 1)>>
      earlier(i) == {pair(j) : j \in {j \in places : j < i}}
  IN {pair(i) : i \in {i \in places : Cardinality(earlier(i) \ {pair(i)}) < 4}}

\* Whether high and low are balanced from the start to z.
Balanced(e, c, start, z) ==
  LET share(ps) == Cardinality({i \in start..(z - 1) : At(e, i) \in ps})
      uneven == share({c.shorthigh, c.longhigh}) - share({c.shortlow, c.longlow})
  IN c.even /\ Abs(uneven) <= Rounded(4, Count(e))

\* Whether both longs were next to a short of the other sign.
Paired(e, c, stretch) ==
  LET even == Noted(e, stretch, 0)
      odd == Noted(e, stretch, 1)
  IN /\ Cardinality(even) = Cardinality(odd)
     /\ {<<c.shorthigh, c.longlow>>, <<c.longhigh, c.shortlow>>} \subseteq even \union odd

\* Behind the stop before a position.
After(stops, z) == Max({-1} \union {s \in stops : s < z}) + 1

\* Where the stretch up to a stop starts; an empty one is measured from where the last one began.
Start(stops, s, begin) ==
  LET inside == (0..(s - 1)) \ stops IN IF inside = {} THEN begin ELSE After(stops, Max(inside))

\* The search for a stretch of the candidate's pulses.  A stretch ends before another pulse or with
\* the buffer, and is checked when it is long enough.  An uneven stretch ends the search, another
\* that fails only near the buffer's end.
VerifyUpTo(stops, e, c, begin) ==
  LET long(s) == s - Start(stops, s, begin) > McMinBitLen
      balanced(s) == Balanced(e, c, Start(stops, s, begin), s)
      good(s) == balanced(s) /\ Paired(e, c, After(stops, s)..(s - 1))
      again(s) == balanced(s) /\ Count(e) - s > McMinBitLen
      decisive == {s \in stops : long(s) /\ (good(s) \/ ~ again(s))}
      stop == IF decisive = {} THEN Count(e) - 1 ELSE Min(decisive)
  IN [found |-> decisive # {} /\ good(stop), start |-> Start(stops, stop, begin)]

Verify(e, c, begin) ==
  VerifyUpTo({i \in 0..(Count(e) - 1) : At(e, i) \notin Roles(c)} \union {Count(e) - 1},
             e, c, begin)

\* The signal's pulses are the candidate's.
Taken(mc, c) ==
  [mc EXCEPT !.longlow = c.longlow, !.longhigh = c.longhigh, !.shortlow = c.shortlow,
             !.shorthigh = c.shorthigh, !.clock = c.clock]

\* One candidate, unless one was found.  A search that fails leaves the start where it was.
Tried(e, c, v) == [e EXCEPT !.mstart = v.start, !.mc = IF v.found THEN Taken(e.mc, c) ELSE e.mc]

\* A candidate that is not complete is passed over.
TryCandidate(e, c) == IF c.complete THEN Tried(e, c, Verify(e, c, e.mstart)) ELSE e

Try(e, sorted, k, x) ==
  IF e.mc.longlow # None \/ x > Len(sorted) THEN e ELSE TryCandidate(e, Candidate(e, sorted, k, x))

\* No clock is left to try: the pulses are found, or the k-th is not a high one.
PassedOver(e, sorted, k) == e.mc.longlow # None \/ k > Len(sorted) \/ e.pattern[sorted[k]] <= 0

\* The candidates of one clock in turn, and the clocks.
TryClock(e, sorted, k) ==
  IF PassedOver(e, sorted, k) THEN e
  ELSE Try(Try(Try(Try(Try(Try(Try(Try(e, sorted, k, 1), sorted, k, 2), sorted, k, 3),
         sorted, k, 4), sorted, k, 5), sorted, k, 6), sorted, k, 7), sorted, k, 8)

Search(e, sorted) ==
  TryClock(TryClock(TryClock(TryClock(TryClock(TryClock(TryClock(TryClock(e, sorted, 1), sorted, 2),
    sorted, 3), sorted, 4), sorted, 5), sorted, 6), sorted, 7), sorted, 8)

\* isManchester.
IsManchester(e) == IF e.patternLen < 4 THEN e ELSE Search(e, SortedPattern(e))

-----------------------------------------------------------------------------
(* Manchester: the bits.                                                    *)

IsLong(e, p) == p \in {e.mc.longlow, e.mc.longhigh}
IsShort(e, p) == p \in {e.mc.shortlow, e.mc.shorthigh}
Below(e, p) == p = e.mc.shortlow \/ e.pattern[p] < e.pattern[e.mc.longlow]
Above(e, p) == p = e.mc.shorthigh \/ e.pattern[p] > e.pattern[e.mc.longhigh]

AddBits(bits, bit, n) == bits \o [k \in 1..Min({n, McMaxBits - Len(bits)}) |-> bit]

\* Variant: whatever comes before the first long is taken for shorts.
BeforeAny(e, i, bit) ==
  LET pairs == {k \in 2..(i - 1) : (i - 1 - k) % 2 = 0}
  IN Cardinality({k \in pairs : IF bit = 1 THEN Below(e, At(e, k - 2)) ELSE Above(e, At(e, k - 2))})

\* The shorts before the first long, two to a bit.
Before(e, i, bit) ==
  LET pairs == {k \in 2..(i - 1) : /\ (i - 1 - k) % 2 = 0
                                   /\ \A m \in (k - 1)..(i - 1) : IsShort(e, At(e, m))}
  IN Cardinality({k \in pairs : IF bit = 1 THEN Below(e, At(e, k - 2)) ELSE Above(e, At(e, k - 2))})

\* The first long pulse tells the halves of the bits apart.
Synchronise(e, r) ==
  LET second == IF At(e, r.i) = e.mc.longhigh THEN 0 ELSE 1
      joined == IF second = 0 THEN Below(e, At(e, r.i - 1)) ELSE Above(e, At(e, r.i - 1))
      bit == IF joined THEN 1 - second ELSE second
      first == IF joined THEN r.i ELSE r.i + 1
  IN IF r.i = 0 THEN [r EXCEPT !.sync = TRUE, !.start = 0, !.bit = 1 - second]
     ELSE [r EXCEPT !.sync = TRUE, !.start = first, !.i = first, !.bit = bit,
                    !.bits = AddBits(@, bit, 1 + Before(e, r.i, bit))]

\* One long pulse, or two short ones, are a bit.
Long(e, r) == r.i < Count(e) - 1 /\ IsLong(e, At(e, r.i))

Pair(e, r) ==
  /\ r.i < Count(e) - 2
  /\ r.bit = 0 => At(e, r.i) = e.mc.shortlow /\ At(e, r.i + 1) = e.mc.shorthigh
  /\ r.bit = 1 => At(e, r.i) = e.mc.shorthigh /\ At(e, r.i + 1) = e.mc.shortlow

\* Positions that a gap after the message takes.  The second test adds to i while it is evaluated.
Gap(e, i) ==
  LET next == At(e, i + 1)
      third == At(e, i + 2)
      low(p) == e.pattern[p] < e.pattern[e.mc.longlow]
  IN IF /\ i < Count(e) - 1 /\ low(At(e, i))
        /\ next \in {e.mc.longhigh, e.mc.shorthigh}
     THEN [places |-> 1, gap |-> TRUE]
     ELSE IF /\ i < Count(e) - 2 /\ IsShort(e, At(e, i)) /\ low(next)
             /\ IsLong(e, third) \/ IsShort(e, Message!GetValue(e.message, i + 3, third))
     THEN IF i = 0 THEN [places |-> 1, gap |-> FALSE] ELSE [places |-> 2, gap |-> TRUE]
     ELSE [places |-> 0, gap |-> FALSE]

\* The end of the bits: what they were made of leaves the buffer.
EndBits(e, i) ==
  LET full == i = MaxMsgSize - 1 /\ i = Count(e) - 1
      gap == IF full THEN [places |-> 0, gap |-> FALSE] ELSE Gap(e, i)
  IN BufferMove([e EXCEPT !.mend = i, !.mcDetected = full,
                          !.state = IF full \/ gap.gap THEN "mcdecoding" ELSE @],
                i + gap.places)

\* The buffer's end: of a long message there is more to come.
EndBuffer(e, i) ==
  IF i = MaxMsgSize /\ Len(e.mc.bits) > McMinBitLen \div 2
  THEN [e EXCEPT !.mend = i, !.mcDetected = TRUE, !.state = "mcdecoding"]
  ELSE [e EXCEPT !.mend = i, !.truncated = IF i = MaxMsgSize THEN FALSE ELSE @]

\* To the next long, without which no bit is read.
Seek(e, r) ==
  LET longs == {i \in r.i..(Count(e) - 1) : IsLong(e, At(e, i))}
  IN IF longs = {} THEN [r EXCEPT !.ends = "buffer", !.i = Max({r.i, Count(e)})]
                   ELSE Synchronise(e, [r EXCEPT !.i = Min(longs)])

\* A long pulse turns the bit over, two short ones repeat it; what is neither ends too few bits.
LongBit(r) == [r EXCEPT !.i = r.i + 1, !.bit = 1 - r.bit, !.bits = AddBits(r.bits, 1 - r.bit, 1)]
ShortBit(r) == [r EXCEPT !.i = r.i + 2, !.bits = AddBits(r.bits, r.bit, 1)]
StartAgain(r) == [r EXCEPT !.i = r.i + 1, !.sync = FALSE, !.bits = <<>>]

\* One step through the buffer.
DecodeBit(e, r) ==
  IF r.ends # "no" THEN r
  ELSE IF ~ r.sync THEN Seek(e, r)
  ELSE IF Long(e, r) THEN LongBit(r)
  ELSE IF Pair(e, r) THEN ShortBit(r)
  ELSE IF Len(r.bits) < McMinBitLen THEN StartAgain(r)
  ELSE [r EXCEPT !.ends = "bits"]

\* More steps than two for each value: every other one at least goes on in the buffer.
Bits2(e, r) == DecodeBit(e, DecodeBit(e, r))

Bits8(e, r) == IF r.ends # "no" THEN r ELSE Bits2(e, Bits2(e, Bits2(e, Bits2(e, r))))

Bits64(e, r) ==
  IF r.ends # "no" THEN r
  ELSE Bits8(e, Bits8(e, Bits8(e, Bits8(e, Bits8(e, Bits8(e, Bits8(e, Bits8(e, r))))))))

DecodeBits(e, r) ==
  Bits64(e, Bits64(e, Bits64(e, Bits64(e, Bits64(e, Bits64(e, Bits64(e, Bits64(e, r))))))))

\* What was read is kept in the detector.
Stored(e, r) ==
  [e EXCEPT !.mstart = r.start, !.bit = r.bit,
            !.mc = [e.mc EXCEPT !.sync = r.sync, !.bits = r.bits]]

Decoded(e, r) ==
  LET f == Stored(e, r) IN IF r.ends = "bits" THEN EndBits(f, r.i) ELSE EndBuffer(f, r.i)

\* Where reading begins.  An empty buffer has no bits to end.
FirstPlace(e) ==
  [i |-> 0, start |-> 0, bit |-> e.bit, sync |-> e.mc.sync, bits |-> e.mc.bits,
   ends |-> IF Count(e) = 0 THEN "buffer" ELSE "no"]

\* doDecode.
DoDecode(before) ==
  LET e == [before EXCEPT !.truncated = FALSE, !.mstart = 0, !.mcDetected = FALSE]
  IN Decoded(e, DecodeBits(e, FirstPlace(e)))

McReport(e) ==
  [kind |-> "MC", pulses |-> <<e.pattern[e.mc.longlow], e.pattern[e.mc.longhigh],
                               e.pattern[e.mc.shortlow], e.pattern[e.mc.shorthigh]>>,
   from |-> 0, clock |-> e.mc.clock, sync |-> 0, overflow |-> FALSE, rssi |-> e.rssi,
   bits |-> e.mc.bits]

\* Of a long signal that filled the buffer there is more to come.
Forget(e) == [e EXCEPT !.message = Message!Reset(e.message), !.truncated = TRUE]

\* What is done with the bits.
FinishMc(g) ==
  IF g.mcDetected
  THEN IF g.truncated THEN [g EXCEPT !.success = TRUE]
       ELSE Forget(g)
  ELSE IF Len(g.mc.bits) < McMinBitLen THEN g
  ELSE Reporting(g, McReport(g))

DecodeMc(f) == IF f.mc.longlow = None THEN f ELSE FinishMc(DoDecode(f))

ProcessMc(e) ==
  IF e.success THEN e
  ELSE DecodeMc(IF e.mcDetected THEN e ELSE IsManchester([e EXCEPT !.mc = NoMc]))

-----------------------------------------------------------------------------
(* Processing, and a pulse.                                                 *)

\* All that is in the buffer, without a sync.
MuReport(e) == [Report(e, "MU", 0, Count(e) - 1) EXCEPT !.sync = 0]

ProcessMu(e) ==
  LET f == CalcHisto(e, 0, 0) IN
    IF ~ e.mcDetected /\ e.state = "clockfound" /\ ~ e.success /\ Count(e) >= MinMessageLen
    THEN Reporting([f EXCEPT !.truncated = FALSE], MuReport(f))
    ELSE e

\* A buffer that was cut and holds nothing: it goes on before the first high pulse whose number
\* the loop ends with, which it compares with lengths.
High(e, dp, p) == IF p < e.patternLen /\ e.pattern[p] > 0 /\ e.pattern[p] < dp THEN p ELSE dp

FirstHigh(e) ==
  High(e, High(e, High(e, High(e, High(e, High(e, High(e, High(e,
    2000, 0), 1), 2), 3), 4), 5), 6), 7)

SkipToHigh(e) ==
  LET dp == FirstHigh(e)
      places == {i \in 0..(Count(e) - 1) : At(e, i) = dp}
  IN IF e.success \/ ~ e.truncated \/ places = {} THEN e
     ELSE BufferMove(e, IF Min(places) = 0 THEN 255 ELSE Min(places) - 1)

Synced(f) == IF f.state = "clockfound" THEN GetSync(f) ELSE f

\* The three kinds of message in turn.
ProcessKinds(e) == ProcessMu(ProcessMc(ProcessMs(
  IF e.mcDetected THEN CalcHisto(e, 0, 0) ELSE Synced(GetClock(CompressPattern(e))))))

\* Whether something was found is not forgotten.
EmptyUnlessKept(f) == IF f.truncated THEN f ELSE [Reset(f) EXCEPT !.success = f.success]

\* processMessage.  Unless something is kept, the buffer is empty afterwards.
ProcessMessage(e) ==
  EmptyUnlessKept(SkipToHigh(
    IF e.mcDetected \/ Count(e) >= MinMessageLen
    THEN ProcessKinds([e EXCEPT !.success = FALSE, !.overflow = Count(e) = MaxMsgSize])
    ELSE e))

Continues(e, pulse) == Count(e) = 0 \/ e.last = None \/ Opposite(pulse, e.pattern[e.last])

\* What was processed is kept only if it was of use, and the pulse can follow it.
KeepUseful(f, pulse) ==
  IF (~ f.success /\ ~ f.mcDetected) \/ ~ Continues(f, pulse) THEN Reset(f) ELSE f

\* Variant: the longest pause does not end a message.
AcceptPause(e, pulse) ==
  IF ~ (Continues(e, pulse) /\ Count(e) # MaxMsgSize /\ pulse >= -MaxPulse)
  THEN KeepUseful(ProcessMessage(e), pulse)
  ELSE IF Count(e) = MinMessageLen THEN [e EXCEPT !.state = "detecting", !.rssi = Len(heard)] ELSE e

\* A pulse that cannot follow, a full buffer or the longest pause: what is buffered is processed.
Accept(e, pulse) ==
  IF ~ (Continues(e, pulse) /\ Count(e) # MaxMsgSize /\ pulse > -MaxPulse)
  THEN KeepUseful(ProcessMessage(e), pulse)
  ELSE IF Count(e) = MinMessageLen THEN [e EXCEPT !.state = "detecting", !.rssi = Len(heard)] ELSE e

\* Variant: the values of a pattern that is replaced stay in the buffer.
KeepAll(e) == e

\* The buffer is cut behind the last value of the pattern to be replaced.
CutUses(g) ==
  LET uses == {i \in 0..(Count(g) - 1) : At(g, i) = g.patternPos}
  IN IF g.histo[g.patternPos] > 0 /\ uses # {} THEN BufferMove(g, Max(uses) + 1) ELSE g

\* What is buffered is processed before a pattern that occurs several times is replaced.
ProcessUses(f) ==
  IF f.histo[f.patternPos] > 2 THEN CalcHisto(ProcessMessage(f), 0, 0) ELSE f

\* All patterns are in use: the oldest is replaced.
MakeRoom(e) == IF e.patternLen # MaxNumPattern THEN e ELSE CutUses(ProcessUses(CalcHisto(e, 0, 0)))

\* addPattern, at the place of the oldest.
AddPattern(e, pulse) ==
  LET pos == e.patternPos + 1
      wraps == pos = MaxNumPattern
  IN [e EXCEPT !.pattern = [e.pattern EXCEPT ![e.patternPos] = pulse],
               !.patternPos = IF wraps THEN 0 ELSE pos,
               !.patternLen = Max({@, pos}),
               !.mcDetected = IF wraps THEN FALSE ELSE @]

AddNew(g, pulse) == AddData(AddPattern(g, pulse), g.patternPos)

\* The pattern moves half way to the pulse.
Averaged(f, p, pulse) ==
  [f EXCEPT !.pattern = [f.pattern EXCEPT ![p] = Quotient(f.pattern[p] + pulse, 2)]]

\* A pulse is averaged into its pattern, or begins one.
Match(f, pulse) ==
  LET p == FindPatt(f, pulse)
  IN IF p # None THEN AddData(Averaged(f, p, pulse), p) ELSE AddNew(MakeRoom(f), pulse)

\* doDetect.
DoDetect(e, pulse) == Match(Accept(e, pulse), pulse)

\* decode.
DecodePulse(e, pulse) ==
  DoDetect([e EXCEPT !.success = FALSE, !.out = <<>>,
                     !.last = LastOf(e.message)], pulse)

-----------------------------------------------------------------------------
Init == d = New /\ rest = <<>> /\ fragments = <<>> /\ heard = <<>> /\ reports = <<>>

Receive ==
  /\ rest = <<>> /\ Len(fragments) < MaxFragments
  /\ \E f \in Fragments :
       /\ rest' = f.pulses
       /\ fragments' = Append(fragments, [fragment |-> f, begin |-> Len(heard), held |-> Count(d)])
  /\ UNCHANGED <<d, heard, reports>>

Decode ==
  /\ rest # <<>>
  /\ d' = DecodePulse(d, Head(rest))
  /\ heard' = Append(heard, Head(rest)) /\ rest' = Tail(rest)
  /\ reports' = reports \o d'.out
  /\ UNCHANGED fragments

Stopped == rest = <<>> /\ Len(fragments) = MaxFragments /\ UNCHANGED vars

Next == Receive \/ Decode \/ Stopped

Spec == Init /\ [][Next]_vars /\ WF_vars(Next)

-----------------------------------------------------------------------------
(* Properties.                                                              *)

MaybePattern == Patterns \union {None}

\* What is kept between pulses, and every index within what it points into: mend may be two past the
\* last value of a full buffer.
TypeOK ==
  /\ d.message.count \in 0..MaxMsgSize /\ d.message.cell \in [Message!Cells -> 0..15]
  /\ d.pattern \in [Patterns -> -MaxPulse..MaxPulse] /\ d.histo \in [Patterns -> 0..MaxMsgSize]
  /\ d.patternLen \in 0..MaxNumPattern /\ d.patternPos \in Patterns
  /\ {d.clock, d.sync, d.last} \subseteq MaybePattern
  /\ d.mstart \in 0..MaxMsgSize /\ d.mend \in 0..(MaxMsgSize + 1) /\ d.moves \in 0..3
  /\ d.mc.bits \in Seq(0..1) /\ Len(d.mc.bits) <= McMaxBits

\* The value of a pulse that is in the buffer.
ValueOf(e, past, n) == At(e, n - Gone(e, past) - 1)

\* The pattern of a value has the sign of the pulse.
Fits(e, p, pulse) == p < e.patternLen /\ e.pattern[p] # 0 /\ ~ Opposite(e.pattern[p], pulse)

IsRecent(e, past) ==
  LET gone == Gone(e, past) IN
    /\ gone >= 0
    /\ \A n \in (gone + 1)..Len(past) : Fits(e, ValueOf(e, past, n), past[n])
    /\ \A n \in (gone + 2)..Len(past) : Opposite(past[n], past[n - 1])

\* The buffer is what was heard last, without a gap: whatever was reported, moved, merged or
\* replaced, each value has a pattern of its pulse's sign, and high and low alternate.
BufferIsRecent == IsRecent(d, heard)

\* A pattern is a moving average of the pulses that were matched to it.
StandsFor(length, pulse) == 2 * Abs(length - pulse) <= Abs(pulse)

\* It also keeps about the length of each of the pulses in the buffer.
LengthsAreKept ==
  \A n \in (Gone(d, heard) + 1)..Len(heard) : StandsFor(d.pattern[ValueOf(d, heard, n)], heard[n])

\* The last position that an MS report is sure about: its last value is not counted, and may be one
\* past the message.
Sure(r) == IF r.kind = "MS" THEN Len(r.pulses) - 1 ELSE Len(r.pulses)

Ends(r) == r.from + Sure(r) - 1

\* A report has pulses that were heard, in order and with a length for each, from the clock and
\* the sync on if it has one, and none that an earlier report had.
ReportIsRecent(r, past, earlier) ==
  /\ r.from > 0 /\ Ends(r) <= Len(past)
  /\ \A i \in 1..Sure(r) : r.pulses[i] # 0 /\ ~ Opposite(r.pulses[i], past[r.from + i - 1])
  /\ r.clock > 0 /\ Len(r.pulses) >= MinMessageLen
  /\ r.kind = "MS" => r.pulses[1] = r.clock /\ r.pulses[2] = r.sync /\ r.sync < 0
  /\ \A q \in earlier : q.kind # "MC" => Ends(q) < r.from

\* Every pulse report is what was heard, and no pulse is reported twice (processMessage).
ReportsAreRecent ==
  [][\A k \in (Len(reports) + 1)..Len(reports') :
       reports'[k].kind # "MC" =>
         ReportIsRecent(reports'[k], heard, {reports'[j] : j \in 1..(k - 1)})]_vars

\* Its lengths are about those of the pulses (processMessage).
LengthsAreReported ==
  [][\A k \in (Len(reports) + 1)..Len(reports') :
       LET r == reports'[k] IN
         r.kind # "MC" =>
           \A i \in 1..Sure(r) : StandsFor(r.pulses[i], heard[r.from + i - 1])]_vars

\* A long sequence of sequences in one, by rows: FlattenSeq recurs once for each.
Joined(seqs) ==
  FlattenSeq([k \in 1..((Len(seqs) + 31) \div 32) |->
                FlattenSeq(SubSeq(seqs, 32 * k - 31, Min({32 * k, Len(seqs)})))])

\* The levels of pulses in halves of a bit.
Halves(pulses, clock) ==
  Joined([k \in 1..Len(pulses) |->
            [half \in 1..(IF 2 * Abs(pulses[k]) > 3 * clock THEN 2 ELSE 1) |->
               IF pulses[k] > 0 THEN 1 ELSE 0]])

\* The bits of a new MC report are somewhere in what was heard: low then high is 1.
BitsAreHeard ==
  [][\A k \in (Len(reports) + 1)..Len(reports') :
       LET r == reports'[k]
           halves == Halves(heard, r.clock)
       IN r.kind = "MC" =>
            \E o \in 0..(Len(halves) - 2 * Len(r.bits)) : \A i \in 1..Len(r.bits) :
              /\ halves[o + 2 * i - 1] = 1 - r.bits[i]
              /\ halves[o + 2 * i] = r.bits[i]]_vars

\* What was sent clearly, a frame several times or bits, is reported when it was received, if the
\* buffer held at most the pause before (what follows a report stays there, and may make two gaps
\* the syncs of a frame): enough pulses of the fragment are in one report, or the last of its bits.
CleanIsReported ==
  rest = <<>> =>
    \A k \in 1..Len(fragments) :
      LET f == fragments[k].fragment
          first == fragments[k].begin + 1
          covered(r) == Min({Ends(r), first + Len(f.pulses) - 1}) - Max({r.from, first}) + 1
      IN fragments[k].held <= 1 =>
           /\ f.period > 0 => \E j \in 1..Len(reports) :
                                reports[j].kind # "MC" /\ covered(reports[j]) >= f.period - 1
           /\ f.bits # <<>> => \E j \in 1..Len(reports) : \E n \in 1..Len(f.bits) :
                                 reports[j].bits = SubSeq(f.bits, n, Len(f.bits))
=============================================================================
