---------------------------- MODULE DetectorProofs ----------------------------
(***************************************************************************)
(* The detector's buffer, pattern table and reports stay true to the       *)
(* pulses, whatever pulses come.                                           *)
(***************************************************************************)
EXTENDS Detector, SequenceTheorems, FiniteSetTheorems, WellFoundedInduction, TLAPS

\* The lemmas about the buffer, for its size.
Buffer == INSTANCE BitStoreProofs
            WITH BufSize <- MaxMsgSize \div 2, PerByte <- 2, store <- d.message, values <- heard

-----------------------------------------------------------------------------
(* What the detector is made of.                                            *)

Lengths == -MaxPulse..MaxPulse
Tallies == 0..MaxMsgSize
States == {"searching", "detecting", "clockfound", "syncfound", "mcdecoding"}
Bits == {b \in Seq(0..1) : Len(b) <= McMaxBits}

\* The fields that the proofs reason about, and what they may hold.
Sorts ==
  [message |-> Buffer!Stores, pattern |-> [Patterns -> Lengths], histo |-> [Patterns -> Tallies],
   patternLen |-> 0..MaxNumPattern, patternPos |-> Patterns, state |-> States,
   clock |-> MaybePattern, sync |-> MaybePattern, last |-> MaybePattern, mstart |-> Tallies,
   mend |-> 0..(MaxMsgSize + 1), success |-> BOOLEAN, truncated |-> BOOLEAN,
   mcDetected |-> BOOLEAN, moves |-> 0..3, bit |-> 0..1]

Sorted == DOMAIN Sorts
Fields == Sorted \union {"overflow", "rssi", "mc", "out"}

McFields == {"longlow", "longhigh", "shortlow", "shorthigh", "clock", "sync", "bits"}

IsSequence(s) == \E S : s \in Seq(S)

Typed(e) ==
  /\ DOMAIN e = Fields
  /\ \A f \in Sorted : e[f] \in Sorts[f]
  /\ DOMAIN e.mc = McFields /\ e.mc.sync \in BOOLEAN /\ e.mc.bits \in Bits
  /\ IsSequence(e.out)

\* Only these fields differ.
SameBut(e, f, changed) == DOMAIN f = Fields /\ \A x \in Fields \ changed : f[x] = e[x]

-----------------------------------------------------------------------------
(* The invariant.                                                           *)

\* The next pattern has the place after the last one until all are in use.
Placed(e) == e.patternLen < MaxNumPattern => e.patternPos = e.patternLen

\* A Manchester signal of which there is more to come is not taken for one with a sync.
Continued(e) == e.mcDetected => e.state \in {"detecting", "mcdecoding"}

Sound(e) ==
  /\ Typed(e) /\ Buffer!Clean(e.message) /\ IsRecent(e, heard) /\ Placed(e) /\ Continued(e)

\* A report of pulses, all of which are before the n-th.
Precedes(r, n) == r.kind # "MC" => Ends(r) \in Int /\ Ends(r) <= n

\* What was reported is not in the buffer any more.
ReportsAreGone ==
  /\ IsSequence(reports)
  /\ \A j \in 1..Len(reports) : Precedes(reports[j], Gone(d, heard))

Inv ==
  /\ heard \in Seq(Pulses) /\ rest \in Seq(Pulses)
  /\ Sound(d) /\ ~ d.truncated
  /\ ReportsAreGone

-----------------------------------------------------------------------------
(* Numbers and records.                                                     *)

USE DEF MaxNumPattern, MaxMsgSize, MinMessageLen, Patterns

\* None is not a pattern.
LEMMA NoneIsNot ==
  None \in Int /\ None + 1 = 0 /\ None < 0 /\ None \notin Patterns /\ None \in MaybePattern
BY DEF None, MaybePattern

\* The lengths of pulses and patterns.
LEMMA MaxPulseIs == MaxPulse \in Nat /\ MaxPulse >= 1
BY DEF MaxPulse

\* The lengths are whole numbers between two bounds.
LEMMA LengthsAre == \A n : n \in Lengths <=> n \in Int /\ -MaxPulse <= n /\ n <= MaxPulse
BY MaxPulseIs DEF Lengths

\* A pulse is a length that is not zero.
LEMMA PulsesAre == \A n : n \in Pulses <=> n \in Lengths /\ n # 0
BY DEF Pulses, Lengths

\* The numbers that some fields hold.
LEMMA RangesAre ==
  /\ \A n : n \in 0..254 <=> n \in Nat /\ n <= 254
  /\ \A n : n \in 0..255 <=> n \in Nat /\ n <= 255
  /\ \A n : n \in 0..3 <=> n \in Nat /\ n <= 3
  /\ \A n : n \in 0..8 <=> n \in Nat /\ n <= 8
OBVIOUS

\* The distance between two places.
LEMMA Difference ==
  ASSUME NEW a \in Nat, NEW b \in Nat, a + 2 <= b
  PROVE  b - a \in Nat /\ a + (b - a) = b /\ b - a >= 2 /\ b - a + 1 \in Nat
         /\ b - a <= b - a + 1 /\ (b - a + 1) - 1 = b - a
OBVIOUS

\* What is left of some values.
LEMMA LeftIs == ASSUME NEW c \in Nat, NEW a \in Nat, a < c PROVE c - a \in Nat
OBVIOUS

\* A pattern in use.
LEMMA PatternIs ==
  ASSUME NEW n \in Nat, n <= 8, NEW p \in 0..(n - 1)
  PROVE  p \in Patterns /\ p \in Nat /\ p < n
OBVIOUS

\* A place that a message may end at.
LEMMA EndIs == ASSUME NEW n, n \in Nat, n <= 255 PROVE n \in 0..255
OBVIOUS

\* A number of places.
LEMMA TallyIs == ASSUME NEW n \in Nat, n <= 254 PROVE n \in Tallies
BY DEF Tallies

\* What each field of a detector holds.
LEMMA FieldTypes ==
  ASSUME NEW e, Typed(e)
  PROVE  /\ e.message \in Buffer!Stores /\ e.pattern \in [Patterns -> Lengths]
         /\ e.histo \in [Patterns -> Tallies] /\ e.patternLen \in 0..8 /\ e.patternPos \in Patterns
         /\ e.state \in States /\ e.clock \in MaybePattern /\ e.sync \in MaybePattern
         /\ e.last \in MaybePattern /\ e.mstart \in 0..254 /\ e.mend \in 0..255
         /\ e.success \in BOOLEAN /\ e.truncated \in BOOLEAN /\ e.mcDetected \in BOOLEAN
         /\ e.moves \in 0..3 /\ e.bit \in 0..1
BY DEF Typed, Sorts, Sorted, Tallies

\* The buffer's size.
LEMMA SizeIs == Buffer!BufferAssumption /\ Buffer!Capacity = 254 /\ Buffer!Cells = 0..253
BY DEF Buffer!BufferAssumption, Buffer!Capacity, Buffer!Cells

\* What a store of values holds.
LEMMA StoreTypes ==
  ASSUME NEW s \in Buffer!Stores
  PROVE  s.count \in Nat /\ s.count <= 254 /\ \A i \in 0..253 : s.cell[i] \in 0..15
<1>1. s.cell \in [0..253 -> 0..15]
  BY SizeIs DEF Buffer!Stores, Buffer!Digits
<1>2. s.count \in 0..254
  BY SizeIs DEF Buffer!Stores
<1>3. \A i \in 0..253 : s.cell[i] \in 0..15
  BY <1>1
<1>4. s.count \in Nat /\ s.count <= 254
  BY <1>2
<1> QED BY <1>2, <1>3, <1>4

\* What the buffer of a detector holds.
LEMMA BufferTypes ==
  ASSUME NEW e, Typed(e)
  PROVE  Count(e) \in Nat /\ Count(e) <= 254 /\ \A i \in 0..253 : At(e, i) \in 0..15
<1>1. e.message \in Buffer!Stores
  BY FieldTypes
<1> QED BY <1>1, StoreTypes DEF Count, At

\* The fields have names of their own.
LEMMA SortedAre ==
  Sorted = {"message", "pattern", "histo", "patternLen", "patternPos", "state", "clock", "sync", "last",
            "mstart", "mend", "success", "truncated", "mcDetected", "moves", "bit"}
BY DEF Sorted, Sorts

\* What each may hold.
LEMMA SortsAre ==
  /\ Sorts["message"] = Buffer!Stores /\ Sorts["pattern"] = [Patterns -> Lengths]
  /\ Sorts["histo"] = [Patterns -> Tallies] /\ Sorts["patternLen"] = 0..8
  /\ Sorts["patternPos"] = Patterns /\ Sorts["state"] = States /\ Sorts["clock"] = MaybePattern
  /\ Sorts["sync"] = MaybePattern /\ Sorts["last"] = MaybePattern /\ Sorts["mstart"] = 0..254
  /\ Sorts["mend"] = 0..255 /\ Sorts["success"] = BOOLEAN /\ Sorts["truncated"] = BOOLEAN
  /\ Sorts["mcDetected"] = BOOLEAN /\ Sorts["moves"] = 0..3 /\ Sorts["bit"] = 0..1
BY DEF Sorts, Tallies

\* A detector of which some fields were changed within their sorts is one.
LEMMA StaysTyped ==
  ASSUME NEW e, NEW f, NEW changed \in SUBSET Sorted, Typed(e), SameBut(e, f, changed),
         \A x \in changed : f[x] \in Sorts[x]
  PROVE  Typed(f)
<1>1. DOMAIN f = Fields
  BY DEF SameBut
<1>2. ASSUME NEW x \in Sorted PROVE f[x] \in Sorts[x]
  BY <1>2 DEF Typed, SameBut, Fields
<1>3. "mc" \notin Sorted /\ "out" \notin Sorted
  BY SortedAre
<1>4. f["mc"] = e["mc"] /\ f["out"] = e["out"]
  BY <1>3 DEF SameBut, Fields
<1> QED BY <1>1, <1>2, <1>4 DEF Typed

-----------------------------------------------------------------------------
(* Smallest and largest elements.                                           *)

Under == {ss \in Nat \X Nat : ss[1] < ss[2]}

\* There is no endless descent.
LEMMA UnderIsWellFounded == IsWellFoundedOn(Under, Nat)
BY NatLessThanWellFounded, Zenon DEF OpToRel, Under

\* A set of numbers has a smallest.
LEMMA HasSmallest ==
  ASSUME NEW S \in SUBSET Nat, S # {}
  PROVE  \E x \in S : \A y \in S : x <= y
<1>1. \E x \in S : \A y \in S : ~ (<<y, x>> \in Under)
  BY UnderIsWellFounded, WFMin, Zenon
<1>2. PICK x \in S : \A y \in S : ~ (<<y, x>> \in Under)
  BY <1>1, Zenon
<1>3. ASSUME NEW y \in S PROVE x <= y
  <2>1. x \in Nat /\ y \in Nat
    OBVIOUS
  <2>2. ~ (<<y, x>> \in Under)
    BY <1>2
  <2>3. ~ (y < x)
    BY <2>1, <2>2 DEF Under
  <2> QED BY <2>1, <2>3
<1> QED BY <1>3

\* Min of numbers.
LEMMA MinIs ==
  ASSUME NEW S \in SUBSET Nat, S # {}
  PROVE  Min(S) \in S /\ \A y \in S : Min(S) <= y
<1>1. \E x \in S : \A y \in S : x <= y
  BY HasSmallest
<1> QED BY <1>1, Zenon DEF Min

\* Max of numbers that have a bound.
LEMMA MaxIs ==
  ASSUME NEW bound \in Int, NEW S \in SUBSET Int, S # {}, \A y \in S : y <= bound
  PROVE  Max(S) \in S /\ \A y \in S : Max(S) >= y
<1> DEFINE T == {bound - y : y \in S}
<1>1. T \in SUBSET Nat /\ T # {}
  <2>1. ASSUME NEW y \in S PROVE bound - y \in Nat
    BY <2>1
  <2> QED BY <2>1
<1>2. PICK t \in T : \A u \in T : t <= u
  BY <1>1, HasSmallest
<1>3. PICK x \in S : t = bound - x
  BY <1>2
<1>4. ASSUME NEW y \in S PROVE x >= y
  <2>1. bound - y \in T
    OBVIOUS
  <2>2. bound - x <= bound - y
    BY <2>1, <1>2, <1>3
  <2> QED BY <2>2
<1>5. \E z \in S : \A y \in S : z >= y
  BY <1>4
<1> QED BY <1>5, Zenon DEF Max

\* The larger of two numbers.
LEMMA MaxOfTwo == ASSUME NEW a \in Int, NEW b \in Int PROVE Max({a, b}) = IF a >= b THEN a ELSE b
<1>1. Max({a, b}) \in {a, b} /\ Max({a, b}) >= a /\ Max({a, b}) >= b
  <2>1. {a, b} \in SUBSET Int /\ {a, b} # {}
    OBVIOUS
  <2>2. \E bound \in Int : \A y \in {a, b} : y <= bound
    <3>1. CASE a >= b
      BY <3>1
    <3>2. CASE ~ (a >= b)
      BY <3>2
    <3> QED BY <3>1, <3>2
  <2> QED BY <2>1, <2>2, MaxIs
<1> QED BY <1>1

\* The smaller of two numbers.
LEMMA MinOfTwo == ASSUME NEW a \in Nat, NEW b \in Nat PROVE Min({a, b}) = IF a <= b THEN a ELSE b
<1>1. {a, b} \in SUBSET Nat /\ {a, b} # {}
  OBVIOUS
<1>2. Min({a, b}) \in {a, b} /\ Min({a, b}) <= a /\ Min({a, b}) <= b
  BY <1>1, MinIs
<1> QED BY <1>2

-----------------------------------------------------------------------------
(* The message buffer: what BitStoreProofs shows, place by place.           *)

\* A new buffer is empty.
LEMMA NewStore == Message!New \in Buffer!Stores /\ Buffer!Clean(Message!New) /\ Message!New.count = 0
<1>1. Message!New = Buffer!New
  BY DEF Message!New, Buffer!New, Message!Cells, Buffer!Cells, Message!Capacity, Buffer!Capacity
<1>2. Message!New.count = 0
  BY DEF Message!New
<1> QED BY <1>1, <1>2, SizeIs, Buffer!NewIsEmpty

\* So is one that was reset.
LEMMA ResetStore ==
  ASSUME NEW s \in Buffer!Stores
  PROVE  /\ Message!Reset(s) \in Buffer!Stores /\ Buffer!Clean(Message!Reset(s))
         /\ Message!Reset(s).count = 0
<1>1. Message!Reset(s) = Buffer!Reset(s)
  BY DEF Message!Reset, Buffer!Reset, Message!Cells, Buffer!Cells, Message!Capacity, Buffer!Capacity
<1>2. Message!Reset(s).count = 0
  BY DEF Message!Reset
<1> QED BY <1>1, <1>2, SizeIs, Buffer!ResetIsEmpty

\* There is room for a value.
LEMMA NotFull ==
  ASSUME NEW s \in Buffer!Stores, s.count # 254
  PROVE  ~ Message!Full(s)
<1>1. s.count \in Nat /\ s.count <= 254
  BY StoreTypes
<1> QED BY <1>1 DEF Message!Full

\* t is s with a value behind the others.
Added(s, v, t) ==
  /\ t \in Buffer!Stores /\ Buffer!Clean(t) /\ t.count = s.count + 1
  /\ t.cell[s.count] = v
  /\ \A i \in 0..(s.count - 1) : t.cell[i] = s.cell[i]

\* The values of a store.
LEMMA ValuesOfStore ==
  ASSUME NEW s \in Buffer!Stores
  PROVE  /\ Buffer!Values(s) \in Seq(Buffer!Digits) /\ Len(Buffer!Values(s)) = s.count /\ s.count \in 0..254
         /\ \A k \in 1..s.count : Buffer!Values(s)[k] = s.cell[k - 1]
<1>1. Buffer!BufferAssumption /\ Buffer!Capacity = 254
  BY SizeIs
<1>2. /\ Buffer!Values(s) \in Seq(Buffer!Digits) /\ Len(Buffer!Values(s)) = s.count
      /\ s.count \in 0..Buffer!Capacity /\ \A k \in 1..s.count : Buffer!Values(s)[k] = s.cell[k - 1]
  BY <1>1, Zenon, Buffer!ValuesAreDigits
<1> QED BY <1>1, <1>2, Zenon

\* A value that is added is behind the others.
LEMMA AddToStore ==
  ASSUME NEW s \in Buffer!Stores, Buffer!Clean(s), NEW v \in 0..15, s.count # 254,
         NEW t, t = Message!AddValue(s, v)
  PROVE  Added(s, v, t)
<1>1. t = Buffer!AddValue(s, v)
  BY DEF Message!AddValue, Buffer!AddValue, Message!Full, Buffer!Full, Message!Ored, Buffer!Ored,
         Message!Has, Buffer!Has, Message!Cells, Buffer!Cells, Message!Capacity, Buffer!Capacity
<1>2. v \in Buffer!Digits
  BY DEF Buffer!Digits
<1>3. t \in Buffer!Stores /\ Buffer!Clean(t)
  BY <1>1, <1>2, SizeIs, Buffer!AddAppends
<1>4. Buffer!Values(t) = Append(Buffer!Values(s), v)
  BY <1>1, <1>2, SizeIs, Buffer!AddAppends
<1>5. /\ Buffer!Values(s) \in Seq(Buffer!Digits) /\ Len(Buffer!Values(s)) = s.count /\ s.count \in 0..254
      /\ \A k \in 1..s.count : Buffer!Values(s)[k] = s.cell[k - 1]
  BY Zenon, ValuesOfStore
<1>6. /\ Buffer!Values(t) \in Seq(Buffer!Digits) /\ Len(Buffer!Values(t)) = t.count /\ t.count \in 0..254
      /\ \A k \in 1..t.count : Buffer!Values(t)[k] = t.cell[k - 1]
  BY <1>3, Zenon, ValuesOfStore
<1>7. t.count = s.count + 1
  BY <1>2, <1>4, <1>5, <1>6
<1>8. \A k \in 1..(s.count + 1) : Buffer!Values(t)[k] = IF k = s.count + 1 THEN v ELSE Buffer!Values(s)[k]
  BY <1>2, <1>4, <1>5
<1>9. t.cell[s.count] = v
  <2>1. s.count + 1 \in 1..t.count /\ (s.count + 1) - 1 = s.count /\ s.count + 1 \in 1..(s.count + 1)
    BY <1>5, <1>7
  <2> QED BY <2>1, <1>6, <1>8
<1>10. ASSUME NEW i \in 0..(s.count - 1) PROVE t.cell[i] = s.cell[i]
  <2>1. /\ i + 1 \in 1..s.count /\ i + 1 \in 1..t.count /\ i + 1 \in 1..(s.count + 1)
        /\ (i + 1) - 1 = i /\ i + 1 # s.count + 1
    BY <1>5, <1>7
  <2> QED BY <2>1, <1>5, <1>6, <1>8
<1> QED BY <1>3, <1>7, <1>9, <1>10 DEF Added

\* t is s without the values before a place.
Shifted(s, start, t) ==
  /\ t.count = IF start = s.count - 1 THEN 0 ELSE s.count - start
  /\ \A i \in 0..(t.count - 1) : t.cell[i] = s.cell[i + start]

\* A move drops the values before a place, and the last one if it is all that is left.
LEMMA MoveStore ==
  ASSUME NEW s \in Buffer!Stores, Buffer!Clean(s), NEW start \in 1..254, start <= s.count - 1,
         NEW t, t = Message!MoveLeft(s, start)
  PROVE  t \in Buffer!Stores /\ Buffer!Clean(t) /\ Shifted(s, start, t)
<1>1. t = Buffer!MoveLeft(s, start)
  BY DEF Message!MoveLeft, Buffer!MoveLeft, Message!Reset, Buffer!Reset, Message!Cells, Buffer!Cells,
         Message!Capacity, Buffer!Capacity
<1>2. s.count \in 2..254
  <2>1. s.count \in Nat /\ s.count <= 254
    BY StoreTypes
  <2> QED BY <2>1
<1>3. CASE start = s.count - 1
  <2>1. t = Buffer!Reset(s)
    BY <1>1, <1>2, <1>3 DEF Buffer!MoveLeft
  <2>2. t.count = 0
    BY <2>1 DEF Buffer!Reset
  <2>3. t \in Buffer!Stores /\ Buffer!Clean(t)
    BY <2>1, SizeIs, Buffer!ResetIsEmpty
  <2> QED BY <1>3, <2>2, <2>3 DEF Shifted
<1>4. CASE start < s.count - 1
  <2>1. /\ t \in Buffer!Stores /\ Buffer!Clean(t)
        /\ Buffer!Values(t) = [k \in 1..(s.count - start) |-> s.cell[start + k - 1]]
    <3>1. start \in 1..Buffer!Capacity /\ Buffer!BufferAssumption
      BY SizeIs
    <3>2. /\ Buffer!MoveLeft(s, start) \in Buffer!Stores /\ Buffer!Clean(Buffer!MoveLeft(s, start))
          /\ Buffer!Values(Buffer!MoveLeft(s, start)) =
               [k \in 1..(s.count - start) |-> s.cell[start + k - 1]]
      BY <1>4, <3>1, Buffer!MoveDrops
    <3> QED BY <1>1, <3>2
  <2>2. t.count = s.count - start
    <3>1. Len(Buffer!Values(t)) = t.count
      BY <2>1, SizeIs, Buffer!ValuesAreDigits
    <3>2. s.count - start \in Nat
      <4>1. s.count \in Nat /\ start \in Nat /\ start < s.count
        BY <1>2
      <4> QED BY <4>1, LeftIs
    <3>3. Len(Buffer!Values(t)) = s.count - start
      BY <2>1, <3>2
    <3> QED BY <3>1, <3>3
  <2>3. /\ t.count \in 0..254
        /\ \A k \in 1..t.count : Buffer!Values(t)[k] = t.cell[k - 1]
    BY <2>1, SizeIs, Buffer!ValuesAreDigits
  <2>4. ASSUME NEW i \in 0..(t.count - 1) PROVE t.cell[i] = s.cell[i + start]
    <3>1. i + 1 \in 1..t.count /\ i + 1 \in 1..(s.count - start) /\ (i + 1) - 1 = i
          /\ start + (i + 1) - 1 = i + start
      BY <1>2, <2>2, <2>3
    <3>2. Buffer!Values(t)[i + 1] = s.cell[i + start]
      BY <2>1, <3>1
    <3> QED BY <2>3, <3>1, <3>2
  <2>5. t.count = IF start = s.count - 1 THEN 0 ELSE s.count - start
    BY <2>2, <1>4, <1>2
  <2> QED BY <2>1, <2>4, <2>5 DEF Shifted
<1>5. start = s.count - 1 \/ start < s.count - 1
  BY <1>2
<1> QED BY <1>3, <1>4, <1>5

\* t is s with one value in the place of another.
Changed(s, from, to, t) ==
  \A i \in 0..(s.count - 1) : t.cell[i] = IF s.cell[i] = from THEN to ELSE s.cell[i]

\* A change of values leaves the others where they are.
LEMMA ChangeStore ==
  ASSUME NEW s \in Buffer!Stores, Buffer!Clean(s), NEW from \in 0..15, NEW to \in 0..15,
         NEW t, t = Message!ChangeValues(s, from, to)
  PROVE  /\ t \in Buffer!Stores /\ Buffer!Clean(t) /\ t.count = s.count
         /\ Changed(s, from, to, t)
<1>1. t = Buffer!ChangeValues(s, from, to)
  BY DEF Message!ChangeValues, Buffer!ChangeValues, Message!Cells, Buffer!Cells, Message!Capacity,
         Buffer!Capacity
<1>2. from \in Buffer!Digits /\ to \in Buffer!Digits
  BY DEF Buffer!Digits
<1>3. t \in Buffer!Stores /\ Buffer!Clean(t)
  BY <1>1, <1>2, SizeIs, Buffer!ChangeReplaces
<1>4. DOMAIN s = {"cell", "count"}
  BY DEF Buffer!Stores
<1>5. t.count = s.count /\ t.cell = [i \in Buffer!Cells |-> IF i < s.count /\ s.cell[i] = from THEN to ELSE s.cell[i]]
  BY <1>1, <1>4 DEF Buffer!ChangeValues
<1>6. ASSUME NEW i \in 0..(s.count - 1) PROVE t.cell[i] = IF s.cell[i] = from THEN to ELSE s.cell[i]
  <2>1. i \in Buffer!Cells /\ i < s.count
    <3>1. s.count \in Nat /\ s.count <= 254
      BY StoreTypes
    <3> QED BY <3>1, SizeIs
  <2> QED BY <2>1, <1>5
<1> QED BY <1>3, <1>5, <1>6 DEF Changed

-----------------------------------------------------------------------------
(* What the invariant looks at.                                             *)

\* A detector with the same buffer and patterns has the same pulses.
LEMMA SameBuffer ==
  ASSUME NEW e, NEW f, f.message = e.message, f.pattern = e.pattern, f.patternLen = e.patternLen,
         IsRecent(e, heard)
  PROVE  IsRecent(f, heard) /\ Count(f) = Count(e) /\ Gone(f, heard) = Gone(e, heard)
BY DEF IsRecent, Fits, ValueOf, At, Count, Gone

\* A change of other fields leaves the invariant alone.
LEMMA StaysSound ==
  ASSUME NEW e, NEW f, NEW changed \in SUBSET Sorted, Sound(e), SameBut(e, f, changed),
         \A x \in changed : f[x] \in Sorts[x],
         changed \intersect {"message", "pattern", "patternLen", "patternPos"} = {},
         Continued(f)
  PROVE  /\ Sound(f) /\ f.message = e.message /\ Count(f) = Count(e)
         /\ Gone(f, heard) = Gone(e, heard) /\ f.out = e.out
<1>1. Typed(f)
  BY StaysTyped DEF Sound
<1>2. {"message", "pattern", "patternLen", "patternPos", "out"} \subseteq Fields \ changed
  BY SortedAre DEF Fields
<1>3. /\ f.message = e.message /\ f.pattern = e.pattern /\ f.patternLen = e.patternLen
      /\ f.patternPos = e.patternPos /\ f.out = e.out
  BY <1>2 DEF SameBut
<1>4. IsRecent(f, heard) /\ Count(f) = Count(e) /\ Gone(f, heard) = Gone(e, heard)
  BY <1>3, SameBuffer DEF Sound
<1>5. Buffer!Clean(f.message) /\ Placed(f)
  BY <1>3 DEF Sound, Placed
<1> QED BY <1>1, <1>3, <1>4, <1>5 DEF Sound

\* The numbers that the invariant ties together.
LEMMA Numbers ==
  ASSUME NEW e, Sound(e), heard \in Seq(Pulses)
  PROVE  /\ Count(e) \in Nat /\ Count(e) <= 254 /\ Len(heard) \in Nat /\ Gone(e, heard) \in Nat
         /\ Gone(e, heard) = Len(heard) - Count(e)
         /\ e.patternLen \in Nat /\ e.patternLen <= 8
<1>1. Count(e) \in Nat /\ Count(e) <= 254
  BY BufferTypes DEF Sound
<1>2. e.patternLen \in Nat /\ e.patternLen <= 8
  BY FieldTypes DEF Sound
<1>3. Len(heard) \in Nat
  OBVIOUS
<1>4. Gone(e, heard) = Len(heard) - Count(e)
  BY DEF Gone
<1>5. Gone(e, heard) >= 0
  BY DEF Sound, IsRecent
<1>6. Gone(e, heard) \in Int
  BY <1>1, <1>3 DEF Gone
<1>7. Gone(e, heard) \in Nat
  BY <1>5, <1>6
<1> QED BY <1>1, <1>2, <1>3, <1>4, <1>7

\* Which of the pulses heard a place of the buffer stands for.
LEMMA PlaceOfPulse ==
  ASSUME NEW c \in Nat, c <= 254, NEW h \in Nat, NEW g \in Nat, g = h - c, NEW i \in Nat, i < c
  PROVE  /\ g + i + 1 \in (g + 1)..h /\ (g + i + 1) - g - 1 = i /\ g + i + 1 \in 1..h
         /\ i \in 0..253
OBVIOUS

\* The value at a place of the buffer is a pattern with its pulse's sign.
LEMMA PlaceFits ==
  ASSUME NEW e, Sound(e), heard \in Seq(Pulses), NEW i \in Nat, i < Count(e)
  PROVE  /\ At(e, i) \in Patterns /\ At(e, i) < e.patternLen
         /\ e.pattern[At(e, i)] \in Lengths /\ e.pattern[At(e, i)] # 0
         /\ Gone(e, heard) + i + 1 \in 1..Len(heard)
         /\ ~ Opposite(e.pattern[At(e, i)], heard[Gone(e, heard) + i + 1])
<1> DEFINE g == Gone(e, heard)
           n == g + i + 1
<1>1. /\ Count(e) \in Nat /\ Count(e) <= 254 /\ Len(heard) \in Nat /\ g \in Nat
      /\ g = Len(heard) - Count(e)
  BY Numbers
<1>2. n \in (g + 1)..Len(heard) /\ n - g - 1 = i /\ n \in 1..Len(heard) /\ i \in 0..253
  BY <1>1, PlaceOfPulse
<1>3. Fits(e, At(e, i), heard[n])
  <2>1. Fits(e, ValueOf(e, heard, n), heard[n])
    BY <1>2 DEF Sound, IsRecent
  <2>2. ValueOf(e, heard, n) = At(e, i)
    BY <1>2 DEF ValueOf
  <2> QED BY <2>1, <2>2
<1>4. At(e, i) \in 0..15
  BY <1>2, BufferTypes DEF Sound
<1>5. At(e, i) \in Patterns
  <2>1. At(e, i) < e.patternLen /\ e.patternLen \in Nat /\ e.patternLen <= 8
    BY <1>3, Numbers DEF Fits
  <2> QED BY <1>4, <2>1
<1>6. e.pattern[At(e, i)] \in Lengths
  BY <1>5, FieldTypes DEF Sound
<1> QED BY <1>2, <1>3, <1>5, <1>6 DEF Fits

-----------------------------------------------------------------------------
(* Resets and moves.                                                        *)

\* The message that is kept is the end of what was heard, and the next pulse can be compared with
\* its last value.
Kept(e) == e.truncated => Count(e) < 254 /\ (Count(e) = 0 \/ e.last = LastOf(e.message))

\* The start of an empty message.
LEMMA EmptyIsRecent ==
  ASSUME NEW e, Count(e) = 0, heard \in Seq(Pulses)
  PROVE  IsRecent(e, heard) /\ Gone(e, heard) = Len(heard)
<1>1. Len(heard) \in Nat
  OBVIOUS
<1>2. Gone(e, heard) = Len(heard)
  BY <1>1 DEF Gone
<1>3. (Len(heard) + 1)..Len(heard) = {} /\ (Len(heard) + 2)..Len(heard) = {}
  BY <1>1
<1> QED BY <1>1, <1>2, <1>3 DEF IsRecent

\* The fields of a new detector.
LEMMA NewIs ==
  /\ DOMAIN New = Fields
  /\ New.pattern = Zeros /\ New.histo = Zeros /\ New.patternLen = 0 /\ New.patternPos = 0
  /\ New.state = "searching" /\ New.clock = None /\ New.sync = None /\ New.last = None
  /\ New.mstart = 0 /\ New.mend = 0 /\ New.success = FALSE /\ New.truncated = FALSE
  /\ New.mcDetected = FALSE /\ New.moves = 0 /\ New.bit = 0 /\ New.message = Message!New
  /\ New.mc = NoMc /\ New.out = <<>>
<1>1. DOMAIN New = Fields
  BY SortedAre DEF New, Fields
<1> QED BY <1>1 DEF New

\* Patterns and tallies may be zero.
LEMMA ZerosAre == Zeros \in [Patterns -> Lengths] /\ Zeros \in [Patterns -> Tallies]
<1>1. 0 \in Lengths /\ 0 \in Tallies
  BY LengthsAre, MaxPulseIs DEF Tallies
<1> QED BY <1>1 DEF Zeros

\* reset empties the message and forgets the patterns.
LEMMA ResetIs ==
  ASSUME NEW e, Sound(e), heard \in Seq(Pulses), NEW f, f = Reset(e)
  PROVE  /\ Sound(f) /\ Count(f) = 0 /\ Gone(f, heard) = Len(heard)
         /\ f.out = e.out /\ f.mc = e.mc /\ f.state = "searching"
         /\ ~ f.truncated /\ ~ f.success /\ ~ f.mcDetected
<1>1. /\ DOMAIN f = Fields
      /\ f.pattern = Zeros /\ f.histo = Zeros /\ f.patternLen = 0 /\ f.patternPos = 0
      /\ f.state = "searching" /\ f.clock = None /\ f.sync = None /\ f.last = None
      /\ f.mstart = 0 /\ f.mend = 0 /\ f.success = FALSE /\ f.truncated = FALSE
      /\ f.mcDetected = FALSE /\ f.moves = 3 /\ f.bit = e.bit
      /\ f.message = Message!Reset(e.message) /\ f.mc = e.mc /\ f.out = e.out
  BY NewIs, SortedAre DEF Reset, Fields
<1>2. e.message \in Buffer!Stores /\ e.bit \in 0..1
  BY FieldTypes DEF Sound
<1>3. f.message \in Buffer!Stores /\ Buffer!Clean(f.message) /\ Count(f) = 0
  BY <1>1, <1>2, ResetStore DEF Count
<1>4. \A x \in Sorted : f[x] \in Sorts[x]
  <2>1. f.state \in States /\ f.patternLen \in 0..8 /\ f.patternPos \in 0..7 /\ f.mstart \in 0..254
        /\ f.mend \in 0..255 /\ f.moves \in 0..3
    BY <1>1 DEF States
  <2>2. /\ f["message"] \in Sorts["message"] /\ f["pattern"] \in Sorts["pattern"]
        /\ f["histo"] \in Sorts["histo"] /\ f["patternLen"] \in Sorts["patternLen"]
        /\ f["patternPos"] \in Sorts["patternPos"] /\ f["state"] \in Sorts["state"]
        /\ f["clock"] \in Sorts["clock"] /\ f["sync"] \in Sorts["sync"] /\ f["last"] \in Sorts["last"]
        /\ f["mstart"] \in Sorts["mstart"] /\ f["mend"] \in Sorts["mend"]
        /\ f["success"] \in Sorts["success"] /\ f["truncated"] \in Sorts["truncated"]
        /\ f["mcDetected"] \in Sorts["mcDetected"] /\ f["moves"] \in Sorts["moves"]
        /\ f["bit"] \in Sorts["bit"]
    <3>1. /\ f["message"] \in Sorts["message"] /\ f["pattern"] \in Sorts["pattern"]
          /\ f["histo"] \in Sorts["histo"]
      BY <1>1, <1>3, SortsAre, ZerosAre
    <3>2. /\ f["clock"] \in Sorts["clock"] /\ f["sync"] \in Sorts["sync"]
          /\ f["last"] \in Sorts["last"]
      BY <1>1, SortsAre, NoneIsNot
    <3>3. /\ f["patternLen"] \in Sorts["patternLen"] /\ f["patternPos"] \in Sorts["patternPos"]
          /\ f["state"] \in Sorts["state"]
          /\ f["mstart"] \in Sorts["mstart"] /\ f["mend"] \in Sorts["mend"]
          /\ f["moves"] \in Sorts["moves"] /\ f["bit"] \in Sorts["bit"]
      BY <1>1, <1>2, <2>1, SortsAre
    <3>4. /\ f["success"] \in Sorts["success"] /\ f["truncated"] \in Sorts["truncated"]
          /\ f["mcDetected"] \in Sorts["mcDetected"]
      BY <1>1, SortsAre
    <3> QED BY <3>1, <3>2, <3>3, <3>4
  <2> QED BY <2>2, SortedAre
<1>5. Typed(f)
  BY <1>1, <1>4 DEF Typed, Sound
<1>6. IsRecent(f, heard) /\ Gone(f, heard) = Len(heard)
  BY <1>3, EmptyIsRecent
<1> QED BY <1>1, <1>3, <1>5, <1>6 DEF Sound, Placed, Continued

\* A place in the buffer that is left of c values when some are dropped.
LEMMA PlaceIs ==
  ASSUME NEW g \in Nat, NEW h \in Nat, NEW c \in Nat, g = h - c, NEW start \in Nat, NEW n \in Int,
         g + start + 1 <= n, n <= h
  PROVE  n - (g + start) - 1 \in 0..(c - start - 1)
OBVIOUS

\* What is left of a recent buffer when its beginning is dropped, or all of it.
LEMMA EndIsRecent ==
  ASSUME NEW e, Sound(e), heard \in Seq(Pulses), NEW f, f.pattern = e.pattern,
         f.patternLen = e.patternLen, NEW start \in Nat, start < Count(e),
         Count(f) = Count(e) - start, \A i \in 0..(Count(f) - 1) : At(f, i) = At(e, i + start)
  PROVE  IsRecent(f, heard) /\ Gone(f, heard) = Gone(e, heard) + start
<1> DEFINE g == Gone(e, heard)
           h == Len(heard)
<1>1. Count(e) \in Nat /\ Count(e) <= 254 /\ h \in Nat /\ g \in Nat /\ g = h - Count(e)
  BY Numbers
<1>2. Gone(f, heard) = g + start
  BY <1>1 DEF Gone
<1>3. ASSUME NEW n \in (g + start + 1)..h PROVE Fits(f, ValueOf(f, heard, n), heard[n])
  <2>1. n \in (g + 1)..h /\ n - (g + start) - 1 \in 0..(Count(f) - 1)
        /\ (n - (g + start) - 1) + start = n - g - 1
    <3>1. n \in Int /\ g + start + 1 <= n /\ n <= h
      BY <1>1
    <3>2. n \in (g + 1)..h /\ (n - (g + start) - 1) + start = n - g - 1
      <4> HIDE DEF g, h
      <4>1. g \in Nat /\ h \in Nat
        BY <1>1
      <4> QED BY <3>1, <4>1
    <3>3. n - (g + start) - 1 \in 0..(Count(e) - start - 1)
      <4> HIDE DEF g, h
      <4> QED BY <1>1, <3>1, PlaceIs
    <3> QED BY <3>2, <3>3
  <2>2. ValueOf(f, heard, n) = ValueOf(e, heard, n)
    BY <1>2, <2>1 DEF ValueOf
  <2>3. Fits(e, ValueOf(e, heard, n), heard[n])
    BY <2>1 DEF Sound, IsRecent
  <2> QED BY <2>2, <2>3 DEF Fits
<1>4. ASSUME NEW n \in (g + start + 2)..h PROVE Opposite(heard[n], heard[n - 1])
  <2>1. n \in (g + 2)..h
    BY <1>1
  <2> QED BY <2>1 DEF Sound, IsRecent
<1>5. g + start >= 0
  BY <1>1
<1> QED BY <1>2, <1>3, <1>4, <1>5 DEF IsRecent

\* What a move to a place makes of it.
MovesTo(e, start, f) ==
  /\ Sound(f) /\ Kept(f) /\ Gone(e, heard) <= Gone(f, heard)
  /\ Gone(e, heard) + start <= Gone(f, heard) \/ Count(f) = 0
  /\ f.out = e.out /\ f.mc = e.mc
  /\ f.mcDetected => e.mcDetected
  /\ f.success => e.success
  /\ f.state \in {e.state, "searching"}

\* bufferMove drops values from the front only.
LEMMA MoveIs ==
  ASSUME NEW e, Sound(e), heard \in Seq(Pulses), NEW start \in Nat
  PROVE  MovesTo(e, start, BufferMove(e, start))
<1> SUFFICES ASSUME NEW f, f = BufferMove(e, start) PROVE MovesTo(e, start, f)
  OBVIOUS
<1>0. Count(e) \in Nat /\ Count(e) <= 254 /\ Len(heard) \in Nat /\ Gone(e, heard) \in Nat
      /\ Gone(e, heard) = Len(heard) - Count(e)
  BY Numbers
<1>1. CASE start = 0 \/ Count(e) = 0
  <2>1. f = [e EXCEPT !.truncated = FALSE]
    BY <1>1 DEF BufferMove
  <2>2. DOMAIN e = Fields
    BY DEF Sound, Typed
  <2>3. SameBut(e, f, {"truncated"}) /\ f.truncated = FALSE
    BY <2>1, <2>2, SortedAre DEF SameBut, Fields
  <2>4. f.mcDetected = e.mcDetected /\ f.state = e.state /\ f.mc = e.mc /\ f.success = e.success
    BY <2>3, SortedAre DEF SameBut, Fields
  <2>5. Sound(f) /\ Count(f) = Count(e) /\ Gone(f, heard) = Gone(e, heard) /\ f.out = e.out
    <3>1. Continued(f)
      BY <2>4 DEF Sound, Continued
    <3>2. {"truncated"} \in SUBSET Sorted /\ \A x \in {"truncated"} : f[x] \in Sorts[x]
      <4>1. f["truncated"] \in Sorts["truncated"]
        BY <2>3, SortsAre
      <4> QED BY <4>1, SortedAre
    <3>3. {"truncated"} \intersect {"message", "pattern", "patternLen", "patternPos"} = {}
      OBVIOUS
    <3> QED BY <2>3, <3>1, <3>2, <3>3, StaysSound
  <2> QED BY <1>0, <1>1, <2>3, <2>4, <2>5 DEF Kept, MovesTo
<1>2. CASE start # 0 /\ Count(e) # 0 /\ start > Count(e) - 1
  <2>1. f = Reset(e)
    BY <1>2 DEF BufferMove
  <2> QED BY <1>0, <2>1, ResetIs DEF Kept, MovesTo
<1>3. CASE start # 0 /\ Count(e) # 0 /\ ~ (start > Count(e) - 1)
  <2> DEFINE moved == Message!MoveLeft(e.message, start)
  <2>1. f = [e EXCEPT !.message = moved, !.truncated = TRUE, !.last = LastOf(moved)]
    BY <1>3 DEF BufferMove
  <2>2. start \in 1..254 /\ start <= Count(e) - 1
    BY <1>0, <1>3
  <2>3. DOMAIN e = Fields
    BY DEF Sound, Typed
  <2>4. /\ moved \in Buffer!Stores /\ Buffer!Clean(moved)
        /\ moved.count = IF start = Count(e) - 1 THEN 0 ELSE Count(e) - start
        /\ \A i \in 0..(moved.count - 1) : moved.cell[i] = At(e, i + start)
    <3>1. e.message \in Buffer!Stores /\ Buffer!Clean(e.message)
      BY FieldTypes DEF Sound
    <3>2. start <= e.message.count - 1
      BY <2>2 DEF Count
    <3> HIDE DEF moved
    <3>3. moved = Message!MoveLeft(e.message, start)
      BY DEF moved
    <3>4. moved \in Buffer!Stores /\ Buffer!Clean(moved) /\ Shifted(e.message, start, moved)
      BY <2>2, <3>1, <3>2, <3>3, MoveStore
    <3> QED BY <3>4 DEF Count, At, Shifted
  <2>5. SameBut(e, f, {"message", "truncated", "last"})
    BY <2>1, <2>3, SortedAre DEF SameBut, Fields
  <2>6. f.message = moved /\ f.truncated = TRUE /\ f.last = LastOf(moved)
    BY <2>1, <2>3, SortedAre DEF Fields
  <2>7. /\ f.pattern = e.pattern /\ f.patternLen = e.patternLen /\ f.patternPos = e.patternPos
        /\ f.mcDetected = e.mcDetected /\ f.state = e.state /\ f.mc = e.mc /\ f.success = e.success
        /\ f.out = e.out
    BY <2>5, SortedAre DEF SameBut, Fields
  <2> HIDE DEF moved
  <2>8. IsRecent(f, heard) /\ Gone(e, heard) <= Gone(f, heard) /\ (Gone(e, heard) + start <= Gone(f, heard) \/ Count(f) = 0)
    <3>1. CASE start = Count(e) - 1
      <4>1. Count(f) = 0
        BY <2>4, <2>6, <3>1 DEF Count
      <4> QED BY <1>0, <4>1, EmptyIsRecent
    <3>2. CASE start # Count(e) - 1
      <4>1. Count(f) = Count(e) - start /\ start < Count(e)
        BY <1>0, <2>2, <2>4, <2>6, <3>2 DEF Count
      <4>2. \A i \in 0..(Count(f) - 1) : At(f, i) = At(e, i + start)
        BY <2>4, <2>6 DEF Count, At
      <4>3. IsRecent(f, heard) /\ Gone(f, heard) = Gone(e, heard) + start
        BY <2>7, <4>1, <4>2, EndIsRecent
      <4> QED BY <1>0, <4>3
    <3> QED BY <3>1, <3>2
  <2>9. Count(f) < 254
    <3>1. Count(f) = IF start = Count(e) - 1 THEN 0 ELSE Count(e) - start
      BY <2>4, <2>6 DEF Count
    <3>2. start \in Nat /\ 1 <= start
      BY <2>2
    <3> QED BY <1>0, <3>1, <3>2
  <2>10. LastOf(moved) \in MaybePattern
    <3>1. CASE moved.count > 0
      <4>1. Count(f) \in Nat /\ Count(f) <= Count(e) /\ Count(f) = Count(e) - start /\ Count(f) = moved.count
        <5>1. moved.count = IF start = Count(e) - 1 THEN 0 ELSE Count(e) - start
          BY <2>4
        <5>2. Count(f) = moved.count
          BY <2>6 DEF Count
        <5>3. Count(e) \in Nat /\ start \in Nat /\ 1 <= start /\ start <= Count(e) - 1
          BY <1>0, <2>2
        <5> QED BY <3>1, <5>1, <5>2, <5>3
      <4>2. moved.count - 1 \in 0..(moved.count - 1) /\ (moved.count - 1) + start \in Nat
            /\ (moved.count - 1) + start < Count(e)
        BY <1>0, <2>2, <3>1, <4>1
      <4>3. moved.cell[moved.count - 1] \in Patterns
        BY <2>4, <4>2, PlaceFits
      <4> QED BY <3>1, <4>3 DEF LastOf, MaybePattern
    <3>2. CASE ~ (moved.count > 0)
      BY <3>2, NoneIsNot DEF LastOf
    <3> QED BY <3>1, <3>2
  <2>11. Typed(f)
    <3>1. {"message", "truncated", "last"} \in SUBSET Sorted
      BY SortedAre
    <3>2. \A x \in {"message", "truncated", "last"} : f[x] \in Sorts[x]
      <4>1. /\ f["message"] \in Sorts["message"] /\ f["truncated"] \in Sorts["truncated"]
            /\ f["last"] \in Sorts["last"]
        BY <2>4, <2>6, <2>10, SortsAre
      <4> QED BY <4>1
    <3> QED BY <2>5, <3>1, <3>2, StaysTyped DEF Sound
  <2>12. Sound(f)
    BY <2>4, <2>6, <2>7, <2>8, <2>11 DEF Sound, Placed, Continued
  <2> QED BY <2>6, <2>7, <2>8, <2>9, <2>12 DEF Kept, MovesTo
<1> QED BY <1>1, <1>2, <1>3

-----------------------------------------------------------------------------
(* The histogram.                                                           *)

\* How often a pattern occurs from a place to one before another.
Places(e, from, end, p) == {i \in from..(end - 1) : At(e, i) = p}

\* The histogram of the whole message.
Exact(e) == \A p \in Patterns : e.histo[p] = Cardinality(Places(e, 0, Count(e), p))

\* An interval of places.
LEMMA IntervalIs ==
  ASSUME NEW from \in Nat, NEW end \in Nat, end <= 254
  PROVE  IsFiniteSet(from..(end - 1)) /\ Cardinality(from..(end - 1)) <= 254
<1>1. from \in Int /\ end - 1 \in Int
  OBVIOUS
<1>2. /\ IsFiniteSet(from..(end - 1))
      /\ Cardinality(from..(end - 1)) = IF from > end - 1 THEN 0 ELSE (end - 1) - from + 1
  BY <1>1, FS_Interval
<1> QED BY <1>2

\* Places in the buffer are counted, and there are none only if the number is zero.
LEMMA SomePlaces ==
  ASSUME NEW from \in Nat, NEW end \in Nat, end <= 254, NEW S \in SUBSET (from..(end - 1))
  PROVE  /\ IsFiniteSet(S) /\ Cardinality(S) \in Nat /\ Cardinality(S) <= 254
         /\ Cardinality(S) = 0 <=> S = {}
<1>1. IsFiniteSet(from..(end - 1)) /\ Cardinality(from..(end - 1)) <= 254
  BY IntervalIs
<1>2. IsFiniteSet(S) /\ Cardinality(S) <= Cardinality(from..(end - 1))
  BY <1>1, FS_Subset
<1>3. Cardinality(S) \in Nat /\ Cardinality(from..(end - 1)) \in Nat
  BY <1>1, <1>2, FS_CardinalityType
<1>4. Cardinality(S) = 0 <=> S = {}
  BY <1>2, FS_EmptySet
<1> QED BY <1>1, <1>2, <1>3, <1>4

\* The places of a value are counted within a whole buffer.
LEMMA PlacesAre ==
  ASSUME NEW e, NEW from \in Nat, NEW end \in Nat, end <= 254, NEW p
  PROVE  /\ IsFiniteSet(Places(e, from, end, p))
         /\ Cardinality(Places(e, from, end, p)) \in Nat /\ Cardinality(Places(e, from, end, p)) <= 254
         /\ Cardinality(Places(e, from, end, p)) = 0 <=> Places(e, from, end, p) = {}
<1>1. Places(e, from, end, p) \in SUBSET (from..(end - 1))
  BY DEF Places
<1> QED BY <1>1, SomePlaces

\* calcHisto, of a message that is not empty.
LEMMA HistoIs ==
  ASSUME NEW e, Sound(e), heard \in Seq(Pulses), NEW from \in Nat, NEW to \in Nat, to <= 254,
         NEW f, f = CalcHisto(e, from, to)
  PROVE  /\ Sound(f) /\ SameBut(e, f, {"histo"})
         /\ Count(e) # 0 =>
              f.histo = [p \in Patterns |->
                           Cardinality(Places(e, from, IF to = 0 THEN Count(e) ELSE to, p))]
<1> DEFINE end == IF to = 0 THEN Count(e) ELSE to
           histo == [p \in Patterns |-> Cardinality(Places(e, from, end, p))]
<1>1. Count(e) \in Nat /\ Count(e) <= 254
  BY Numbers
<1>2. DOMAIN e = Fields
  BY DEF Sound, Typed
<1>3. CASE Count(e) = 0
  <2>1. f = e
    BY <1>3 DEF CalcHisto
  <2> QED BY <1>2, <1>3, <2>1 DEF SameBut
<1>4. CASE Count(e) # 0
  <2>1. f = [e EXCEPT !.histo = histo]
    BY <1>4 DEF CalcHisto, Places
  <2>2. end \in Nat /\ end <= 254
    BY <1>1
  <2>3. histo \in [Patterns -> Tallies]
    <3>1. ASSUME NEW p \in Patterns PROVE Cardinality(Places(e, from, end, p)) \in Tallies
      <4>1. Cardinality(Places(e, from, end, p)) \in Nat /\ Cardinality(Places(e, from, end, p)) <= 254
        <5> HIDE DEF end, histo
        <5> QED BY <2>2, PlacesAre
      <4> QED BY <4>1, TallyIs
    <3> QED BY <3>1
  <2> HIDE DEF histo
  <2>4. SameBut(e, f, {"histo"}) /\ f.histo = histo
    BY <1>2, <2>1, SortedAre DEF SameBut, Fields
  <2>5. f.mcDetected = e.mcDetected /\ f.state = e.state
    BY <2>4, SortedAre DEF SameBut, Fields
  <2>6. Sound(f)
    <3>1. {"histo"} \in SUBSET Sorted /\ \A x \in {"histo"} : f[x] \in Sorts[x]
      BY <2>3, <2>4, SortedAre, SortsAre
    <3>2. Continued(f)
      BY <2>5 DEF Sound, Continued
    <3>3. {"histo"} \intersect {"message", "pattern", "patternLen", "patternPos"} = {}
      OBVIOUS
    <3> QED BY <2>4, <3>1, <3>2, <3>3, StaysSound
  <2> QED BY <2>4, <2>6 DEF histo
<1> QED BY <1>3, <1>4

-----------------------------------------------------------------------------
(* Patterns that are merged.                                                *)

\* A mean of lengths, rounded to zero.
LEMMA MeanIs ==
  ASSUME NEW x \in Nat, NEW y \in Nat, y >= 1, NEW n \in Nat, y <= x, x <= n * y
  PROVE  1 <= x \div y /\ x \div y <= n /\ x \div y \in Nat
<1> DEFINE q == x \div y
<1>1. q \in Nat
  OBVIOUS
<1>2. x = q * y + (x % y) /\ x % y \in Nat /\ x % y < y
  OBVIOUS
<1>3. q >= 1
  <2>1. ASSUME q = 0 PROVE FALSE
    BY <1>2, <2>1
  <2> QED BY <1>1, <2>1
<1>4. q <= n
  <2>1. ASSUME q >= n + 1 PROVE FALSE
    <3> HIDE DEF q
    <3>1. PICK r \in Nat : q = n + 1 + r
      <4>1. q - (n + 1) \in Nat /\ q = n + 1 + (q - (n + 1))
        BY <1>1, <2>1
      <4> QED BY <4>1
    <3>2. q * y = n * y + y + r * y /\ r * y \in Nat
      BY <3>1
    <3> QED BY <1>2, <3>2
  <2> QED BY <1>1, <2>1
<1> QED BY <1>1, <1>3, <1>4

\* A weighted mean of two lengths of one sign is a length of that sign.
LEMMA WeightedIs ==
  ASSUME NEW n \in Nat, NEW a \in Nat, NEW b \in Nat, NEW h \in Nat, NEW k \in Nat,
         a >= 1, b >= 1, a <= n, b <= n, h >= 1, k >= 1
  PROVE  /\ a * h + b * k \in Nat /\ h + k >= 1
         /\ 1 <= (a * h + b * k) \div (h + k) /\ (a * h + b * k) \div (h + k) <= n
         /\ (a * h + b * k) \div (h + k) \in Nat
<1>1. a * h = h + (a - 1) * h /\ b * k = k + (b - 1) * k
  OBVIOUS
<1>2. (a - 1) * h \in Nat /\ (b - 1) * k \in Nat
  OBVIOUS
<1>3. n * h = a * h + (n - a) * h /\ n * k = b * k + (n - b) * k
  OBVIOUS
<1>4. (n - a) * h \in Nat /\ (n - b) * k \in Nat
  OBVIOUS
<1>5. n * (h + k) = n * h + n * k /\ n * h \in Nat /\ n * k \in Nat /\ a * h \in Nat /\ b * k \in Nat
  OBVIOUS
<1> DEFINE x == a * h + b * k
           y == h + k
<1>6. x \in Nat /\ y \in Nat /\ y >= 1 /\ y <= x /\ x <= n * y
  BY <1>1, <1>2, <1>3, <1>4, <1>5
<1> HIDE DEF x, y
<1>7. 1 <= x \div y /\ x \div y <= n /\ x \div y \in Nat
  BY <1>6, MeanIs
<1> QED BY <1>6, <1>7 DEF x, y

\* Two disjoint sets of places.
LEMMA DisjointPlaces ==
  ASSUME NEW e, NEW n \in Nat, n <= 254, NEW i, NEW j, i # j
  PROVE  /\ Cardinality(Places(e, 0, n, i) \union Places(e, 0, n, j)) =
              Cardinality(Places(e, 0, n, i)) + Cardinality(Places(e, 0, n, j))
         /\ Cardinality(Places(e, 0, n, i) \union Places(e, 0, n, j)) \in Nat
         /\ Cardinality(Places(e, 0, n, i) \union Places(e, 0, n, j)) <= 254
<1> DEFINE I == Places(e, 0, n, i)
           J == Places(e, 0, n, j)
<1>1. I \intersect J = {} /\ I \union J \in SUBSET (0..(n - 1))
  BY DEF Places
<1>2. /\ IsFiniteSet(I) /\ IsFiniteSet(J)
      /\ Cardinality(I) \in Nat /\ Cardinality(J) \in Nat
  BY PlacesAre
<1> HIDE DEF I, J
<1>3. Cardinality(I \union J) = Cardinality(I) + Cardinality(J) - Cardinality(I \intersect J)
  BY <1>2, FS_Union
<1>4. Cardinality(I \intersect J) = 0
  BY <1>1, FS_EmptySet
<1>5. Cardinality(I \union J) \in Nat /\ Cardinality(I \union J) <= 254
  BY <1>1, SomePlaces
<1> QED BY <1>2, <1>3, <1>4, <1>5 DEF I, J

\* The weighted mean of two lengths of one sign is one.
LEMMA MergedIs ==
  ASSUME NEW a \in Lengths, NEW b \in Lengths, a # 0, b # 0, ~ Opposite(a, b),
         NEW h \in Nat, NEW k \in Nat, h >= 1, k >= 1,
         NEW m, m = Weighted(a, h, b, k)
  PROVE  m \in Lengths /\ m # 0 /\ (m < 0 <=> a < 0)
<1>1. /\ a \in Int /\ -MaxPulse <= a /\ a <= MaxPulse
      /\ b \in Int /\ -MaxPulse <= b /\ b <= MaxPulse
      /\ MaxPulse \in Nat
  BY LengthsAre, MaxPulseIs
<1>2. CASE a > 0
  <2>1. b > 0 /\ a >= 1 /\ b >= 1 /\ a \in Nat /\ b \in Nat
    BY <1>1, <1>2 DEF Opposite
  <2>2. /\ a * h + b * k \in Nat /\ 1 <= (a * h + b * k) \div (h + k)
        /\ (a * h + b * k) \div (h + k) <= MaxPulse /\ (a * h + b * k) \div (h + k) \in Nat
    BY <1>1, <2>1, WeightedIs
  <2>3. m = (a * h + b * k) \div (h + k)
    BY <2>2 DEF Weighted, Quotient
  <2>4. m \in Nat /\ 1 <= m /\ m <= MaxPulse
    BY <2>2, <2>3
  <2>5. m \in Lengths
    BY <1>1, <2>4, LengthsAre
  <2> QED BY <1>2, <2>4, <2>5
<1>3. CASE a < 0
  <2> DEFINE c == -a
             g == -b
  <2>1. c >= 1 /\ g >= 1 /\ c \in Nat /\ g \in Nat /\ c <= MaxPulse /\ g <= MaxPulse
    BY <1>1, <1>3 DEF Opposite
  <2>2. a * h + b * k = -(c * h + g * k)
    BY <1>1
  <2> HIDE DEF c, g
  <2>3. /\ c * h + g * k \in Nat /\ 1 <= (c * h + g * k) \div (h + k)
        /\ (c * h + g * k) \div (h + k) <= MaxPulse /\ (c * h + g * k) \div (h + k) \in Nat
        /\ c * h + g * k >= 1
    <3>1. /\ c * h + g * k \in Nat /\ 1 <= (c * h + g * k) \div (h + k)
          /\ (c * h + g * k) \div (h + k) <= MaxPulse /\ (c * h + g * k) \div (h + k) \in Nat
      BY <1>1, <2>1, WeightedIs
    <3>2. c * h = h + (c - 1) * h /\ g * k = k + (g - 1) * k
      BY <2>1
    <3>3. (c - 1) * h \in Nat /\ (g - 1) * k \in Nat
      BY <2>1
    <3> QED BY <3>1, <3>2, <3>3
  <2>4. m = -((c * h + g * k) \div (h + k))
    <3> DEFINE x == c * h + g * k
    <3>1. x \in Nat /\ x >= 1 /\ a * h + b * k = -x
      BY <2>2, <2>3
    <3> HIDE DEF x
    <3>2. -x < 0 /\ -(-x) = x
      BY <3>1
    <3>3. m = -(x \div (h + k))
      BY <3>1, <3>2 DEF Weighted, Quotient
    <3> QED BY <3>3 DEF x
  <2>5. m \in Int /\ -MaxPulse <= m /\ m <= -1
    BY <1>1, <2>3, <2>4
  <2>6. m \in Lengths
    BY <1>1, <2>5, LengthsAre
  <2> QED BY <1>3, <2>5, <2>6
<1> QED BY <1>1, <1>2, <1>3

\* What merging leaves: the same pulses, with other numbers for their patterns.
Compressed(e, f) ==
  /\ Sound(f) /\ Exact(f) /\ Count(f) = Count(e)
  /\ SameBut(e, f, {"message", "pattern", "histo"})

\* A pattern that is in the histogram has a length.
LEMMA UsedHasLength ==
  ASSUME NEW e, Sound(e), Exact(e), heard \in Seq(Pulses), NEW p \in Patterns, e.histo[p] # 0
  PROVE  /\ e.pattern[p] \in Lengths /\ e.pattern[p] # 0 /\ p < e.patternLen
         /\ e.histo[p] \in Nat /\ e.histo[p] >= 1 /\ Count(e) # 0
         /\ \E i \in 0..(Count(e) - 1) : At(e, i) = p
<1>1. Count(e) \in Nat /\ Count(e) <= 254
  BY Numbers
<1>2. e.histo[p] = Cardinality(Places(e, 0, Count(e), p))
  BY DEF Exact
<1>3. e.histo[p] \in Nat /\ Places(e, 0, Count(e), p) # {}
  <2>1. /\ Cardinality(Places(e, 0, Count(e), p)) \in Nat
        /\ Cardinality(Places(e, 0, Count(e), p)) = 0 <=> Places(e, 0, Count(e), p) = {}
    <3>1. 0 \in Nat
      OBVIOUS
    <3> QED BY <1>1, <3>1, PlacesAre
  <2> QED BY <1>2, <2>1
<1>4. PICK i \in 0..(Count(e) - 1) : At(e, i) = p
  BY <1>3 DEF Places
<1>5. i \in Nat /\ i < Count(e)
  BY <1>1, <1>4
<1>6. e.pattern[p] \in Lengths /\ e.pattern[p] # 0 /\ p < e.patternLen
  BY <1>4, <1>5, PlaceFits
<1>7. Count(e) # 0
  BY <1>1, <1>5
<1>8. e.histo[p] >= 1
  BY <1>3
<1> QED BY <1>3, <1>4, <1>6, <1>7, <1>8

\* A pattern is merged into another one, or not.
LEMMA MergeIs ==
  ASSUME NEW e, Sound(e), Exact(e), heard \in Seq(Pulses), NEW i \in Patterns, NEW j \in Patterns,
         NEW f, f = Merge(e, i, j)
  PROVE  Compressed(e, f)
<1> DEFINE a == e.pattern[i]
           b == e.pattern[j]
           sum == e.histo[i] + e.histo[j]
           m == Weighted(e.pattern[i], e.histo[i], e.pattern[j], e.histo[j])
           t == Message!ChangeValues(e.message, j, i)
<1>1. DOMAIN e = Fields
  BY DEF Sound, Typed
<1>2. CASE ~ Mergeable(e, i, j)
  <2>1. f = e
    BY <1>2 DEF Merge
  <2> QED BY <1>1, <2>1 DEF Compressed, SameBut
<1>3. CASE Mergeable(e, i, j)
  <2>1. f = [e EXCEPT !.message = t, !.pattern = [e.pattern EXCEPT ![i] = m, ![j] = 0],
                      !.histo = [e.histo EXCEPT ![i] = sum, ![j] = 0]]
    <3>1. f = Merged(e, i, j)
      BY <1>3 DEF Merge
    <3> QED BY <3>1, Zenon DEF Merged
  <2>2. i \in Int /\ j \in Int /\ i # j /\ i < j /\ i < e.patternLen /\ j < e.patternLen
        /\ i \in 0..15 /\ j \in 0..15
    <3>1. e.patternLen \in Nat
      BY Numbers
    <3> QED BY <1>3, <3>1 DEF Mergeable
  <2>3. /\ a \in Lengths /\ b \in Lengths /\ a # 0 /\ b # 0 /\ ~ Opposite(a, b)
        /\ e.histo[i] \in Nat /\ e.histo[j] \in Nat /\ e.histo[i] >= 1 /\ e.histo[j] >= 1
    BY <1>3, UsedHasLength DEF Mergeable
  <2>4. m \in Lengths /\ m # 0 /\ (m < 0 <=> a < 0)
    <3> DEFINE h == e.histo[i]
               k == e.histo[j]
    <3> HIDE DEF a, b, h, k
    <3>1. a \in Lengths /\ b \in Lengths /\ a # 0 /\ b # 0 /\ ~ Opposite(a, b)
          /\ h \in Nat /\ k \in Nat /\ h >= 1 /\ k >= 1
      BY <2>3 DEF h, k
    <3>2. m = Weighted(a, h, b, k)
      BY DEF a, b, h, k
    <3> QED BY <3>1, <3>2, MergedIs
  <2>5. Count(e) \in Nat /\ Count(e) <= 254
    BY Numbers
  <2>6. /\ Cardinality(Places(e, 0, Count(e), i) \union Places(e, 0, Count(e), j)) = sum
        /\ sum \in Nat /\ sum <= 254
    <3>1. sum = Cardinality(Places(e, 0, Count(e), i)) + Cardinality(Places(e, 0, Count(e), j))
      BY DEF Exact
    <3> HIDE DEF sum
    <3>2. /\ Cardinality(Places(e, 0, Count(e), i) \union Places(e, 0, Count(e), j)) =
               Cardinality(Places(e, 0, Count(e), i)) + Cardinality(Places(e, 0, Count(e), j))
          /\ Cardinality(Places(e, 0, Count(e), i) \union Places(e, 0, Count(e), j)) \in Nat
          /\ Cardinality(Places(e, 0, Count(e), i) \union Places(e, 0, Count(e), j)) <= 254
      BY <2>2, <2>5, DisjointPlaces
    <3> QED BY <3>1, <3>2
  <2>7. t \in Buffer!Stores /\ Buffer!Clean(t) /\ t.count = Count(e)
        /\ \A x \in 0..(Count(e) - 1) : t.cell[x] = IF At(e, x) = j THEN i ELSE At(e, x)
    <3> DEFINE s == e.message
    <3>1. s \in Buffer!Stores /\ Buffer!Clean(s)
      BY FieldTypes DEF Sound
    <3>2. t = Message!ChangeValues(s, j, i) /\ i \in 0..15 /\ j \in 0..15
      BY <2>2
    <3> HIDE DEF s, t
    <3>3. t \in Buffer!Stores /\ Buffer!Clean(t) /\ t.count = s.count /\ Changed(s, j, i, t)
      BY <3>1, <3>2, ChangeStore
    <3> QED BY <3>3 DEF Changed, Count, At, s
  <2>8. e.pattern \in [Patterns -> Lengths] /\ e.histo \in [Patterns -> Tallies]
    BY FieldTypes DEF Sound
  <2> HIDE DEF t, m, sum
  <2>9. SameBut(e, f, {"message", "pattern", "histo"})
    BY <1>1, <2>1, SortedAre DEF SameBut, Fields
  <2>10. /\ f.message = t
         /\ f.pattern = [e.pattern EXCEPT ![i] = m, ![j] = 0]
         /\ f.histo = [e.histo EXCEPT ![i] = sum, ![j] = 0]
    BY <1>1, <2>1, SortedAre DEF Fields
  <2>11. \A p \in Patterns : f.pattern[p] = IF p = j THEN 0 ELSE IF p = i THEN m ELSE e.pattern[p]
    BY <2>8, <2>10
  <2>12. \A p \in Patterns : f.histo[p] = IF p = j THEN 0 ELSE IF p = i THEN sum ELSE e.histo[p]
    BY <2>8, <2>10
  <2>13. f.patternLen = e.patternLen /\ f.patternPos = e.patternPos /\ f.state = e.state
         /\ f.mcDetected = e.mcDetected
    BY <2>9, SortedAre DEF SameBut, Fields
  <2>14. Count(f) = Count(e) /\ Gone(f, heard) = Gone(e, heard)
    BY <2>7, <2>10 DEF Count, Gone
  <2>15. \A x \in 0..(Count(e) - 1) : At(f, x) = IF At(e, x) = j THEN i ELSE At(e, x)
    BY <2>7, <2>10 DEF At
  <2>16. Typed(f)
    <3>1. f.pattern \in [Patterns -> Lengths]
      <4>1. 0 \in Lengths
        BY LengthsAre, MaxPulseIs
      <4>2. i \in Patterns /\ j \in Patterns
        BY <1>3 DEF Mergeable
      <4>3. e.pattern \in [Patterns -> Lengths] /\ m \in Lengths
        BY <2>4, <2>8
      <4>4. f.pattern = [e.pattern EXCEPT ![i] = m, ![j] = 0]
        BY <2>10
      <4> QED BY <4>1, <4>2, <4>3, <4>4
    <3>2. f.histo \in [Patterns -> Tallies]
      <4>1. 0 \in Tallies /\ sum \in Tallies
        BY <2>6, TallyIs
      <4>2. i \in Patterns /\ j \in Patterns
        BY <1>3 DEF Mergeable
      <4>3. e.histo \in [Patterns -> Tallies]
        BY <2>8
      <4>4. f.histo = [e.histo EXCEPT ![i] = sum, ![j] = 0]
        BY <2>10
      <4> QED BY <4>1, <4>2, <4>3, <4>4
    <3>3. {"message", "pattern", "histo"} \in SUBSET Sorted
      BY SortedAre
    <3>4. \A x \in {"message", "pattern", "histo"} : f[x] \in Sorts[x]
      <4>1. f["message"] \in Sorts["message"] /\ f["pattern"] \in Sorts["pattern"]
            /\ f["histo"] \in Sorts["histo"]
        BY <2>7, <2>10, <3>1, <3>2, SortsAre
      <4> QED BY <4>1
    <3> QED BY <2>9, <3>3, <3>4, StaysTyped DEF Sound
  <2>17. IsRecent(f, heard)
    <3> DEFINE g == Gone(e, heard)
    <3>1. /\ Len(heard) \in Nat /\ g \in Nat /\ g = Len(heard) - Count(e)
      BY Numbers
    <3>2. ASSUME NEW n \in (g + 1)..Len(heard) PROVE Fits(f, ValueOf(f, heard, n), heard[n])
      <4>1. n \in Int /\ g + 1 <= n /\ n <= Len(heard)
        BY <3>1
      <4>2. n - g - 1 \in Nat /\ n - g - 1 \in 0..(Count(e) - 1) /\ n - g - 1 < Count(e)
        BY <2>5, <3>1, <4>1
      <4> DEFINE v == At(e, n - g - 1)
                 w == At(f, n - g - 1)
      <4>3. /\ v \in Patterns /\ v < e.patternLen /\ e.pattern[v] \in Lengths /\ e.pattern[v] # 0
            /\ ~ Opposite(e.pattern[v], heard[n])
        <5>1. g + (n - g - 1) + 1 = n
          BY <3>1, <4>1
        <5> QED BY <4>2, <5>1, PlaceFits
      <4>4. w = IF v = j THEN i ELSE v
        BY <2>15, <4>2
      <4>5. ValueOf(f, heard, n) = w
        BY <2>14 DEF ValueOf
      <4> HIDE DEF v, w
      <4>6. CASE v \in {i, j}
        <5>1. w = i
          BY <4>4, <4>6
        <5>2. f.pattern[w] = m
          BY <2>2, <2>11, <5>1
        <5>3. ~ Opposite(a, heard[n])
          BY <2>3, <4>3, <4>6 DEF Opposite
        <5>4. ~ Opposite(m, heard[n])
          BY <2>4, <5>3 DEF Opposite
        <5> QED BY <2>2, <2>4, <2>13, <4>5, <5>1, <5>2, <5>4 DEF Fits
      <4>7. CASE v \notin {i, j}
        <5>1. w = v /\ f.pattern[w] = e.pattern[v]
          BY <2>11, <4>3, <4>4, <4>7
        <5> QED BY <2>13, <4>3, <4>5, <5>1 DEF Fits
      <4> QED BY <4>6, <4>7
    <3>3. ASSUME NEW n \in (g + 2)..Len(heard) PROVE Opposite(heard[n], heard[n - 1])
      BY <3>3 DEF Sound, IsRecent
    <3>4. g >= 0
      BY <3>1
    <3> QED BY <2>14, <3>2, <3>3, <3>4 DEF IsRecent
  <2>18. Exact(f)
    <3>1. ASSUME NEW p \in Patterns PROVE f.histo[p] = Cardinality(Places(f, 0, Count(f), p))
      <4>1. CASE p = j
        <5>1. Places(f, 0, Count(f), p) = {}
          BY <2>2, <2>14, <2>15, <4>1 DEF Places
        <5> QED BY <2>12, <4>1, <5>1, FS_EmptySet
      <4>2. CASE p = i
        <5>1. Places(f, 0, Count(f), p) = Places(e, 0, Count(e), i) \union Places(e, 0, Count(e), j)
          BY <2>2, <2>14, <2>15, <4>2 DEF Places
        <5>2. f.histo[p] = sum
          BY <2>2, <2>12, <4>2
        <5> QED BY <2>6, <5>1, <5>2
      <4>3. CASE p # i /\ p # j
        <5>1. Places(f, 0, Count(f), p) = Places(e, 0, Count(e), p)
          BY <2>14, <2>15, <4>3 DEF Places
        <5> QED BY <2>12, <4>3, <5>1 DEF Exact
      <4> QED BY <4>1, <4>2, <4>3
    <3> QED BY <3>1 DEF Exact
  <2>19. Sound(f)
    BY <2>7, <2>10, <2>13, <2>16, <2>17 DEF Sound, Placed, Continued
  <2> QED BY <2>9, <2>14, <2>18, <2>19 DEF Compressed
<1> QED BY <1>2, <1>3

\* After others were merged.
LEMMA MergeMore ==
  ASSUME NEW e, NEW f, Compressed(e, f), heard \in Seq(Pulses), NEW i \in Patterns, NEW j \in Patterns
  PROVE  Compressed(e, Merge(f, i, j))
<1> DEFINE g == Merge(f, i, j)
<1>1. Compressed(f, g)
  BY MergeIs DEF Compressed
<1> HIDE DEF g
<1>2. SameBut(e, g, {"message", "pattern", "histo"})
  BY <1>1 DEF Compressed, SameBut
<1>3. Compressed(e, g)
  BY <1>1, <1>2 DEF Compressed
<1> QED BY <1>3 DEF g

\* All the later ones are.
LEMMA MergeIntoIs ==
  ASSUME NEW e, NEW f, Compressed(e, f), heard \in Seq(Pulses), NEW i \in Patterns
  PROVE  Compressed(e, MergeInto(f, i))
<1> DEFINE g1 == Merge(f, i, 1)
           g2 == Merge(g1, i, 2)
           g3 == Merge(g2, i, 3)
           g4 == Merge(g3, i, 4)
           g5 == Merge(g4, i, 5)
           g6 == Merge(g5, i, 6)
<1>1. {1, 2, 3, 4, 5, 6, 7} \subseteq Patterns
  OBVIOUS
<1>2. MergeInto(f, i) = Merge(g6, i, 7)
  BY DEF MergeInto
<1> HIDE DEF g1, g2, g3, g4, g5, g6
<1>3. Compressed(e, g1)
  BY <1>1, MergeMore DEF g1
<1>4. Compressed(e, g2)
  BY <1>1, <1>3, MergeMore DEF g2
<1>5. Compressed(e, g3)
  BY <1>1, <1>4, MergeMore DEF g3
<1>6. Compressed(e, g4)
  BY <1>1, <1>5, MergeMore DEF g4
<1>7. Compressed(e, g5)
  BY <1>1, <1>6, MergeMore DEF g5
<1>8. Compressed(e, g6)
  BY <1>1, <1>7, MergeMore DEF g6
<1>9. Compressed(e, Merge(g6, i, 7))
  BY <1>1, <1>8, MergeMore
<1> QED BY <1>2, <1>9

\* Into each in turn.
LEMMA MergeAllIs ==
  ASSUME NEW e, Sound(e), Exact(e), heard \in Seq(Pulses)
  PROVE  Compressed(e, MergeAll(e))
<1> DEFINE g0 == MergeInto(e, 0)
           g1 == MergeInto(g0, 1)
           g2 == MergeInto(g1, 2)
           g3 == MergeInto(g2, 3)
           g4 == MergeInto(g3, 4)
           g5 == MergeInto(g4, 5)
<1>1. {0, 1, 2, 3, 4, 5, 6} \subseteq Patterns
  OBVIOUS
<1>2. MergeAll(e) = MergeInto(g5, 6)
  BY DEF MergeAll
<1> HIDE DEF g0, g1, g2, g3, g4, g5
<1>3. Compressed(e, e)
  BY DEF Compressed, SameBut, Sound, Typed
<1>4. Compressed(e, g0)
  BY <1>1, <1>3, MergeIntoIs DEF g0
<1>5. Compressed(e, g1)
  BY <1>1, <1>4, MergeIntoIs DEF g1
<1>6. Compressed(e, g2)
  BY <1>1, <1>5, MergeIntoIs DEF g2
<1>7. Compressed(e, g3)
  BY <1>1, <1>6, MergeIntoIs DEF g3
<1>8. Compressed(e, g4)
  BY <1>1, <1>7, MergeIntoIs DEF g4
<1>9. Compressed(e, g5)
  BY <1>1, <1>8, MergeIntoIs DEF g5
<1>10. Compressed(e, MergeInto(g5, 6))
  BY <1>1, <1>9, MergeIntoIs
<1> QED BY <1>2, <1>10

\* calcHisto of the whole message.
LEMMA WholeHistoIs ==
  ASSUME NEW e, Sound(e), heard \in Seq(Pulses), NEW f, f = CalcHisto(e, 0, 0)
  PROVE  /\ Sound(f) /\ SameBut(e, f, {"histo"}) /\ f.message = e.message /\ Count(f) = Count(e)
         /\ Count(e) # 0 => Exact(f)
<1>1. /\ Sound(f) /\ SameBut(e, f, {"histo"})
      /\ Count(e) # 0 => f.histo = [p \in Patterns |->
                                      Cardinality(Places(e, 0, IF 0 = 0 THEN Count(e) ELSE 0, p))]
  <2>1. 0 \in Nat /\ 0 <= 254
    OBVIOUS
  <2> QED BY <2>1, HistoIs
<1>2. f.message = e.message
  BY <1>1, SortedAre DEF SameBut, Fields
<1>3. Count(f) = Count(e) /\ \A p : Places(f, 0, Count(e), p) = Places(e, 0, Count(e), p)
  BY <1>2 DEF Count, Places, At
<1>4. ASSUME Count(e) # 0 PROVE Exact(f)
  <2>1. f.histo = [p \in Patterns |-> Cardinality(Places(e, 0, Count(e), p))]
    BY <1>1, <1>4
  <2> QED BY <1>3, <2>1 DEF Exact
<1> QED BY <1>1, <1>2, <1>3, <1>4

\* compress_pattern keeps all but the numbers and lengths of the patterns.
LEMMA CompressIs ==
  ASSUME NEW e, Sound(e), heard \in Seq(Pulses), Count(e) # 0
  PROVE  Compressed(e, CompressPattern(e))
<1> DEFINE h == CalcHisto(e, 0, 0)
           f == MergeAll(h)
<1>1. Sound(h) /\ SameBut(e, h, {"histo"}) /\ Count(h) = Count(e) /\ Exact(h)
  BY WholeHistoIs
<1> HIDE DEF h
<1>2. Compressed(h, f)
  BY <1>1, MergeAllIs
<1>3. CompressPattern(e) = f
  BY DEF CompressPattern, h
<1> HIDE DEF f
<1>4. SameBut(e, f, {"message", "pattern", "histo"})
  BY <1>1, <1>2 DEF Compressed, SameBut
<1>5. Compressed(e, f)
  BY <1>1, <1>2, <1>4 DEF Compressed
<1> QED BY <1>3, <1>5

-----------------------------------------------------------------------------
(* Clock and sync.                                                          *)

\* The clock is a high pulse of the message.
ClockIs(e) ==
  /\ e.clock \in Patterns /\ e.clock < e.patternLen /\ e.pattern[e.clock] > 0
  /\ \E i \in 0..(Count(e) - 1) : At(e, i) = e.clock

\* The message begins with the clock and a low sync, early enough.
SyncIs(e) ==
  /\ e.sync \in Patterns /\ e.sync < e.patternLen /\ e.pattern[e.sync] < 0
  /\ e.mstart \in Nat /\ e.mstart <= 124 /\ e.mstart + MinMessageLen < Count(e)
  /\ At(e, e.mstart) = e.clock /\ At(e, e.mstart + 1) = e.sync

\* getClock.
LEMMA GetClockIs ==
  ASSUME NEW e, Sound(e), Exact(e), heard \in Seq(Pulses), ~ e.mcDetected, NEW f, f = GetClock(e)
  PROVE  /\ Sound(f) /\ SameBut(e, f, {"clock", "state"})
         /\ (f.state = "clockfound" /\ ClockIs(f)) \/ f.state = "searching"
<1> DEFINE often == {p \in 0..(e.patternLen - 1) :
                       e.pattern[p] >= 0 /\ 100 * e.histo[p] > 13 * Count(e)}
           shortest == {p \in often : \A q \in often : e.pattern[p] <= e.pattern[q]}
           c == IF often = {} THEN None ELSE Min(shortest)
           s == IF often = {} THEN "searching" ELSE "clockfound"
<1>1. f = [e EXCEPT !.clock = c, !.state = s]
  BY DEF GetClock
<1>2. DOMAIN e = Fields
  BY DEF Sound, Typed
<1>3. Count(e) \in Nat /\ e.patternLen \in Nat /\ e.patternLen <= 8
  BY Numbers
<1>4. \A p \in often : p \in Patterns
  <2>1. \A p \in often : p \in 0..(e.patternLen - 1)
    OBVIOUS
  <2> HIDE DEF often
  <2> QED BY <1>3, <2>1, PatternIs
<1>5. ASSUME often # {}
      PROVE  /\ c \in Patterns /\ c < e.patternLen /\ e.pattern[c] > 0
             /\ \E i \in 0..(Count(e) - 1) : At(e, i) = c
  <2>1. ASSUME NEW p \in often
        PROVE  /\ p \in Patterns /\ p < e.patternLen /\ e.pattern[p] \in Nat /\ e.pattern[p] > 0
               /\ \E i \in 0..(Count(e) - 1) : At(e, i) = p
    <3>1. p \in Patterns /\ e.pattern[p] >= 0 /\ 100 * e.histo[p] > 13 * Count(e)
      BY <1>3
    <3>2. e.histo[p] # 0
      BY <1>3, <3>1
    <3>3. /\ e.pattern[p] \in Lengths /\ e.pattern[p] # 0 /\ p < e.patternLen
          /\ \E i \in 0..(Count(e) - 1) : At(e, i) = p
      BY <3>1, <3>2, UsedHasLength
    <3>4. e.pattern[p] \in Int
      BY <3>3, LengthsAre
    <3> QED BY <3>1, <3>3, <3>4
  <2> DEFINE L == {e.pattern[p] : p \in often}
  <2>2. L \in SUBSET Nat /\ L # {}
    BY <1>5, <2>1
  <2>3. PICK x \in L : \A y \in L : x <= y
    BY <2>2, HasSmallest
  <2>4. PICK p \in often : x = e.pattern[p]
    BY <2>3
  <2>5. p \in shortest
    BY <2>3, <2>4
  <2>6. shortest \in SUBSET Nat /\ shortest # {}
    BY <1>4, <2>5
  <2>7. c \in shortest
    BY <1>5, <2>6, MinIs
  <2>8. c \in often
    BY <2>7
  <2> HIDE DEF c, often
  <2> QED BY <2>1, <2>8
<1> HIDE DEF often, shortest, c, s
<1>6. c \in MaybePattern /\ s \in {"searching", "clockfound"}
  BY <1>5, NoneIsNot DEF MaybePattern, c, s
<1>7. SameBut(e, f, {"clock", "state"}) /\ f.clock = c /\ f.state = s
  BY <1>1, <1>2, SortedAre DEF SameBut, Fields
<1>8. /\ f.mcDetected = e.mcDetected /\ f.message = e.message /\ f.pattern = e.pattern
      /\ f.patternLen = e.patternLen
  BY <1>7, SortedAre DEF SameBut, Fields
<1>9. Sound(f)
  <2>1. {"clock", "state"} \in SUBSET Sorted
    BY SortedAre
  <2>2. \A x \in {"clock", "state"} : f[x] \in Sorts[x]
    <3>1. f["clock"] \in Sorts["clock"] /\ f["state"] \in Sorts["state"]
      BY <1>6, <1>7, SortsAre DEF States
    <3> QED BY <3>1
  <2>3. Continued(f)
    BY <1>8 DEF Continued
  <2>4. {"clock", "state"} \intersect {"message", "pattern", "patternLen", "patternPos"} = {}
    OBVIOUS
  <2> QED BY <1>7, <2>1, <2>2, <2>3, <2>4, StaysSound
<1>10. CASE often = {}
  BY <1>7, <1>9, <1>10 DEF s
<1>11. CASE often # {}
  <2>1. f.state = "clockfound"
    BY <1>7, <1>11 DEF s
  <2>2. ClockIs(f)
    BY <1>5, <1>7, <1>8, <1>11 DEF ClockIs, Count, At
  <2> QED BY <1>7, <1>9, <2>1, <2>2
<1> QED BY <1>10, <1>11

\* getSync.
LEMMA GetSyncIs ==
  ASSUME NEW e, Sound(e), heard \in Seq(Pulses), e.state = "clockfound", ClockIs(e),
         Count(e) >= MinMessageLen, NEW f, f = GetSync(e)
  PROVE  /\ Sound(f) /\ SameBut(e, f, {"sync", "state", "mstart"}) /\ ClockIs(f)
         /\ (f.state = "syncfound" /\ SyncIs(f)) \/ f.state = "clockfound"
<1> DEFINE reach == Min({125, Count(e) - MinMessageLen})
           follows(p) == {c \in 0..(reach - 1) : At(e, c) = e.clock /\ At(e, c + 1) = p}
           length(p) == Abs(e.pattern[p])
           syncs == {p \in 0..(e.patternLen - 1) :
                       /\ e.pattern[p] < 0 /\ length(p) < SyncMaxMicros
                       /\ length(p) \div e.pattern[e.clock] <= SyncMaxFact
                       /\ length(p) > SyncMinFact * e.pattern[e.clock]
                       /\ 100 * e.histo[p] < 8 * Count(e) /\ e.histo[p] > 1
                       /\ follows(p) # {}}
           s == Max(syncs)
           m == Min(follows(s))
<1>1. f = IF syncs = {} THEN [e EXCEPT !.sync = None]
          ELSE [e EXCEPT !.sync = s, !.state = "syncfound", !.mstart = m]
  BY DEF GetSync
<1>2. DOMAIN e = Fields
  BY DEF Sound, Typed
<1>3. /\ Count(e) \in Nat /\ Count(e) <= 254 /\ Count(e) >= 40
      /\ e.patternLen \in Nat /\ e.patternLen <= 8
  BY Numbers
<1>4. reach \in Nat /\ reach <= 125 /\ reach <= Count(e) - 40
  <2>1. Count(e) - 40 \in Nat
    BY <1>3
  <2> QED BY <2>1, MinOfTwo
<1> HIDE DEF reach
<1>5. ASSUME syncs # {}
      PROVE  /\ s \in Patterns /\ s < e.patternLen /\ e.pattern[s] < 0
             /\ m \in Nat /\ m <= 124 /\ m + 40 < Count(e)
             /\ At(e, m) = e.clock /\ At(e, m + 1) = s
  <2>1. syncs \in SUBSET Int /\ \A p \in syncs : p <= 8
    BY <1>3
  <2>2. s \in syncs
    <3>1. 8 \in Int
      OBVIOUS
    <3> QED BY <1>5, <2>1, <3>1, MaxIs
  <2>3. s \in Patterns /\ s < e.patternLen /\ e.pattern[s] < 0 /\ follows(s) # {}
    <3>1. s \in 0..(e.patternLen - 1) /\ e.pattern[s] < 0 /\ follows(s) # {}
      BY <2>2
    <3> HIDE DEF s
    <3> QED BY <1>3, <3>1, PatternIs
  <2> HIDE DEF s
  <2>4. follows(s) \in SUBSET Nat
    BY <1>4
  <2>5. m \in follows(s)
    BY <2>3, <2>4, MinIs
  <2>6. m \in 0..(reach - 1) /\ At(e, m) = e.clock /\ At(e, m + 1) = s
    BY <2>5
  <2> HIDE DEF m
  <2>7. m \in Nat /\ m <= 124 /\ m + 40 < Count(e)
    BY <1>3, <1>4, <2>6
  <2> QED BY <2>3, <2>6, <2>7
<1> HIDE DEF syncs, s, m
<1>6. CASE syncs = {}
  <2>1. f = [e EXCEPT !.sync = None]
    BY <1>1, <1>6
  <2>2. SameBut(e, f, {"sync"}) /\ f.sync = None
    BY <1>2, <2>1, SortedAre DEF SameBut, Fields
  <2>3. /\ f.mcDetected = e.mcDetected /\ f.message = e.message /\ f.pattern = e.pattern
        /\ f.patternLen = e.patternLen /\ f.state = e.state /\ f.clock = e.clock
    BY <2>2, SortedAre DEF SameBut, Fields
  <2>4. Sound(f)
    <3>1. {"sync"} \in SUBSET Sorted /\ \A x \in {"sync"} : f[x] \in Sorts[x]
      BY <2>2, SortedAre, SortsAre, NoneIsNot
    <3>2. Continued(f)
      BY <2>3 DEF Sound, Continued
    <3>3. {"sync"} \intersect {"message", "pattern", "patternLen", "patternPos"} = {}
      OBVIOUS
    <3> QED BY <2>2, <3>1, <3>2, <3>3, StaysSound
  <2>5. ClockIs(f)
    BY <2>3 DEF ClockIs, Count, At
  <2>6. SameBut(e, f, {"sync", "state", "mstart"})
    BY <2>2 DEF SameBut
  <2> QED BY <2>3, <2>4, <2>5, <2>6
<1>7. CASE syncs # {}
  <2>1. f = [e EXCEPT !.sync = s, !.state = "syncfound", !.mstart = m]
    BY <1>1, <1>7
  <2>2. SameBut(e, f, {"sync", "state", "mstart"}) /\ f.sync = s /\ f.state = "syncfound" /\ f.mstart = m
    BY <1>2, <2>1, SortedAre DEF SameBut, Fields
  <2>3. /\ f.mcDetected = e.mcDetected /\ f.message = e.message /\ f.pattern = e.pattern
        /\ f.patternLen = e.patternLen /\ f.clock = e.clock
    BY <2>2, SortedAre DEF SameBut, Fields
  <2>4. Sound(f)
    <3>1. {"sync", "state", "mstart"} \in SUBSET Sorted
      BY SortedAre
    <3>2. \A x \in {"sync", "state", "mstart"} : f[x] \in Sorts[x]
      <4>1. m \in 0..254 /\ s \in MaybePattern
        <5>1. m \in Nat /\ m <= 124 /\ s \in Patterns
          BY <1>5, <1>7
        <5>2. m \in 0..254
          BY <5>1
        <5>3. s \in MaybePattern
          BY <5>1 DEF MaybePattern
        <5> QED BY <5>2, <5>3
      <4>2. f["sync"] \in Sorts["sync"] /\ f["state"] \in Sorts["state"] /\ f["mstart"] \in Sorts["mstart"]
        BY <2>2, <4>1, SortsAre DEF States
      <4> QED BY <4>2
    <3>3. Continued(f)
      BY <2>3 DEF Sound, Continued
    <3>4. {"sync", "state", "mstart"} \intersect {"message", "pattern", "patternLen", "patternPos"} = {}
      OBVIOUS
    <3> QED BY <2>2, <3>1, <3>2, <3>3, <3>4, StaysSound
  <2>5. ClockIs(f)
    BY <2>3 DEF ClockIs, Count, At
  <2>6. SyncIs(f)
    BY <1>5, <1>7, <2>2, <2>3 DEF SyncIs, Count, At
  <2> QED BY <2>2, <2>4, <2>5, <2>6
<1> QED BY <1>6, <1>7

-----------------------------------------------------------------------------
(* Reports.                                                                 *)

Reported(e) == {reports[j] : j \in 1..Len(reports)} \union {e.out[j] : j \in 1..Len(e.out)}

\* Nothing that is in the buffer was reported.
Fresh(e) == \A q \in Reported(e) : Precedes(q, Gone(e, heard))

\* Nothing was reported that was not heard.
Known(e) == \A q \in Reported(e) : Precedes(q, Len(heard))

\* What this pulse made the detector report.
Right(e) ==
  \A k \in 1..Len(e.out) :
    e.out[k].kind # "MC" =>
      ReportIsRecent(e.out[k], heard,
                     {reports[j] : j \in 1..Len(reports)} \union {e.out[j] : j \in 1..(k - 1)})

\* It is only about what it reported.
LEMMA RightSame == ASSUME NEW e, NEW f, f.out = e.out, Right(e) PROVE Right(f)
BY DEF Right

\* A report that is added.
LEMMA AddReport ==
  ASSUME NEW e, NEW f, NEW r, IsSequence(e.out), f.out = Append(e.out, r), Right(e),
         r.kind # "MC" => ReportIsRecent(r, heard, Reported(e))
  PROVE  IsSequence(f.out) /\ Right(f) /\ Reported(f) = Reported(e) \union {r}
<1>1. PICK S : e.out \in Seq(S)
  BY DEF IsSequence
<1> DEFINE n == Len(e.out)
<1>2. e.out \in Seq(S \union {r}) /\ n \in Nat
  BY <1>1
<1>3. /\ f.out \in Seq(S \union {r}) /\ Len(f.out) = n + 1
      /\ \A k \in 1..(n + 1) : f.out[k] = IF k = n + 1 THEN r ELSE e.out[k]
  BY <1>2
<1> HIDE DEF n
<1>4. \A k \in 1..n : f.out[k] = e.out[k]
  BY <1>2, <1>3
<1>5. f.out[n + 1] = r
  BY <1>2, <1>3
<1>6. {f.out[j] : j \in 1..n} = {e.out[j] : j \in 1..n}
  BY <1>4
<1>7. Reported(f) = Reported(e) \union {r}
  <2>1. {f.out[j] : j \in 1..Len(f.out)} = {f.out[j] : j \in 1..n} \union {r}
    <3>1. 1..(n + 1) = (1..n) \union {n + 1}
      BY <1>2
    <3> QED BY <1>3, <1>5, <3>1
  <2> QED BY <1>6, <2>1 DEF Reported, n
<1>8. ASSUME NEW k \in 1..Len(f.out), f.out[k].kind # "MC"
      PROVE  ReportIsRecent(f.out[k], heard,
               {reports[j] : j \in 1..Len(reports)} \union {f.out[j] : j \in 1..(k - 1)})
  <2>1. k \in Int /\ 1 <= k /\ k <= n + 1
    BY <1>2, <1>3
  <2>2. CASE k = n + 1
    <3>1. f.out[k] = r /\ k - 1 = n
      BY <1>2, <1>5, <2>2
    <3>2. {reports[j] : j \in 1..Len(reports)} \union {f.out[j] : j \in 1..(k - 1)} = Reported(e)
      BY <1>6, <3>1 DEF Reported, n
    <3> QED BY <1>8, <3>1, <3>2
  <2>3. CASE k # n + 1
    <3>1. k \in 1..n /\ \A j \in 1..(k - 1) : j \in 1..n
      BY <1>2, <2>1, <2>3
    <3>2. f.out[k] = e.out[k] /\ {f.out[j] : j \in 1..(k - 1)} = {e.out[j] : j \in 1..(k - 1)}
      BY <1>4, <3>1
    <3>3. ReportIsRecent(e.out[k], heard,
            {reports[j] : j \in 1..Len(reports)} \union {e.out[j] : j \in 1..(k - 1)})
      BY <1>8, <3>1, <3>2 DEF Right, n
    <3> QED BY <3>2, <3>3
  <2> QED BY <2>2, <2>3
<1> QED BY <1>3, <1>7, <1>8 DEF IsSequence, Right

\* What a report is added to.
LEMMA ReportStaysSound ==
  ASSUME NEW e, NEW f, Sound(e), SameBut(e, f, {"success", "truncated", "out"}),
         f.success \in BOOLEAN, f.truncated \in BOOLEAN, IsSequence(f.out)
  PROVE  /\ Sound(f) /\ f.message = e.message /\ Count(f) = Count(e)
         /\ Gone(f, heard) = Gone(e, heard)
<1>1. /\ DOMAIN f = Fields /\ f["mc"] = e["mc"]
      /\ f.message = e.message /\ f.pattern = e.pattern /\ f.patternLen = e.patternLen
      /\ f.patternPos = e.patternPos /\ f.state = e.state /\ f.mcDetected = e.mcDetected
  BY SortedAre DEF SameBut, Fields
<1>2. ASSUME NEW x \in Sorted PROVE f[x] \in Sorts[x]
  <2>1. CASE x \in {"success", "truncated"}
    BY <2>1, SortsAre
  <2>2. CASE x \notin {"success", "truncated"}
    <3>1. x # "out" /\ x \in Fields
      BY <1>2, SortedAre DEF Fields
    <3>2. f[x] = e[x]
      BY <2>2, <3>1 DEF SameBut
    <3> QED BY <1>2, <3>2 DEF Sound, Typed
  <2> QED BY <2>1, <2>2
<1>3. Typed(f)
  BY <1>1, <1>2 DEF Sound, Typed
<1>4. IsRecent(f, heard) /\ Count(f) = Count(e) /\ Gone(f, heard) = Gone(e, heard)
  BY <1>1, SameBuffer DEF Sound
<1> QED BY <1>1, <1>3, <1>4 DEF Sound, Placed, Continued

\* A pattern that was counted is printed with its length.
LEMMA PrintedIs ==
  ASSUME NEW e, Sound(e), heard \in Seq(Pulses), NEW p \in Patterns, p < e.patternLen, e.histo[p] # 0
  PROVE  Printed(e, p) = e.pattern[p]
<1>1. e.patternLen \in Nat
  BY Numbers
<1>2. p \in 0..(e.patternLen - 1)
  BY <1>1
<1> QED BY <1>2 DEF Printed

PulsesOf(e, from, to) == [i \in 1..(to - from + 1) |-> Printed(e, At(e, from + i - 1))]

\* The histogram has the values of a stretch.
Counted(e, from, end) == \A i \in from..(end - 1) : e.histo[At(e, i)] # 0

\* What is reported was heard and is behind all that was reported before.
LEMMA ReportIs ==
  ASSUME NEW e, Sound(e), heard \in Seq(Pulses), Fresh(e), ClockIs(e), e.histo[e.clock] # 0,
         NEW from \in Nat, NEW sure \in Nat, from + sure <= Count(e),
         NEW to \in Nat, to - from + 1 >= MinMessageLen, sure <= to - from + 1,
         Counted(e, from, from + sure),
         NEW r, r.from = Gone(e, heard) + from + 1, r.clock = Printed(e, e.clock),
         r.pulses = PulsesOf(e, from, to), Sure(r) = sure,
         r.kind = "MS" => SyncIs(e) /\ from = e.mstart /\ sure >= 2 /\ r.sync = Printed(e, e.sync)
  PROVE  ReportIsRecent(r, heard, Reported(e)) /\ Ends(r) = Gone(e, heard) + from + sure
<1> DEFINE g == Gone(e, heard)
           n == to - from + 1
<1>1. /\ Count(e) \in Nat /\ Count(e) <= 254 /\ Len(heard) \in Nat /\ g \in Nat
      /\ g = Len(heard) - Count(e) /\ e.patternLen \in Nat /\ e.patternLen <= 8
  BY Numbers
<1>2. n \in Nat /\ n >= 40 /\ sure <= n
  OBVIOUS
<1>3. Len(r.pulses) = n
  BY <1>2 DEF PulsesOf
<1>4. \A i \in 1..n : r.pulses[i] = Printed(e, At(e, from + i - 1))
  BY DEF PulsesOf
<1> HIDE DEF n
<1>5. Ends(r) = g + from + sure
  <2>1. Ends(r) = g + from + 1 + sure - 1
    BY DEF Ends
  <2> HIDE DEF g
  <2> QED BY <1>1, <2>1
<1>6. r.clock > 0 /\ r.clock = e.pattern[e.clock]
  BY PrintedIs DEF ClockIs
<1>7. ASSUME NEW i \in 1..sure
      PROVE  /\ r.pulses[i] = e.pattern[At(e, from + i - 1)]
             /\ r.pulses[i] # 0 /\ ~ Opposite(r.pulses[i], heard[r.from + i - 1])
  <2> DEFINE x == from + i - 1
  <2>1. i \in 1..n /\ x \in Nat /\ x < Count(e) /\ x \in from..(from + sure - 1)
    <3>1. i \in Int /\ 1 <= i /\ i <= sure
      OBVIOUS
    <3>2. i \in 1..n
      BY <1>2, <3>1
    <3>3. x \in Nat /\ x < Count(e)
      BY <1>1, <3>1
    <3>4. x \in from..(from + sure - 1)
      BY <3>1
    <3> QED BY <3>2, <3>3, <3>4
  <2>2. g + x + 1 = r.from + i - 1
    BY <1>1, <2>1
  <2> HIDE DEF x
  <2>3. /\ At(e, x) \in Patterns /\ At(e, x) < e.patternLen /\ e.pattern[At(e, x)] # 0
        /\ ~ Opposite(e.pattern[At(e, x)], heard[g + x + 1])
    BY <2>1, PlaceFits
  <2>4. e.histo[At(e, x)] # 0
    BY <2>1 DEF Counted
  <2>5. Printed(e, At(e, x)) = e.pattern[At(e, x)]
    BY <2>3, <2>4, PrintedIs
  <2>6. r.pulses[i] = Printed(e, At(e, x))
    BY <1>4, <2>1 DEF x
  <2> QED BY <2>2, <2>3, <2>5, <2>6 DEF x
<1>8. ASSUME r.kind = "MS" PROVE r.pulses[1] = r.clock /\ r.pulses[2] = r.sync /\ r.sync < 0
  <2>1. 1 \in 1..sure /\ 2 \in 1..sure /\ from + 1 - 1 = e.mstart /\ from + 2 - 1 = e.mstart + 1
        /\ from + 1 \in from..(from + sure - 1)
    BY <1>8
  <2>2. At(e, from + 1 - 1) = e.clock /\ At(e, from + 2 - 1) = e.sync
    BY <1>8, <2>1 DEF SyncIs
  <2>3. r.pulses[1] = e.pattern[e.clock] /\ r.pulses[2] = e.pattern[e.sync]
    BY <1>7, <2>1, <2>2
  <2>4. e.histo[e.sync] # 0
    BY <1>8, <2>1, <2>2 DEF Counted
  <2>5. Printed(e, e.sync) = e.pattern[e.sync] /\ e.pattern[e.sync] < 0
    BY <1>8, <2>4, PrintedIs DEF SyncIs
  <2> QED BY <1>6, <1>8, <2>3, <2>5
<1>9. ASSUME NEW q \in Reported(e), q.kind # "MC" PROVE Ends(q) < r.from
  <2>1. Ends(q) \in Int /\ Ends(q) <= g
    BY <1>9 DEF Fresh, Precedes
  <2>2. r.from = g + from + 1
    OBVIOUS
  <2> HIDE DEF g
  <2>3. g \in Int /\ from \in Int /\ 0 <= from
    BY <1>1
  <2> QED BY <2>1, <2>2, <2>3
<1>10. r.from > 0 /\ Ends(r) <= Len(heard)
  <2>1. r.from = g + from + 1
    OBVIOUS
  <2> HIDE DEF g
  <2>2. r.from > 0
    BY <1>1, <2>1
  <2>3. g + from + sure <= Len(heard)
    BY <1>1
  <2> QED BY <1>5, <2>2, <2>3
<1>11. \A i \in 1..Sure(r) : r.pulses[i] # 0 /\ ~ Opposite(r.pulses[i], heard[r.from + i - 1])
  BY <1>7
<1> QED BY <1>2, <1>3, <1>5, <1>6, <1>8, <1>9, <1>10, <1>11 DEF ReportIsRecent

\* What a report is added to stays.
Adds(k, r, f) ==
  /\ Sound(f) /\ Right(f) /\ Reported(f) = Reported(k) \union {r} /\ f.success = TRUE
  /\ f.message = k.message /\ Count(f) = Count(k) /\ Gone(f, heard) = Gone(k, heard)
  /\ f.truncated = k.truncated /\ f.state = k.state /\ f.mcDetected = k.mcDetected
  /\ f.last = k.last

\* A report of what was heard keeps the detector sound.
LEMMA ReportingIs ==
  ASSUME NEW k, NEW r, Sound(k), Right(k),
         r.kind # "MC" => ReportIsRecent(r, heard, Reported(k))
  PROVE  Adds(k, r, Reporting(k, r))
<1> SUFFICES ASSUME NEW f, f = Reporting(k, r) PROVE Adds(k, r, f)
  OBVIOUS
<1>1. DOMAIN k = Fields /\ IsSequence(k.out) /\ k.truncated \in BOOLEAN
  BY FieldTypes DEF Sound, Typed
<1>2. f = [k EXCEPT !.out = Append(k.out, r), !.success = TRUE]
  BY DEF Reporting
<1>3. SameBut(k, f, {"success", "truncated", "out"}) /\ f.out = Append(k.out, r) /\ f.success = TRUE
  BY <1>1, <1>2, SortedAre DEF SameBut, Fields
<1>4. f.truncated = k.truncated /\ f.state = k.state /\ f.mcDetected = k.mcDetected /\ f.last = k.last
  BY <1>1, <1>2, SortedAre DEF Fields
<1>5. IsSequence(f.out) /\ Right(f) /\ Reported(f) = Reported(k) \union {r}
  BY <1>1, <1>3, AddReport
<1>6. Sound(f) /\ f.message = k.message /\ Count(f) = Count(k) /\ Gone(f, heard) = Gone(k, heard)
  <2>1. f.truncated \in BOOLEAN /\ f.success \in BOOLEAN
    BY <1>1, <1>3, <1>4
  <2> QED BY <1>3, <1>5, <2>1, ReportStaysSound
<1> QED BY <1>3, <1>4, <1>5, <1>6 DEF Adds

\* The end of a message that begins with the sync.
LEMMA MsEndIs ==
  ASSUME NEW e, Sound(e), heard \in Seq(Pulses), SyncIs(e)
  PROVE  /\ MsEnd(e).found \in BOOLEAN /\ MsEnd(e).mend \in Nat /\ MsEnd(e).mend <= Count(e)
         /\ e.mstart + 2 <= MsEnd(e).mend
         /\ ~ MsEnd(e).found => Count(e) - 1 <= MsEnd(e).mend
<1> DEFINE places == {m \in (e.mstart + 2)..(Count(e) - 2) : (m - e.mstart) % 2 = 0}
           data == {m \in places : At(e, m + 1) # e.sync}
           ends == {m \in places : /\ \E x \in data : x < m
                                   /\ At(e, m + 1) = e.sync /\ At(e, m) = e.clock}
           last == IF (Count(e) - e.mstart) % 2 = 0 THEN Count(e) ELSE Count(e) - 1
<1>1. Count(e) \in Nat /\ e.mstart \in Nat /\ e.mstart + 40 < Count(e)
  BY Numbers DEF SyncIs
<1>2. MsEnd(e) = IF ends # {} THEN [found |-> TRUE, mend |-> Min(ends) - 1]
                 ELSE [found |-> FALSE, mend |-> last]
  BY DEF MsEnd
<1>3. CASE ends # {}
  <2>1. \A m \in ends : m \in Nat /\ e.mstart + 3 <= m /\ m <= Count(e) - 2
    <3>1. ASSUME NEW m \in ends PROVE m \in Nat /\ e.mstart + 3 <= m /\ m <= Count(e) - 2
      <4>1. m \in Int /\ m <= Count(e) - 2
        BY <1>1
      <4>2. PICK x \in data : x < m
        OBVIOUS
      <4>3. x \in Int /\ e.mstart + 2 <= x
        BY <1>1
      <4> HIDE DEF places, data, ends
      <4>4. x < m
        BY <4>2
      <4>5. e.mstart + 3 <= m
        BY <1>1, <4>1, <4>3, <4>4
      <4>6. m \in Nat
        BY <1>1, <4>1, <4>5
      <4> QED BY <4>1, <4>5, <4>6
    <3> QED BY <3>1
  <2> HIDE DEF ends
  <2>2. Min(ends) \in ends
    BY <1>3, <2>1, MinIs
  <2>3. Min(ends) \in Nat /\ e.mstart + 3 <= Min(ends) /\ Min(ends) <= Count(e) - 2
    BY <2>1, <2>2
  <2>4. MsEnd(e).found = TRUE /\ MsEnd(e).mend = Min(ends) - 1
    BY <1>2, <1>3
  <2>5. Min(ends) - 1 \in Nat /\ Min(ends) - 1 <= Count(e) /\ e.mstart + 2 <= Min(ends) - 1
    <3> DEFINE m == Min(ends)
    <3>1. m \in Nat /\ e.mstart + 3 <= m /\ m <= Count(e) - 2
      BY <2>3
    <3> HIDE DEF m
    <3>2. m - 1 \in Nat /\ m - 1 <= Count(e) /\ e.mstart + 2 <= m - 1
      BY <1>1, <3>1
    <3> QED BY <3>2 DEF m
  <2> QED BY <2>4, <2>5
<1>4. CASE ends = {}
  <2>1. MsEnd(e).found = FALSE /\ MsEnd(e).mend = last
    BY <1>2, <1>4
  <2>2. last \in Nat /\ last <= Count(e) /\ e.mstart + 2 <= last /\ Count(e) - 1 <= last
    BY <1>1
  <2> HIDE DEF last
  <2> QED BY <2>1, <2>2
<1> QED BY <1>3, <1>4

-----------------------------------------------------------------------------
(* What follows a report.                                                   *)

\* A detector whose message is a later part of what was heard.
Advances(e, f) == Sound(f) /\ f.out = e.out /\ Gone(e, heard) <= Gone(f, heard)

\* Processing is over, or goes on with what was not reported.
Told(e) == /\ Sound(e) /\ Right(e) /\ Known(e)
           /\ Fresh(e) \/ (e.success /\ ~ e.truncated)

\* What has left the buffer was heard.
LEMMA FreshIsKnown ==
  ASSUME NEW e, Sound(e), heard \in Seq(Pulses), Fresh(e)
  PROVE  Known(e)
<1>1. Len(heard) \in Nat /\ Gone(e, heard) \in Nat /\ Gone(e, heard) <= Len(heard)
  BY Numbers
<1>2. ASSUME NEW q \in Reported(e), q.kind # "MC" PROVE Ends(q) \in Int /\ Ends(q) <= Len(heard)
  <2>1. Ends(q) \in Int /\ Ends(q) <= Gone(e, heard)
    BY <1>2 DEF Fresh, Precedes
  <2> QED BY <1>1, <2>1
<1> QED BY <1>2 DEF Known, Precedes

\* Nothing that was reported is in an empty buffer.
LEMMA EmptyIsFresh ==
  ASSUME NEW e, Known(e), Count(e) = 0, heard \in Seq(Pulses)
  PROVE  Fresh(e)
BY EmptyIsRecent DEF Known, Fresh

\* Dropping more of the buffer leaves no reported pulse in it.
LEMMA AdvanceIs ==
  ASSUME NEW e, NEW f, Sound(e), Advances(e, f), heard \in Seq(Pulses)
  PROVE  /\ Fresh(e) => Fresh(f)
         /\ Right(e) => Right(f)
         /\ Known(e) => Known(f)
         /\ Reported(f) = Reported(e)
         /\ \A g : Advances(f, g) => Advances(e, g)
         /\ Count(f) <= Count(e)
<1>1. /\ Gone(e, heard) \in Nat /\ Gone(f, heard) \in Nat /\ Gone(e, heard) <= Gone(f, heard)
      /\ Gone(e, heard) = Len(heard) - Count(e) /\ Gone(f, heard) = Len(heard) - Count(f)
      /\ Len(heard) \in Nat /\ Count(e) \in Nat /\ Count(f) \in Nat
  BY Numbers DEF Advances
<1>2. Reported(f) = Reported(e)
  BY DEF Reported, Advances
<1>3. ASSUME Fresh(e) PROVE Fresh(f)
  <2>1. ASSUME NEW q \in Reported(f), q.kind # "MC"
        PROVE  Ends(q) \in Int /\ Ends(q) <= Gone(f, heard)
    <3>1. Ends(q) \in Int /\ Ends(q) <= Gone(e, heard)
      BY <1>2, <1>3, <2>1 DEF Fresh, Precedes
    <3> QED BY <1>1, <3>1
  <2> QED BY <2>1 DEF Fresh, Precedes
<1>4. Right(e) => Right(f)
  BY DEF Right, Advances
<1>5. Known(e) => Known(f)
  BY <1>2 DEF Known
<1>6. ASSUME NEW g, Advances(f, g) PROVE Advances(e, g)
  <2>1. Gone(g, heard) \in Nat
    BY <1>6, Numbers DEF Advances
  <2>2. Gone(e, heard) <= Gone(g, heard)
    BY <1>1, <1>6, <2>1 DEF Advances
  <2> QED BY <1>6, <2>2 DEF Advances
<1>7. Count(f) <= Count(e)
  BY <1>1
<1> QED BY <1>2, <1>3, <1>4, <1>5, <1>6, <1>7

\* The same buffer is kept as well.
LEMMA KeptSame ==
  ASSUME NEW e, NEW f, Kept(e), f.message = e.message, f.truncated = e.truncated, f.last = e.last
  PROVE  Kept(f)
BY DEF Kept, Count, LastOf

\* What is kept after an MS report.
LEMMA KeepRestIs ==
  ASSUME NEW e, Sound(e), heard \in Seq(Pulses), ~ e.truncated, NEW f, f = KeepRest(e)
  PROVE  /\ Advances(e, f) /\ Kept(f)
         /\ f.mcDetected => e.mcDetected
         /\ \/ ~ f.truncated
            \/ Gone(e, heard) + e.mend <= Gone(f, heard)
<1>1. CASE ~ (Count(e) - e.mend >= MinMessageLen /\ e.moves > 0)
  <2>1. f = e
    BY <1>1 DEF KeepRest
  <2>2. Gone(e, heard) \in Nat
    BY Numbers
  <2> QED BY <2>1, <2>2 DEF Advances, Kept
<1>2. CASE Count(e) - e.mend >= MinMessageLen /\ e.moves > 0
  <2> DEFINE a == [e EXCEPT !.moves = e.moves - 1]
             b == BufferMove(a, e.mend + 1)
  <2>1. f = [b EXCEPT !.mstart = 0]
    BY <1>2 DEF KeepRest
  <2>2. DOMAIN e = Fields /\ e.moves \in 0..3 /\ e.mend \in Nat
    <3>1. DOMAIN e = Fields
      BY DEF Sound, Typed
    <3>2. e.moves \in 0..3 /\ e.mend \in 0..255
      BY FieldTypes DEF Sound
    <3>3. e.mend \in Nat
      BY <3>2, RangesAre
    <3> QED BY <3>1, <3>2, <3>3
  <2>3. SameBut(e, a, {"moves"}) /\ a.moves = e.moves - 1
    BY <2>2, SortedAre DEF SameBut, Fields
  <2>4. a.mcDetected = e.mcDetected /\ a.state = e.state
    BY <2>3, SortedAre DEF SameBut, Fields
  <2> HIDE DEF a
  <2>5. /\ Sound(a) /\ a.message = e.message /\ Count(a) = Count(e)
        /\ Gone(a, heard) = Gone(e, heard) /\ a.out = e.out
    <3>1. e.moves - 1 \in 0..3
      BY <1>2, <2>2
    <3>2. {"moves"} \in SUBSET Sorted /\ \A x \in {"moves"} : a[x] \in Sorts[x]
      BY <2>3, <3>1, SortedAre, SortsAre
    <3>3. Continued(a)
      BY <2>4 DEF Sound, Continued
    <3>4. {"moves"} \intersect {"message", "pattern", "patternLen", "patternPos"} = {}
      OBVIOUS
    <3> QED BY <2>3, <3>2, <3>3, <3>4, StaysSound
  <2>6. /\ Sound(b) /\ Kept(b) /\ Gone(a, heard) <= Gone(b, heard)
        /\ Gone(a, heard) + (e.mend + 1) <= Gone(b, heard) \/ Count(b) = 0
        /\ b.out = a.out
        /\ b.mcDetected => a.mcDetected
    <3> DEFINE n == e.mend + 1
    <3>1. n \in Nat /\ b = BufferMove(a, n)
      BY <2>2
    <3> HIDE DEF b, n
    <3>2. MovesTo(a, n, b)
      BY <2>5, <3>1, MoveIs
    <3> QED BY <3>2 DEF MovesTo, n
  <2> HIDE DEF b
  <2>7. DOMAIN b = Fields
    BY <2>6 DEF Sound, Typed
  <2>8. SameBut(b, f, {"mstart"}) /\ f.mstart = 0
    BY <2>1, <2>7, SortedAre DEF SameBut, Fields
  <2>9. f.mcDetected = b.mcDetected /\ f.state = b.state /\ f.truncated = b.truncated /\ f.last = b.last
    BY <2>8, SortedAre DEF SameBut, Fields
  <2>10. /\ Sound(f) /\ f.message = b.message /\ Count(f) = Count(b)
         /\ Gone(f, heard) = Gone(b, heard) /\ f.out = b.out
    <3>1. {"mstart"} \in SUBSET Sorted /\ \A x \in {"mstart"} : f[x] \in Sorts[x]
      BY <2>8, SortedAre, SortsAre
    <3>2. Continued(f)
      BY <2>6, <2>9 DEF Sound, Continued
    <3>3. {"mstart"} \intersect {"message", "pattern", "patternLen", "patternPos"} = {}
      OBVIOUS
    <3> QED BY <2>6, <2>8, <3>1, <3>2, <3>3, StaysSound
  <2>11. Kept(f)
    BY <2>6, <2>9, <2>10, KeptSame
  <2>12. Advances(e, f)
    BY <2>5, <2>6, <2>10 DEF Advances
  <2>13. Gone(e, heard) + e.mend <= Gone(f, heard)
    <3>1. /\ Gone(e, heard) \in Nat /\ Gone(b, heard) \in Nat /\ Len(heard) \in Nat
          /\ Gone(b, heard) = Len(heard) - Count(b)
          /\ Gone(e, heard) = Len(heard) - Count(e) /\ Count(e) \in Nat /\ Count(b) \in Nat
      BY <2>6, Numbers
    <3>2. CASE Count(b) = 0
      <4>1. e.mend <= Count(e)
        BY <1>2, <2>2, <3>1
      <4> QED BY <2>2, <2>10, <3>1, <3>2, <4>1
    <3>3. CASE Gone(a, heard) + (e.mend + 1) <= Gone(b, heard)
      BY <2>2, <2>5, <2>10, <3>1, <3>3
    <3> QED BY <2>6, <3>2, <3>3
  <2> QED BY <2>4, <2>6, <2>9, <2>11, <2>12, <2>13
<1> QED BY <1>1, <1>2

-----------------------------------------------------------------------------
(* processMessage: a message with a sync.                                   *)

\* What the first of the three kinds of message leaves.
AfterMs(e, f) ==
  /\ Told(f) /\ Gone(e, heard) <= Gone(f, heard)
  /\ f.mcDetected => e.mcDetected
  /\ ~ f.success /\ f.state = "clockfound" => ClockIs(f)
  /\ Kept(e) => Kept(f)

\* The histogram of what is reported.
LEMMA MsHistoIs ==
  ASSUME NEW e, Sound(e), heard \in Seq(Pulses), SyncIs(e), ClockIs(e), NEW end, end = MsEnd(e),
         NEW f, f = CalcHisto([e EXCEPT !.mend = end.mend], e.mstart, end.mend)
  PROVE  /\ Sound(f) /\ SameBut(e, f, {"mend", "histo"}) /\ f.mend = end.mend
         /\ SyncIs(f) /\ ClockIs(f)
         /\ Counted(f, f.mstart, f.mend)
         /\ f.histo[f.clock] # 0
<1> DEFINE a == [e EXCEPT !.mend = end.mend]
<1>1. DOMAIN e = Fields
  BY DEF Sound, Typed
<1>2. SameBut(e, a, {"mend"}) /\ a.mend = end.mend
  BY <1>1, SortedAre DEF SameBut, Fields
<1>3. f = CalcHisto(a, e.mstart, end.mend)
  OBVIOUS
<1> HIDE DEF a
<1>4. /\ Count(e) \in Nat /\ Count(e) <= 254 /\ e.mstart \in Nat /\ end.mend \in Nat
      /\ end.mend <= Count(e) /\ e.mstart + 2 <= end.mend
  BY Numbers, MsEndIs DEF SyncIs
<1>5. /\ Sound(a) /\ a.message = e.message /\ Count(a) = Count(e)
      /\ Gone(a, heard) = Gone(e, heard) /\ a.out = e.out
  <2>1. a.mcDetected = e.mcDetected /\ a.state = e.state
    BY <1>2, SortedAre DEF SameBut, Fields
  <2>2. end.mend \in 0..255
    <3>1. end.mend \in Nat /\ end.mend <= 255
      BY <1>4
    <3> QED BY <3>1, EndIs
  <2>3. {"mend"} \in SUBSET Sorted /\ \A x \in {"mend"} : a[x] \in Sorts[x]
    <3>1. a["mend"] \in Sorts["mend"]
      BY <1>2, <2>2, SortsAre
    <3> QED BY <3>1, SortedAre
  <2>4. Continued(a)
    BY <2>1 DEF Sound, Continued
  <2>5. {"mend"} \intersect {"message", "pattern", "patternLen", "patternPos"} = {}
    OBVIOUS
  <2> QED BY <1>2, <2>3, <2>4, <2>5, StaysSound
<1>6. /\ Sound(f) /\ SameBut(a, f, {"histo"})
      /\ Count(a) # 0 =>
           f.histo = [p \in Patterns |->
                        Cardinality(Places(a, e.mstart, IF end.mend = 0 THEN Count(a) ELSE end.mend, p))]
  <2>1. end.mend <= 254
    BY <1>4
  <2> QED BY <1>3, <1>4, <1>5, <2>1, HistoIs
<1>7. f.histo = [p \in Patterns |-> Cardinality(Places(a, e.mstart, end.mend, p))]
  <2>1. Count(a) # 0 /\ end.mend # 0
    BY <1>4, <1>5
  <2> QED BY <1>6, <2>1
<1>8. SameBut(e, f, {"mend", "histo"}) /\ f.mend = end.mend
  <2>1. SameBut(e, f, {"mend", "histo"})
    BY <1>2, <1>6 DEF SameBut
  <2>2. f.mend = a.mend
    BY <1>6, SortedAre DEF SameBut, Fields
  <2> QED BY <1>2, <2>1, <2>2
<1>9. /\ f.message = e.message /\ f.pattern = e.pattern /\ f.patternLen = e.patternLen
      /\ f.clock = e.clock /\ f.sync = e.sync /\ f.mstart = e.mstart
  BY <1>8, SortedAre DEF SameBut, Fields
<1>10. SyncIs(f) /\ ClockIs(f)
  BY <1>9 DEF SyncIs, ClockIs, Count, At
<1>11. ASSUME NEW i \in e.mstart..(end.mend - 1) PROVE f.histo[At(f, i)] # 0
  <2>1. i \in Int /\ e.mstart <= i /\ i <= end.mend - 1
    BY <1>4
  <2>2. i \in Nat /\ i < Count(e)
    BY <1>4, <2>1
  <2>3. At(e, i) \in Patterns /\ At(f, i) = At(e, i) /\ At(a, i) = At(e, i)
    BY <1>5, <1>9, <2>2, PlaceFits DEF At
  <2>4. i \in Places(a, e.mstart, end.mend, At(e, i))
    BY <2>3 DEF Places
  <2>5. Cardinality(Places(a, e.mstart, end.mend, At(e, i))) # 0
    <3>1. end.mend <= 254
      BY <1>4
    <3> QED BY <1>4, <2>4, <3>1, PlacesAre
  <2> QED BY <1>7, <2>3, <2>5
<1>12. f.histo[f.clock] # 0
  <2>1. e.mstart \in e.mstart..(end.mend - 1)
    BY <1>4
  <2>2. At(f, e.mstart) = f.clock
    BY <1>9, <1>10 DEF SyncIs
  <2> QED BY <1>11, <2>1, <2>2
<1>13. Counted(f, f.mstart, f.mend)
  BY <1>8, <1>9, <1>11 DEF Counted
<1> QED BY <1>6, <1>8, <1>10, <1>12, <1>13

\* The report of a message with a sync.
LEMMA ReportMsIs ==
  ASSUME NEW e, Sound(e), heard \in Seq(Pulses), Fresh(e), Right(e), SyncIs(e), ClockIs(e),
         Counted(e, e.mstart, e.mend), e.histo[e.clock] # 0,
         e.mstart + 2 <= e.mend, e.mend <= Count(e), e.mend - e.mstart + 1 >= MinMessageLen,
         e.state = "syncfound",
         NEW f, f = Reporting(KeepRest([e EXCEPT !.truncated = FALSE]),
                              Report(e, "MS", e.mstart, e.mend))
  PROVE  /\ Told(f) /\ Gone(e, heard) <= Gone(f, heard) /\ ~ f.mcDetected
         /\ f.state # "clockfound" \/ f.success
         /\ f.success /\ Kept(f)
<1> DEFINE g == [e EXCEPT !.truncated = FALSE]
           k == KeepRest(g)
           r == Report(e, "MS", e.mstart, e.mend)
<1>1. f = Reporting(k, r)
  OBVIOUS
<1>2. DOMAIN e = Fields
  BY DEF Sound, Typed
<1>3. SameBut(e, g, {"truncated"}) /\ g.truncated = FALSE
  BY <1>2, SortedAre DEF SameBut, Fields
<1>4. g.mcDetected = e.mcDetected /\ g.state = e.state /\ g.mend = e.mend
  BY <1>3, SortedAre DEF SameBut, Fields
<1>5. ~ e.mcDetected
  BY DEF Sound, Continued
<1>6. k = KeepRest(g)
  OBVIOUS
<1> HIDE DEF g, k
<1>7. /\ Sound(g) /\ g.message = e.message /\ Count(g) = Count(e)
      /\ Gone(g, heard) = Gone(e, heard) /\ g.out = e.out
  <2>1. {"truncated"} \in SUBSET Sorted /\ \A x \in {"truncated"} : g[x] \in Sorts[x]
    <3>1. Sorts["truncated"] = BOOLEAN
      BY SortsAre
    <3>2. g["truncated"] \in BOOLEAN
      BY <1>3
    <3>3. {"truncated"} \in SUBSET Sorted
      BY SortedAre
    <3> QED BY <3>1, <3>2, <3>3
  <2>2. Continued(g)
    BY <1>4 DEF Sound, Continued
  <2>3. {"truncated"} \intersect {"message", "pattern", "patternLen", "patternPos"} = {}
    OBVIOUS
  <2> QED BY <1>3, <2>1, <2>2, <2>3, StaysSound
<1>8. /\ Advances(g, k) /\ Kept(k)
      /\ k.mcDetected => g.mcDetected
      /\ ~ k.truncated \/ Gone(g, heard) + g.mend <= Gone(k, heard)
  BY <1>3, <1>6, <1>7, KeepRestIs
<1>9. Fresh(g) /\ Right(g) /\ Reported(g) = Reported(e)
  <2>1. Reported(g) = Reported(e)
    BY <1>7 DEF Reported
  <2>2. Fresh(g)
    BY <1>7, <2>1 DEF Fresh
  <2>3. Right(g)
    BY <1>7, RightSame
  <2> QED BY <2>1, <2>2, <2>3
<1>10. Sound(k) /\ k.out = e.out /\ Fresh(k) /\ Right(k) /\ Reported(k) = Reported(e)
  <2>1. Sound(k) /\ k.out = g.out
    BY <1>8 DEF Advances
  <2> QED BY <1>7, <1>8, <1>9, <2>1, AdvanceIs
<1>11. /\ Count(e) \in Nat /\ e.mstart \in Nat /\ e.mend \in Nat /\ Gone(e, heard) \in Nat
       /\ Gone(k, heard) \in Nat /\ Len(heard) \in Nat /\ Gone(e, heard) = Len(heard) - Count(e)
  <2>1. e.mend \in 0..255
    BY FieldTypes DEF Sound
  <2>2. e.mend \in Nat
    BY <2>1, RangesAre
  <2> QED BY <1>10, <2>2, Numbers DEF SyncIs
<1>12. ReportIsRecent(r, heard, Reported(e)) /\ Ends(r) = Gone(e, heard) + e.mend /\ r.kind = "MS"
  <2> DEFINE from == e.mstart
             to == e.mend
             sure == to - from
             n == to - from + 1
  <2>1. /\ from \in Nat /\ to \in Nat /\ sure \in Nat /\ from + sure = to /\ from + sure <= Count(e)
        /\ n >= MinMessageLen /\ sure <= n /\ sure >= 2 /\ n \in Nat /\ n - 1 = sure
    <3> HIDE DEF from, to
    <3>1. from \in Nat /\ to \in Nat /\ from + 2 <= to /\ to <= Count(e) /\ to - from + 1 >= 40
      BY <1>11 DEF from, to
    <3>2. sure \in Nat /\ from + sure = to /\ sure >= 2
      BY <3>1, Difference
    <3>3. n >= MinMessageLen /\ sure <= n /\ n \in Nat /\ n - 1 = sure
      BY <3>1, Difference
    <3> QED BY <3>1, <3>2, <3>3
  <2>2. /\ r.kind = "MS" /\ r.from = Gone(e, heard) + from + 1 /\ r.clock = Printed(e, e.clock)
        /\ r.pulses = PulsesOf(e, from, to)
        /\ r.sync = Printed(e, e.sync)
    BY DEF Report, PulsesOf
  <2> HIDE DEF r
  <2>3. Sure(r) = sure
    <3>1. Len(r.pulses) = n
      BY <2>1, <2>2 DEF PulsesOf
    <3> QED BY <2>1, <2>2, <3>1 DEF Sure
  <2>4. Counted(e, from, from + sure) /\ from = e.mstart
    BY <2>1
  <2> HIDE DEF from, to, sure
  <2>5. ReportIsRecent(r, heard, Reported(e)) /\ Ends(r) = Gone(e, heard) + from + sure
    <3>1. /\ from \in Nat /\ sure \in Nat /\ from + sure <= Count(e) /\ to \in Nat
          /\ to - from + 1 >= MinMessageLen /\ sure <= to - from + 1
      BY <2>1
    <3>2. r.kind = "MS" => SyncIs(e) /\ from = e.mstart /\ sure >= 2 /\ r.sync = Printed(e, e.sync)
      BY <2>1, <2>2, <2>4
    <3> HIDE DEF n
    <3> QED BY <2>2, <2>3, <2>4, <3>1, <3>2, ReportIs
  <2> QED BY <1>11, <2>1, <2>2, <2>5 DEF from, to, sure
<1> HIDE DEF r
<1>17. /\ Sound(f) /\ Right(f) /\ Reported(f) = Reported(e) \union {r} /\ f.success = TRUE
       /\ f.message = k.message /\ Count(f) = Count(k) /\ Gone(f, heard) = Gone(k, heard)
       /\ f.truncated = k.truncated /\ f.state = k.state /\ f.mcDetected = k.mcDetected
       /\ f.last = k.last
  <2>1. r.kind # "MC" => ReportIsRecent(r, heard, Reported(k))
    BY <1>10, <1>12
  <2>2. Adds(k, r, f)
    BY <1>1, <1>10, <2>1, ReportingIs
  <2> QED BY <1>10, <2>2 DEF Adds
<1>18. Known(f)
  <2>1. Known(k)
    BY <1>10, FreshIsKnown
  <2>2. Ends(r) \in Int /\ Ends(r) <= Len(heard)
    BY <1>11, <1>12
  <2> QED BY <1>10, <1>17, <2>1, <2>2 DEF Known, Precedes
<1>19. ASSUME f.truncated PROVE Fresh(f)
  <2>1. Ends(r) \in Int /\ Ends(r) <= Gone(f, heard)
    BY <1>4, <1>7, <1>8, <1>11, <1>12, <1>17, <1>19
  <2> QED BY <1>10, <1>17, <2>1 DEF Fresh, Precedes
<1>20. Told(f)
  BY <1>17, <1>18, <1>19 DEF Told
<1>21. Kept(f)
  BY <1>8, <1>17, KeptSame
<1>22. Gone(e, heard) <= Gone(f, heard)
  BY <1>7, <1>8, <1>17 DEF Advances
<1> QED BY <1>4, <1>5, <1>8, <1>17, <1>20, <1>21, <1>22

\* After the search for a message with a sync, whichever way it ended.
LEMMA ProcessMsIs ==
  ASSUME NEW e, Sound(e), heard \in Seq(Pulses), Fresh(e), Right(e), ~ e.success,
         e.state = "clockfound" => ClockIs(e),
         e.state = "syncfound" => ClockIs(e) /\ SyncIs(e)
  PROVE  AfterMs(e, ProcessMs(e))
<1> DEFINE end == MsEnd(e)
           h == CalcHisto([e EXCEPT !.mend = end.mend], e.mstart, end.mend)
           long == end.mend - e.mstart >= MinMessageLen
           acts == e.state = "syncfound" /\ Count(e) >= MinMessageLen
           cuts == end.found /\ ~ long
           tells == end.found \/ (Count(e) < MaxMsgSize /\ Count(e) - e.mstart >= MinMessageLen)
           moves == Count(e) = MaxMsgSize /\ e.mstart > 0
<1> SUFFICES ASSUME NEW f, f = ProcessMs(e) PROVE AfterMs(e, f)
  OBVIOUS
<1>1. f = IF ~ acts THEN e
          ELSE IF cuts THEN [h EXCEPT !.state = "clockfound"]
          ELSE IF tells
            THEN Reporting(KeepRest([h EXCEPT !.truncated = FALSE]), Report(h, "MS", h.mstart, h.mend))
          ELSE IF moves THEN [BufferMove(h, h.mstart) EXCEPT !.mstart = 0]
          ELSE [Reset(h) EXCEPT !.success = TRUE]
  BY DEF ProcessMs
<1>2. Gone(e, heard) \in Nat /\ Count(e) \in Nat /\ Count(e) <= 254
  BY Numbers
<1>3. CASE ~ acts
  <2>1. f = e
    BY <1>1, <1>3
  <2>2. Known(e)
    BY FreshIsKnown
  <2>3. f.state = "clockfound" => ClockIs(f)
    BY <2>1
  <2> QED BY <1>2, <2>1, <2>2, <2>3 DEF AfterMs, Told
<1>4. CASE acts
  <2>1. SyncIs(e) /\ ClockIs(e) /\ e.state = "syncfound"
    BY <1>4
  <2>2. /\ Sound(h) /\ SameBut(e, h, {"mend", "histo"}) /\ h.mend = end.mend
        /\ SyncIs(h) /\ ClockIs(h) /\ Counted(h, h.mstart, h.mend) /\ h.histo[h.clock] # 0
    BY <2>1, MsHistoIs
  <2>3. /\ end.found \in BOOLEAN /\ end.mend \in Nat /\ end.mend <= Count(e)
        /\ e.mstart + 2 <= end.mend
        /\ ~ end.found => Count(e) - 1 <= end.mend
    BY <2>1, MsEndIs
  <2> HIDE DEF end, h
  <2>4. /\ h.mcDetected = e.mcDetected /\ h.state = e.state /\ h.truncated = e.truncated
        /\ h.message = e.message /\ h.out = e.out /\ h.mstart = e.mstart /\ h.last = e.last
    BY <2>2, SortedAre DEF SameBut, Fields
  <2>5. Count(h) = Count(e) /\ Gone(h, heard) = Gone(e, heard)
    BY <2>4 DEF Count, Gone
  <2>6. Fresh(h) /\ Right(h) /\ Known(h)
    <3>1. Advances(e, h)
      BY <1>2, <2>2, <2>4, <2>5 DEF Advances
    <3>2. Fresh(h) /\ Right(h)
      BY <3>1, AdvanceIs
    <3> QED BY <2>2, <3>2, FreshIsKnown
  <2>7. Kept(e) => Kept(h)
    BY <2>4, KeptSame
  <2>8. ~ e.mcDetected /\ DOMAIN h = Fields
    BY <2>1, <2>2 DEF Sound, Continued, Typed
  <2>9. CASE cuts
    <3>1. f = [h EXCEPT !.state = "clockfound"]
      BY <1>1, <1>4, <2>9
    <3>2. SameBut(h, f, {"state"}) /\ f.state = "clockfound"
      BY <2>8, <3>1, SortedAre DEF SameBut, Fields
    <3>3. /\ f.mcDetected = h.mcDetected /\ f.message = h.message /\ f.pattern = h.pattern
          /\ f.patternLen = h.patternLen /\ f.clock = h.clock /\ f.truncated = h.truncated
          /\ f.last = h.last
      BY <3>2, SortedAre DEF SameBut, Fields
    <3>4. Sound(f) /\ Count(f) = Count(h) /\ Gone(f, heard) = Gone(h, heard) /\ f.out = h.out
      <4>1. {"state"} \in SUBSET Sorted /\ \A x \in {"state"} : f[x] \in Sorts[x]
        <5>1. f["state"] \in Sorts["state"]
          BY <3>2, SortsAre DEF States
        <5> QED BY <5>1, SortedAre
      <4>2. Continued(f)
        BY <2>4, <2>8, <3>3 DEF Continued
      <4>3. {"state"} \intersect {"message", "pattern", "patternLen", "patternPos"} = {}
        OBVIOUS
      <4> QED BY <2>2, <3>2, <4>1, <4>2, <4>3, StaysSound
    <3>5. ClockIs(f)
      BY <2>2, <3>3 DEF ClockIs, Count, At
    <3>6. Fresh(f) /\ Right(f) /\ Known(f)
      <4>1. Advances(h, f)
        BY <3>4, Numbers, <2>2 DEF Advances
      <4> QED BY <2>2, <2>6, <4>1, AdvanceIs
    <3>7. Kept(h) => Kept(f)
      BY <3>3, KeptSame
    <3> QED BY <1>2, <2>4, <2>5, <2>7, <3>3, <3>4, <3>5, <3>6, <3>7 DEF AfterMs, Told
  <2>10. CASE ~ cuts /\ tells
    <3>1. f = Reporting(KeepRest([h EXCEPT !.truncated = FALSE]), Report(h, "MS", h.mstart, h.mend))
      BY <1>1, <1>4, <2>10
    <3>2. /\ h.mstart + 2 <= h.mend /\ h.mend <= Count(h) /\ h.state = "syncfound"
      BY <2>1, <2>2, <2>3, <2>4, <2>5
    <3>3. h.mend - h.mstart + 1 >= MinMessageLen
      <4>1. e.mstart \in Nat
        BY <2>1 DEF SyncIs
      <4>2. CASE end.found
        <5>1. end.mend - e.mstart >= 40
          BY <2>10, <4>2
        <5> QED BY <2>2, <2>3, <2>4, <4>1, <5>1
      <4>3. CASE ~ end.found
        <5>1. Count(e) - e.mstart >= 40 /\ Count(e) - 1 <= end.mend
          BY <2>3, <2>10, <4>3
        <5> QED BY <1>2, <2>2, <2>3, <2>4, <4>1, <5>1
      <4> QED BY <4>2, <4>3
    <3>4. /\ Told(f) /\ Gone(h, heard) <= Gone(f, heard) /\ ~ f.mcDetected
          /\ f.state # "clockfound" \/ f.success
          /\ f.success /\ Kept(f)
      BY <2>2, <2>6, <3>1, <3>2, <3>3, ReportMsIs
    <3> QED BY <2>5, <3>4 DEF AfterMs
  <2>11. CASE ~ cuts /\ ~ tells /\ moves
    <3> DEFINE b == BufferMove(h, h.mstart)
    <3>1. f = [b EXCEPT !.mstart = 0]
      BY <1>1, <1>4, <2>11
    <3>2. MovesTo(h, h.mstart, b)
      BY <2>2, MoveIs DEF SyncIs
    <3> HIDE DEF b
    <3>3. /\ Sound(b) /\ Kept(b) /\ Gone(h, heard) <= Gone(b, heard) /\ b.out = h.out
          /\ ~ b.mcDetected /\ b.state # "clockfound" /\ DOMAIN b = Fields
      BY <2>1, <2>4, <2>8, <3>2 DEF MovesTo, Sound, Typed
    <3>4. SameBut(b, f, {"mstart"}) /\ f.mstart = 0
      BY <3>1, <3>3, SortedAre DEF SameBut, Fields
    <3>5. /\ f.mcDetected = b.mcDetected /\ f.state = b.state /\ f.truncated = b.truncated
          /\ f.last = b.last
      BY <3>4, SortedAre DEF SameBut, Fields
    <3>6. /\ Sound(f) /\ f.message = b.message /\ Gone(f, heard) = Gone(b, heard) /\ f.out = b.out
      <4>1. {"mstart"} \in SUBSET Sorted /\ \A x \in {"mstart"} : f[x] \in Sorts[x]
        BY <3>4, SortedAre, SortsAre
      <4>2. Continued(f)
        BY <3>3, <3>5 DEF Continued
      <4>3. {"mstart"} \intersect {"message", "pattern", "patternLen", "patternPos"} = {}
        OBVIOUS
      <4> QED BY <3>3, <3>4, <4>1, <4>2, <4>3, StaysSound
    <3>7. Kept(f)
      BY <3>3, <3>5, <3>6, KeptSame
    <3>8. Advances(h, f)
      BY <3>3, <3>6 DEF Advances
    <3>9. Fresh(f) /\ Right(f) /\ Known(f)
      BY <2>2, <2>6, <3>8, AdvanceIs
    <3> QED BY <2>5, <3>3, <3>5, <3>6, <3>7, <3>9 DEF AfterMs, Told
  <2>12. CASE ~ cuts /\ ~ tells /\ ~ moves
    <3> DEFINE b == Reset(h)
    <3>1. f = [b EXCEPT !.success = TRUE]
      BY <1>1, <1>4, <2>12
    <3>2. /\ Sound(b) /\ Count(b) = 0 /\ Gone(b, heard) = Len(heard) /\ b.out = h.out
          /\ b.state = "searching" /\ ~ b.truncated /\ ~ b.mcDetected /\ DOMAIN b = Fields
      BY <2>2, ResetIs DEF Sound, Typed
    <3> HIDE DEF b
    <3>3. SameBut(b, f, {"success"}) /\ f.success = TRUE
      BY <3>1, <3>2, SortedAre DEF SameBut, Fields
    <3>4. f.mcDetected = b.mcDetected /\ f.state = b.state /\ f.truncated = b.truncated
      BY <3>3, SortedAre DEF SameBut, Fields
    <3>5. Sound(f) /\ Gone(f, heard) = Gone(b, heard) /\ f.out = b.out
      <4>1. {"success"} \in SUBSET Sorted /\ \A x \in {"success"} : f[x] \in Sorts[x]
        <5>1. f["success"] \in Sorts["success"]
          BY <3>3, SortsAre
        <5> QED BY <5>1, SortedAre
      <4>2. Continued(f)
        BY <3>2, <3>4 DEF Continued
      <4>3. {"success"} \intersect {"message", "pattern", "patternLen", "patternPos"} = {}
        OBVIOUS
      <4> QED BY <3>2, <3>3, <4>1, <4>2, <4>3, StaysSound
    <3>6. Gone(h, heard) <= Gone(f, heard)
      <4>1. Count(h) \in Nat /\ Len(heard) \in Nat /\ Gone(h, heard) = Len(heard) - Count(h)
        BY <2>2, Numbers
      <4> QED BY <3>2, <3>5, <4>1
    <3>7. Advances(h, f)
      BY <3>2, <3>5, <3>6 DEF Advances
    <3>8. Fresh(f) /\ Right(f) /\ Known(f)
      BY <2>2, <2>6, <3>7, AdvanceIs
    <3> QED BY <2>5, <3>2, <3>3, <3>4, <3>5, <3>6, <3>8 DEF AfterMs, Told, Kept
  <2> QED BY <2>9, <2>10, <2>11, <2>12
<1> QED BY <1>3, <1>4

-----------------------------------------------------------------------------
(* Processing: what a message is prepared with.                             *)

\* A message that is processed has a clock if it is said to, and a sync too.
Prepared(e) ==
  /\ Sound(e) /\ Fresh(e) /\ Right(e) /\ ~ e.success
  /\ e.state = "clockfound" => ClockIs(e)
  /\ e.state = "syncfound" => ClockIs(e) /\ SyncIs(e)

\* The buffer is compressed and searched for a clock and a sync.
LEMMA SyncedIs ==
  ASSUME NEW e, Sound(e), heard \in Seq(Pulses), ~ e.mcDetected, Count(e) >= MinMessageLen,
         NEW f, f = Synced(GetClock(CompressPattern(e)))
  PROVE  /\ Advances(e, f) /\ f.success = e.success /\ f.truncated = e.truncated
         /\ f.state = "clockfound" => ClockIs(f)
         /\ f.state = "syncfound" => ClockIs(f) /\ SyncIs(f)
<1> DEFINE c == CompressPattern(e)
           g == GetClock(c)
<1>1. f = Synced(g)
  OBVIOUS
<1>2. Count(e) \in Nat /\ Gone(e, heard) \in Nat
  BY Numbers
<1>3. Compressed(e, c)
  BY <1>2, CompressIs
<1> HIDE DEF c
<1>4. /\ Sound(c) /\ Exact(c) /\ Count(c) = Count(e) /\ c.mcDetected = e.mcDetected
      /\ c.success = e.success /\ c.truncated = e.truncated /\ c.out = e.out
  BY <1>3, SortedAre DEF Compressed, SameBut, Fields
<1>5. /\ Sound(g) /\ SameBut(c, g, {"clock", "state"})
      /\ (g.state = "clockfound" /\ ClockIs(g)) \/ g.state = "searching"
  BY <1>4, GetClockIs
<1> HIDE DEF g
<1>6. /\ g.message = c.message /\ g.success = c.success /\ g.truncated = c.truncated
      /\ g.out = c.out
  BY <1>5, SortedAre DEF SameBut, Fields
<1>7. Count(g) = Count(e)
  BY <1>4, <1>6 DEF Count
<1>8. CASE g.state = "clockfound"
  <2>1. f = GetSync(g)
    BY <1>1, <1>8 DEF Synced
  <2>2. /\ Sound(f) /\ SameBut(g, f, {"sync", "state", "mstart"}) /\ ClockIs(f)
        /\ (f.state = "syncfound" /\ SyncIs(f)) \/ f.state = "clockfound"
    BY <1>5, <1>7, <1>8, <2>1, GetSyncIs
  <2>3. /\ f.message = g.message /\ f.success = g.success /\ f.truncated = g.truncated
        /\ f.out = g.out
    BY <2>2, SortedAre DEF SameBut, Fields
  <2>4. Gone(f, heard) = Gone(e, heard)
    BY <1>7, <2>3 DEF Gone, Count
  <2> QED BY <1>2, <1>4, <1>6, <2>2, <2>3, <2>4 DEF Advances
<1>9. CASE g.state # "clockfound"
  <2>1. f = g
    BY <1>1, <1>9 DEF Synced
  <2>2. Gone(f, heard) = Gone(e, heard)
    BY <1>7, <2>1 DEF Gone
  <2> QED BY <1>2, <1>4, <1>5, <1>6, <1>9, <2>1, <2>2 DEF Advances
<1> QED BY <1>8, <1>9

\* What is processed, of a message or of the rest of a Manchester signal.
LEMMA PreparedIs ==
  ASSUME NEW e, Sound(e), heard \in Seq(Pulses), Fresh(e), Right(e), ~ e.success,
         e.mcDetected \/ Count(e) >= MinMessageLen,
         NEW f, f = IF e.mcDetected THEN CalcHisto(e, 0, 0) ELSE Synced(GetClock(CompressPattern(e)))
  PROVE  Prepared(f) /\ Advances(e, f) /\ f.truncated = e.truncated
<1>1. CASE e.mcDetected
  <2>1. f = CalcHisto(e, 0, 0)
    BY <1>1
  <2>2. Sound(f) /\ SameBut(e, f, {"histo"}) /\ Count(f) = Count(e)
    BY <2>1, WholeHistoIs
  <2>3. f.out = e.out /\ f.state = e.state /\ f.success = e.success /\ f.truncated = e.truncated
    BY <2>2, SortedAre DEF SameBut, Fields
  <2>4. Gone(f, heard) = Gone(e, heard) /\ Gone(e, heard) \in Nat
    BY <2>2, Numbers DEF Gone
  <2>5. Advances(e, f)
    BY <2>2, <2>3, <2>4 DEF Advances
  <2>6. e.state \in {"detecting", "mcdecoding"}
    BY <1>1 DEF Sound, Continued
  <2>7. Fresh(f) /\ Right(f)
    BY <2>5, AdvanceIs
  <2> QED BY <2>2, <2>3, <2>5, <2>6, <2>7 DEF Prepared
<1>2. CASE ~ e.mcDetected
  <2>1. f = Synced(GetClock(CompressPattern(e)))
    BY <1>2
  <2>2. /\ Advances(e, f) /\ f.success = e.success /\ f.truncated = e.truncated
        /\ f.state = "clockfound" => ClockIs(f)
        /\ f.state = "syncfound" => ClockIs(f) /\ SyncIs(f)
    BY <1>2, <2>1, SyncedIs
  <2>3. Fresh(f) /\ Right(f) /\ Sound(f)
    BY <2>2, AdvanceIs DEF Advances
  <2> QED BY <2>2, <2>3 DEF Prepared
<1> QED BY <1>1, <1>2

-----------------------------------------------------------------------------
(* The search for a Manchester signal.                                      *)

McTyped(mc) == DOMAIN mc = McFields /\ mc.sync \in BOOLEAN /\ mc.bits \in Bits

\* A change of what Manchester decoding keeps.
LEMMA McStaysSound ==
  ASSUME NEW e, NEW f, NEW changed \in SUBSET Sorted, Sound(e),
         SameBut(e, f, changed \union {"mc"}), McTyped(f.mc),
         \A x \in changed : f[x] \in Sorts[x],
         changed \intersect {"message", "pattern", "patternLen", "patternPos"} = {},
         Continued(f)
  PROVE  /\ Sound(f) /\ f.message = e.message /\ Count(f) = Count(e)
         /\ Gone(f, heard) = Gone(e, heard) /\ f.out = e.out
<1>1. /\ DOMAIN f = Fields /\ "out" \notin Sorted /\ "mc" \notin Sorted
      /\ {"message", "pattern", "patternLen", "patternPos", "out"}
           \subseteq Fields \ (changed \union {"mc"})
  BY SortedAre DEF SameBut, Fields
<1>2. ASSUME NEW x \in Sorted PROVE f[x] \in Sorts[x]
  <2>1. x # "mc" /\ x \in Fields /\ e[x] \in Sorts[x]
    BY <1>1, <1>2 DEF Fields, Sound, Typed
  <2>2. CASE x \in changed
    BY <2>2
  <2>3. CASE x \notin changed
    <3>1. f[x] = e[x]
      BY <2>1, <2>3 DEF SameBut
    <3> QED BY <2>1, <3>1
  <2> QED BY <2>2, <2>3
<1>3. /\ f.message = e.message /\ f.pattern = e.pattern /\ f.patternLen = e.patternLen
      /\ f.patternPos = e.patternPos /\ f.out = e.out
  BY <1>1 DEF SameBut
<1>4. Typed(f)
  BY <1>1, <1>2, <1>3 DEF Sound, Typed, McTyped
<1>5. IsRecent(f, heard) /\ Count(f) = Count(e) /\ Gone(f, heard) = Gone(e, heard)
  BY <1>3, SameBuffer DEF Sound
<1>6. Buffer!Clean(f.message) /\ Placed(f)
  BY <1>3 DEF Sound, Placed
<1> QED BY <1>3, <1>4, <1>5, <1>6 DEF Sound

\* What the search changes: where the message starts, and the signal's pulses.
Searched(e, f) ==
  /\ SameBut(e, f, {"mstart", "mc"}) /\ f.mstart \in 0..254
  /\ McTyped(f.mc) /\ f.mc.sync = e.mc.sync /\ f.mc.bits = e.mc.bits

\* Where a stretch starts: behind a place of the buffer, or where the one before did.
LEMMA StartIs ==
  ASSUME NEW stops, \A s \in stops : s \in Int /\ s >= -1 /\ s <= 253, NEW z,
         NEW begin \in 0..254
  PROVE  Start(stops, z, begin) \in 0..254
<1>1. ASSUME NEW x PROVE After(stops, x) \in 0..254
  <2> DEFINE S == {-1} \union {s \in stops : s < x}
  <2>1. \A s \in S : s \in Int /\ s >= -1 /\ s <= 253
    OBVIOUS
  <2>2. S \in SUBSET Int /\ S # {} /\ \E bound \in Int : \A y \in S : y <= bound
    <3>1. 253 \in Int /\ \A y \in S : y <= 253
      BY <2>1
    <3> QED BY <2>1, <3>1
  <2>3. After(stops, x) = Max(S) + 1
    BY DEF After
  <2> HIDE DEF S
  <2>4. Max(S) \in S
    BY <2>2, MaxIs
  <2>5. Max(S) + 1 \in 0..254
    BY <2>1, <2>4
  <2> QED BY <2>3, <2>5
<1> QED BY <1>1 DEF Start

\* Where a verified stretch starts.
LEMMA VerifyIs ==
  ASSUME NEW e, Count(e) \in Nat, Count(e) <= 254, NEW c, NEW begin \in 0..254
  PROVE  Verify(e, c, begin).start \in 0..254
<1> DEFINE stops == {i \in 0..(Count(e) - 1) : At(e, i) \notin Roles(c)} \union {Count(e) - 1}
<1>1. \A s \in stops : s \in Int /\ s >= -1 /\ s <= 253
  OBVIOUS
<1>2. Verify(e, c, begin) = VerifyUpTo(stops, e, c, begin)
  BY DEF Verify
<1> HIDE DEF stops
<1>3. PICK z : VerifyUpTo(stops, e, c, begin).start = Start(stops, z, begin)
  BY Zenon DEF VerifyUpTo
<1>4. Start(stops, z, begin) \in 0..254
  BY <1>1, StartIs, Zenon
<1> QED BY <1>2, <1>3, <1>4

\* The pulses of a candidate.
LEMMA TakenIs ==
  ASSUME NEW mc, McTyped(mc), NEW c, NEW t, t = Taken(mc, c)
  PROVE  McTyped(t) /\ t.sync = mc.sync /\ t.bits = mc.bits
<1>1. DOMAIN mc = McFields
  BY DEF McTyped
<1>2. DOMAIN t = McFields
  BY <1>1 DEF Taken
<1>3. t.sync = mc.sync /\ t.bits = mc.bits
  BY <1>1 DEF Taken, McFields
<1> QED BY <1>2, <1>3 DEF McTyped

\* A candidate that was verified.
LEMMA TriedIs ==
  ASSUME NEW e, DOMAIN e = Fields, McTyped(e.mc), NEW c, NEW v, v.start \in 0..254
  PROVE  Searched(e, Tried(e, c, v))
<1> DEFINE m == IF v.found THEN Taken(e.mc, c) ELSE e.mc
<1> SUFFICES ASSUME NEW f, f = Tried(e, c, v) PROVE Searched(e, f)
  OBVIOUS
<1>1. f = [e EXCEPT !.mstart = v.start, !.mc = m]
  BY DEF Tried
<1>2. McTyped(m) /\ m.sync = e.mc.sync /\ m.bits = e.mc.bits
  BY TakenIs
<1> HIDE DEF m
<1>3. SameBut(e, f, {"mstart", "mc"}) /\ f.mstart = v.start /\ f.mc = m
  BY <1>1, SortedAre DEF SameBut, Fields
<1> QED BY <1>2, <1>3 DEF Searched

\* A candidate.
LEMMA TryCandidateIs ==
  ASSUME NEW e, Count(e) \in Nat, Count(e) <= 254, DOMAIN e = Fields, e.mstart \in 0..254,
         McTyped(e.mc), NEW c
  PROVE  Searched(e, TryCandidate(e, c))
<1> DEFINE v == Verify(e, c, e.mstart)
<1>1. TryCandidate(e, c) = e \/ TryCandidate(e, c) = Tried(e, c, v)
  BY Zenon DEF TryCandidate
<1>2. v.start \in 0..254
  BY VerifyIs, Zenon
<1> HIDE DEF v
<1>3. Searched(e, Tried(e, c, v))
  BY <1>2, TriedIs
<1>4. Searched(e, e)
  BY DEF Searched, SameBut
<1> QED BY <1>1, <1>3, <1>4

\* One of the candidates, unless one was found.
LEMMA TryIs ==
  ASSUME NEW e, Count(e) \in Nat, Count(e) <= 254, DOMAIN e = Fields, e.mstart \in 0..254,
         McTyped(e.mc), NEW sorted, NEW k, NEW x
  PROVE  Searched(e, Try(e, sorted, k, x))
<1>1. Searched(e, e)
  BY DEF Searched, SameBut
<1>2. ASSUME NEW c PROVE Searched(e, TryCandidate(e, c))
  BY TryCandidateIs
<1> QED BY <1>1, <1>2, Zenon DEF Try

\* One search after another.
LEMMA SearchedMore ==
  ASSUME NEW e, NEW f, NEW g, Searched(e, f), Searched(f, g)
  PROVE  Searched(e, g)
BY DEF Searched, SameBut

\* What the lemma about a candidate needs.
Searchable(e) ==
  /\ Count(e) \in Nat /\ Count(e) <= 254 /\ DOMAIN e = Fields /\ e.mstart \in 0..254 /\ McTyped(e.mc)

\* One candidate after another.
LEMMA TryMore ==
  ASSUME NEW e, Searchable(e), NEW f, Searched(e, f), NEW sorted, NEW k, NEW x
  PROVE  Searched(e, Try(f, sorted, k, x))
<1>1. f.message = e.message /\ DOMAIN f = Fields /\ f.mstart \in 0..254 /\ McTyped(f.mc)
  BY SortedAre DEF Searched, SameBut, Fields
<1>2. Count(f) \in Nat /\ Count(f) <= 254
  BY <1>1 DEF Searchable, Count
<1>3. Searched(f, Try(f, sorted, k, x))
  BY <1>1, <1>2, TryIs
<1> QED BY <1>3, SearchedMore

\* The candidates of a clock.
LEMMA TryClockIs ==
  ASSUME NEW e, Searchable(e), NEW h, Searched(e, h), NEW sorted, NEW k
  PROVE  Searched(e, TryClock(h, sorted, k))
<1> DEFINE a == Try(h, sorted, k, 1)
           b == Try(a, sorted, k, 2)
           c == Try(b, sorted, k, 3)
           f == Try(c, sorted, k, 4)
           g == Try(f, sorted, k, 5)
           m == Try(g, sorted, k, 6)
           n == Try(m, sorted, k, 7)
<1>1. TryClock(h, sorted, k) = h \/ TryClock(h, sorted, k) = Try(n, sorted, k, 8)
  BY DEF TryClock
<1> HIDE DEF a, b, c, f, g, m, n
<1>2. Searched(e, a)
  BY TryMore DEF a
<1>3. Searched(e, b)
  BY <1>2, TryMore DEF b
<1>4. Searched(e, c)
  BY <1>3, TryMore DEF c
<1>5. Searched(e, f)
  BY <1>4, TryMore DEF f
<1>6. Searched(e, g)
  BY <1>5, TryMore DEF g
<1>7. Searched(e, m)
  BY <1>6, TryMore DEF m
<1>8. Searched(e, n)
  BY <1>7, TryMore DEF n
<1>9. Searched(e, Try(n, sorted, k, 8))
  BY <1>8, TryMore
<1> QED BY <1>1, <1>9

\* isManchester.
LEMMA IsManchesterIs ==
  ASSUME NEW e, Searchable(e)
  PROVE  Searched(e, IsManchester(e))
<1> DEFINE sorted == SortedPattern(e)
           a == TryClock(e, sorted, 1)
           b == TryClock(a, sorted, 2)
           c == TryClock(b, sorted, 3)
           f == TryClock(c, sorted, 4)
           g == TryClock(f, sorted, 5)
           m == TryClock(g, sorted, 6)
           n == TryClock(m, sorted, 7)
<1> HIDE DEF sorted
<1>1. IsManchester(e) = e \/ IsManchester(e) = TryClock(n, sorted, 8)
  BY DEF IsManchester, Search, sorted
<1>2. Searched(e, e)
  BY DEF Searched, Searchable, SameBut
<1> HIDE DEF a, b, c, f, g, m, n
<1>3. Searched(e, a)
  BY <1>2, TryClockIs DEF a
<1>4. Searched(e, b)
  BY <1>3, TryClockIs DEF b
<1>5. Searched(e, c)
  BY <1>4, TryClockIs DEF c
<1>6. Searched(e, f)
  BY <1>5, TryClockIs DEF f
<1>7. Searched(e, g)
  BY <1>6, TryClockIs DEF g
<1>8. Searched(e, m)
  BY <1>7, TryClockIs DEF m
<1>9. Searched(e, n)
  BY <1>8, TryClockIs DEF n
<1>10. Searched(e, TryClock(n, sorted, 8))
  BY <1>9, TryClockIs
<1> QED BY <1>1, <1>2, <1>10

-----------------------------------------------------------------------------
(* The bits of a Manchester signal.                                         *)

\* Bits are added as far as there is room for them.
LEMMA AddBitsIs ==
  ASSUME NEW bits \in Bits, NEW bit \in 0..1, NEW n \in Nat
  PROVE  AddBits(bits, bit, n) \in Bits
<1> DEFINE room == McMaxBits - Len(bits)
           m == Min({n, room})
           s == [k \in 1..m |-> bit]
<1>1. bits \in Seq(0..1) /\ Len(bits) \in Nat /\ room \in Nat /\ Len(bits) + room = 400
  BY DEF Bits, McMaxBits
<1>2. m \in Nat /\ m <= room
  BY <1>1, MinOfTwo
<1> HIDE DEF m
<1>3. s \in Seq(0..1) /\ Len(s) = m
  BY <1>2
<1>4. AddBits(bits, bit, n) = bits \o s
  BY DEF AddBits, m
<1> HIDE DEF s, room
<1>5. bits \o s \in Seq(0..1) /\ Len(bits \o s) = Len(bits) + Len(s)
  BY <1>1, <1>3
<1>6. Len(bits \o s) <= 400
  BY <1>1, <1>2, <1>3, <1>5
<1> QED BY <1>4, <1>5, <1>6 DEF Bits, McMaxBits

\* How many bits the pulses before a place make.
LEMMA BeforeIs == ASSUME NEW e, NEW i \in Nat, NEW bit PROVE Before(e, i, bit) \in Nat
<1> DEFINE pairs == {k \in 2..(i - 1) : /\ (i - 1 - k) % 2 = 0
                                        /\ \A m \in (k - 1)..(i - 1) : IsShort(e, At(e, m))}
           S == {k \in pairs : IF bit = 1 THEN Below(e, At(e, k - 2)) ELSE Above(e, At(e, k - 2))}
<1>1. S \subseteq 2..(i - 1)
  OBVIOUS
<1>2. Before(e, i, bit) = Cardinality(S)
  BY DEF Before
<1> HIDE DEF S
<1>3. IsFiniteSet(2..(i - 1))
  BY FS_Interval
<1> QED BY <1>1, <1>2, <1>3, FS_Subset, FS_CardinalityType

\* How far the buffer was read, and the bits that were.
Reading(e, r) ==
  /\ DOMAIN r = {"i", "start", "bit", "sync", "bits", "ends"}
  /\ r.i \in Nat /\ r.i <= Count(e) + 1 /\ (r.sync => r.i <= Count(e))
  /\ r.start \in Nat /\ r.start <= Count(e)
  /\ r.bit \in 0..1 /\ r.sync \in BOOLEAN /\ r.bits \in Bits
  /\ r.ends = "bits" => Len(r.bits) >= McMinBitLen

\* A long pulse was found.
LEMMA SynchroniseIs ==
  ASSUME NEW e, Count(e) \in Nat, NEW r, Reading(e, r), r.ends = "no", r.i < Count(e)
  PROVE  Reading(e, Synchronise(e, r))
<1> DEFINE second == IF At(e, r.i) = e.mc.longhigh THEN 0 ELSE 1
           joined == IF second = 0 THEN Below(e, At(e, r.i - 1)) ELSE Above(e, At(e, r.i - 1))
           bit == IF joined THEN 1 - second ELSE second
           first == IF joined THEN r.i ELSE r.i + 1
           bits == AddBits(r.bits, bit, 1 + Before(e, r.i, bit))
<1> SUFFICES ASSUME NEW f, f = Synchronise(e, r) PROVE Reading(e, f)
  OBVIOUS
<1>1. second \in 0..1 /\ 1 - second \in 0..1
  OBVIOUS
<1>2. f = IF r.i = 0 THEN [r EXCEPT !.sync = TRUE, !.start = 0, !.bit = 1 - second]
          ELSE [r EXCEPT !.sync = TRUE, !.start = first, !.i = first, !.bit = bit, !.bits = bits]
  BY DEF Synchronise
<1> HIDE DEF second
<1>3. bit \in 0..1
  BY <1>1
<1>4. r.i \in Nat /\ first \in Nat /\ first <= Count(e)
  BY DEF Reading
<1> HIDE DEF first, bit, joined
<1>5. bits \in Bits
  <2>1. Before(e, r.i, bit) \in Nat
    BY <1>4, BeforeIs
  <2>2. 1 + Before(e, r.i, bit) \in Nat /\ r.bits \in Bits
    BY <2>1 DEF Reading
  <2> QED BY <1>3, <2>2, AddBitsIs
<1> HIDE DEF bits
<1>6. CASE r.i = 0
  <2>1. /\ DOMAIN f = {"i", "start", "bit", "sync", "bits", "ends"}
        /\ f.i = r.i /\ f.start = 0 /\ f.bit = 1 - second /\ f.sync = TRUE /\ f.bits = r.bits
        /\ f.ends = r.ends
    BY <1>2, <1>6 DEF Reading
  <2>2. /\ r.i \in Nat /\ r.i <= Count(e) + 1 /\ r.i <= Count(e) /\ r.bits \in Bits
        /\ 0 \in Nat /\ 0 <= Count(e)
    BY <1>4 DEF Reading
  <2> QED BY <1>1, <2>1, <2>2 DEF Reading
<1>7. CASE r.i # 0
  <2>1. /\ DOMAIN f = {"i", "start", "bit", "sync", "bits", "ends"}
        /\ f.i = first /\ f.start = first /\ f.bit = bit /\ f.sync = TRUE /\ f.bits = bits
        /\ f.ends = r.ends
    BY <1>2, <1>7 DEF Reading
  <2>2. first <= Count(e) + 1
    BY <1>4
  <2> QED BY <1>3, <1>4, <1>5, <2>1, <2>2 DEF Reading
<1> QED BY <1>6, <1>7

\* To the next long.
LEMMA SeekIs ==
  ASSUME NEW e, Count(e) \in Nat, NEW r, Reading(e, r), r.ends = "no", ~ r.sync
  PROVE  Reading(e, Seek(e, r))
<1> DEFINE longs == {i \in r.i..(Count(e) - 1) : IsLong(e, At(e, i))}
           n == Max({r.i, Count(e)})
           m == Min(longs)
           q == [r EXCEPT !.i = m]
           f == [r EXCEPT !.ends = "buffer", !.i = n]
<1>1. /\ DOMAIN r = {"i", "start", "bit", "sync", "bits", "ends"}
      /\ r.i \in Nat /\ r.i <= Count(e) + 1 /\ (r.sync => r.i <= Count(e))
      /\ r.start \in Nat /\ r.start <= Count(e)
      /\ r.bit \in 0..1 /\ r.sync \in BOOLEAN /\ r.bits \in Bits
      /\ r.ends = "bits" => Len(r.bits) >= McMinBitLen
  BY DEF Reading
<1>2. Seek(e, r) = IF longs = {} THEN f ELSE Synchronise(e, q)
  BY Zenon DEF Seek
<1>3. Reading(e, f)
  <2>1. n \in Nat /\ n <= Count(e) + 1
    BY <1>1, MaxOfTwo
  <2> HIDE DEF n
  <2>2. /\ DOMAIN f = {"i", "start", "bit", "sync", "bits", "ends"}
        /\ f.i = n /\ f.start = r.start /\ f.bit = r.bit /\ f.sync = r.sync /\ f.bits = r.bits
        /\ f.ends = "buffer"
    BY <1>1
  <2> HIDE DEF f
  <2> QED BY <1>1, <2>1, <2>2 DEF Reading
<1>4. CASE longs # {}
  <2>1. m \in Nat /\ m < Count(e)
    <3>1. longs \in SUBSET Nat /\ longs # {}
      BY <1>1, <1>4
    <3>2. Min(longs) \in longs
      BY <3>1, MinIs
    <3> QED BY <1>1, <3>2
  <2> HIDE DEF m
  <2>2. /\ DOMAIN q = {"i", "start", "bit", "sync", "bits", "ends"}
        /\ q.i = m /\ q.start = r.start /\ q.bit = r.bit /\ q.sync = r.sync /\ q.bits = r.bits
        /\ q.ends = r.ends
    BY <1>1
  <2> HIDE DEF q
  <2>3. m <= Count(e) + 1 /\ m <= Count(e)
    BY <2>1
  <2>4. Reading(e, q)
    BY <1>1, <2>1, <2>2, <2>3 DEF Reading
  <2>5. Reading(e, Synchronise(e, q))
    BY <2>1, <2>2, <2>4, SynchroniseIs
  <2> HIDE DEF f, longs
  <2> QED BY <1>2, <1>4, <2>5
<1> HIDE DEF f, q, longs
<1> QED BY <1>2, <1>3, <1>4

\* One step.
LEMMA DecodeBitIs ==
  ASSUME NEW e, Count(e) \in Nat, NEW r, Reading(e, r)
  PROVE  Reading(e, DecodeBit(e, r))
<1> DEFINE flipped == 1 - r.bit
<1>1. /\ DOMAIN r = {"i", "start", "bit", "sync", "bits", "ends"}
      /\ r.i \in Nat /\ r.i <= Count(e) + 1 /\ (r.sync => r.i <= Count(e))
      /\ r.start \in Nat /\ r.start <= Count(e)
      /\ r.bit \in 0..1 /\ r.sync \in BOOLEAN /\ r.bits \in Bits
      /\ r.ends = "bits" => Len(r.bits) >= McMinBitLen
  BY DEF Reading
<1>2. ASSUME r.ends = "no", ~ r.sync PROVE Reading(e, Seek(e, r))
  BY <1>2, SeekIs
<1>3. ASSUME r.ends = "no", r.sync, Long(e, r) PROVE Reading(e, LongBit(r))
  <2> DEFINE bits == AddBits(r.bits, flipped, 1)
             f == LongBit(r)
  <2>1. f = [r EXCEPT !.i = r.i + 1, !.bit = flipped, !.bits = bits]
    BY Zenon DEF LongBit
  <2>2. flipped \in 0..1
    BY <1>1
  <2> HIDE DEF flipped, f
  <2>3. bits \in Bits
    BY <1>1, <2>2, AddBitsIs
  <2> HIDE DEF bits
  <2>4. /\ DOMAIN f = {"i", "start", "bit", "sync", "bits", "ends"}
        /\ f.i = r.i + 1 /\ f.start = r.start /\ f.bit = flipped /\ f.sync = r.sync /\ f.bits = bits
        /\ f.ends = r.ends
    BY <1>1, <2>1
  <2>5. r.i + 1 \in Nat /\ r.i + 1 <= Count(e) /\ r.i + 1 <= Count(e) + 1
    BY <1>1, <1>3 DEF Long
  <2>6. Reading(e, f)
    BY <1>1, <1>3, <2>2, <2>3, <2>4, <2>5 DEF Reading
  <2> QED BY <2>6 DEF f
<1>4. ASSUME r.ends = "no", r.sync, Pair(e, r) PROVE Reading(e, ShortBit(r))
  <2> DEFINE bits == AddBits(r.bits, r.bit, 1)
             f == ShortBit(r)
  <2>1. f = [r EXCEPT !.i = r.i + 2, !.bits = bits]
    BY Zenon DEF ShortBit
  <2> HIDE DEF f
  <2>2. bits \in Bits
    BY <1>1, AddBitsIs
  <2> HIDE DEF bits
  <2>3. /\ DOMAIN f = {"i", "start", "bit", "sync", "bits", "ends"}
        /\ f.i = r.i + 2 /\ f.start = r.start /\ f.bit = r.bit /\ f.sync = r.sync /\ f.bits = bits
        /\ f.ends = r.ends
    BY <1>1, <2>1
  <2>4. r.i + 2 \in Nat /\ r.i + 2 <= Count(e) /\ r.i + 2 <= Count(e) + 1
    BY <1>1, <1>4 DEF Pair
  <2>5. Reading(e, f)
    BY <1>1, <1>4, <2>2, <2>3, <2>4 DEF Reading
  <2> QED BY <2>5 DEF f
<1>5. ASSUME r.ends = "no", r.sync PROVE Reading(e, StartAgain(r))
  <2> DEFINE f == StartAgain(r)
  <2>1. /\ DOMAIN f = {"i", "start", "bit", "sync", "bits", "ends"}
        /\ f.i = r.i + 1 /\ f.start = r.start /\ f.bit = r.bit /\ f.sync = FALSE /\ f.bits = <<>>
        /\ f.ends = r.ends
    BY <1>1 DEF StartAgain
  <2> HIDE DEF f
  <2>2. <<>> \in Bits
    BY DEF Bits, McMaxBits
  <2>3. r.i + 1 \in Nat /\ r.i + 1 <= Count(e) + 1
    BY <1>1, <1>5
  <2>4. Reading(e, f)
    BY <1>1, <1>5, <2>1, <2>2, <2>3 DEF Reading
  <2> QED BY <2>4 DEF f
<1>6. ASSUME ~ (Len(r.bits) < McMinBitLen) PROVE Reading(e, [r EXCEPT !.ends = "bits"])
  <2> DEFINE f == [r EXCEPT !.ends = "bits"]
  <2>1. /\ DOMAIN f = {"i", "start", "bit", "sync", "bits", "ends"}
        /\ f.i = r.i /\ f.start = r.start /\ f.bit = r.bit /\ f.sync = r.sync /\ f.bits = r.bits
        /\ f.ends = "bits"
    BY <1>1
  <2> HIDE DEF f
  <2>2. Len(r.bits) \in Nat /\ Len(r.bits) >= McMinBitLen
    BY <1>1, <1>6 DEF Bits, McMinBitLen
  <2>3. Reading(e, f)
    BY <1>1, <2>1, <2>2 DEF Reading
  <2> QED BY <2>3 DEF f
<1> QED BY <1>2, <1>3, <1>4, <1>5, <1>6, Zenon DEF DecodeBit

\* Several steps.
LEMMA Bits2Is ==
  ASSUME NEW e, Count(e) \in Nat, NEW r, Reading(e, r)
  PROVE  Reading(e, Bits2(e, r))
<1> DEFINE a == DecodeBit(e, r)
<1>1. Bits2(e, r) = DecodeBit(e, a)
  BY DEF Bits2
<1> HIDE DEF a
<1>2. Reading(e, a)
  BY DecodeBitIs DEF a
<1>3. Reading(e, DecodeBit(e, a))
  BY <1>2, DecodeBitIs
<1> QED BY <1>1, <1>3

\* Eight steps.
LEMMA Bits8Is ==
  ASSUME NEW e, Count(e) \in Nat, NEW r, Reading(e, r)
  PROVE  Reading(e, Bits8(e, r))
<1> DEFINE a == Bits2(e, r)
           b == Bits2(e, a)
           c == Bits2(e, b)
<1>1. Bits8(e, r) = r \/ Bits8(e, r) = Bits2(e, c)
  BY DEF Bits8
<1> HIDE DEF a, b, c
<1>2. Reading(e, a)
  BY Bits2Is DEF a
<1>3. Reading(e, b)
  BY <1>2, Bits2Is DEF b
<1>4. Reading(e, c)
  BY <1>3, Bits2Is DEF c
<1>5. Reading(e, Bits2(e, c))
  BY <1>4, Bits2Is
<1> QED BY <1>1, <1>5

\* Eight times as many.
LEMMA Bits64Is ==
  ASSUME NEW e, Count(e) \in Nat, NEW r, Reading(e, r)
  PROVE  Reading(e, Bits64(e, r))
<1> DEFINE a == Bits8(e, r)
           b == Bits8(e, a)
           c == Bits8(e, b)
           f == Bits8(e, c)
           g == Bits8(e, f)
           m == Bits8(e, g)
           n == Bits8(e, m)
<1>1. Bits64(e, r) = r \/ Bits64(e, r) = Bits8(e, n)
  BY DEF Bits64
<1> HIDE DEF a, b, c, f, g, m, n
<1>2. Reading(e, a)
  BY Bits8Is DEF a
<1>3. Reading(e, b)
  BY <1>2, Bits8Is DEF b
<1>4. Reading(e, c)
  BY <1>3, Bits8Is DEF c
<1>5. Reading(e, f)
  BY <1>4, Bits8Is DEF f
<1>6. Reading(e, g)
  BY <1>5, Bits8Is DEF g
<1>7. Reading(e, m)
  BY <1>6, Bits8Is DEF m
<1>8. Reading(e, n)
  BY <1>7, Bits8Is DEF n
<1>9. Reading(e, Bits8(e, n))
  BY <1>8, Bits8Is
<1> QED BY <1>1, <1>9

\* All of them.
LEMMA DecodeBitsIs ==
  ASSUME NEW e, Count(e) \in Nat, NEW r, Reading(e, r)
  PROVE  Reading(e, DecodeBits(e, r))
<1> DEFINE a == Bits64(e, r)
           b == Bits64(e, a)
           c == Bits64(e, b)
           f == Bits64(e, c)
           g == Bits64(e, f)
           m == Bits64(e, g)
           n == Bits64(e, m)
<1>1. DecodeBits(e, r) = Bits64(e, n)
  BY DEF DecodeBits
<1> HIDE DEF a, b, c, f, g, m, n
<1>2. Reading(e, a)
  BY Bits64Is DEF a
<1>3. Reading(e, b)
  BY <1>2, Bits64Is DEF b
<1>4. Reading(e, c)
  BY <1>3, Bits64Is DEF c
<1>5. Reading(e, f)
  BY <1>4, Bits64Is DEF f
<1>6. Reading(e, g)
  BY <1>5, Bits64Is DEF g
<1>7. Reading(e, m)
  BY <1>6, Bits64Is DEF m
<1>8. Reading(e, n)
  BY <1>7, Bits64Is DEF n
<1>9. Reading(e, Bits64(e, n))
  BY <1>8, Bits64Is
<1> QED BY <1>1, <1>9

\* Reading has ended, or has taken so many steps that it is this far: every other one at least goes
\* on in the buffer.
Took(r, n) == r.ends # "no" \/ 2 * r.i + (IF r.sync THEN 1 ELSE 0) >= n

\* The next long is not before the place.
LEMMA SynchroniseGoesOn ==
  ASSUME NEW e, Count(e) \in Nat, NEW r, Reading(e, r)
  PROVE  Synchronise(e, r).sync /\ Synchronise(e, r).i \in Nat /\ Synchronise(e, r).i >= r.i
<1> DEFINE second == IF At(e, r.i) = e.mc.longhigh THEN 0 ELSE 1
           joined == IF second = 0 THEN Below(e, At(e, r.i - 1)) ELSE Above(e, At(e, r.i - 1))
           bit == IF joined THEN 1 - second ELSE second
           first == IF joined THEN r.i ELSE r.i + 1
           bits == AddBits(r.bits, bit, 1 + Before(e, r.i, bit))
<1> SUFFICES ASSUME NEW f, f = Synchronise(e, r) PROVE f.sync /\ f.i \in Nat /\ f.i >= r.i
  OBVIOUS
<1>1. f = IF r.i = 0 THEN [r EXCEPT !.sync = TRUE, !.start = 0, !.bit = 1 - second]
          ELSE [r EXCEPT !.sync = TRUE, !.start = first, !.i = first, !.bit = bit, !.bits = bits]
  BY DEF Synchronise
<1>2. r.i \in Nat /\ first \in Nat /\ first >= r.i
  BY DEF Reading
<1>3. DOMAIN r = {"i", "start", "bit", "sync", "bits", "ends"}
  BY DEF Reading
<1> HIDE DEF second, joined, bit, first, bits
<1>4. f.sync = TRUE /\ (f.i = r.i \/ f.i = first)
  BY <1>1, <1>3
<1> QED BY <1>2, <1>4

\* A step goes on, or finds the next long.
LEMMA DecodeBitGoesOn ==
  ASSUME NEW e, Count(e) \in Nat, NEW r, Reading(e, r), NEW n \in Nat, Took(r, n)
  PROVE  Took(DecodeBit(e, r), n + 1)
<1>1. /\ DOMAIN r = {"i", "start", "bit", "sync", "bits", "ends"}
      /\ r.i \in Nat /\ r.i <= Count(e) + 1 /\ r.sync \in BOOLEAN
  BY DEF Reading
<1>2. ASSUME r.ends # "no" PROVE Took(r, n + 1)
  BY <1>2 DEF Took
<1>3. ASSUME r.ends = "no", ~ r.sync PROVE Took(Seek(e, r), n + 1)
  <2> DEFINE longs == {i \in r.i..(Count(e) - 1) : IsLong(e, At(e, i))}
             m == Min(longs)
             q == [r EXCEPT !.i = m]
             f == [r EXCEPT !.ends = "buffer", !.i = Max({r.i, Count(e)})]
             g == Synchronise(e, q)
  <2>1. Seek(e, r) = IF longs = {} THEN f ELSE g
    BY Zenon DEF Seek
  <2>2. Took(f, n + 1)
    <3>1. f.ends = "buffer"
      BY <1>1
    <3> HIDE DEF f
    <3> QED BY <3>1 DEF Took
  <2>3. CASE longs # {}
    <3>1. m \in Nat /\ m < Count(e) /\ m >= r.i
      <4>1. longs \in SUBSET Nat /\ longs # {}
        BY <1>1, <2>3
      <4>2. Min(longs) \in longs
        BY <4>1, MinIs
      <4> QED BY <1>1, <4>2
    <3> HIDE DEF m
    <3>2. /\ DOMAIN q = {"i", "start", "bit", "sync", "bits", "ends"}
          /\ q.i = m /\ q.start = r.start /\ q.bit = r.bit /\ q.sync = r.sync /\ q.bits = r.bits
          /\ q.ends = r.ends
      BY <1>1
    <3> HIDE DEF q
    <3>3. m <= Count(e) + 1 /\ m <= Count(e)
      BY <3>1
    <3>4. Reading(e, q)
      BY <1>1, <3>1, <3>2, <3>3 DEF Reading
    <3>5. g.sync /\ g.i \in Nat /\ g.i >= m
      BY <3>2, <3>4, SynchroniseGoesOn
    <3> HIDE DEF f, g, longs
    <3>6. 2 * r.i >= n
      <4>1. r.ends = "no" /\ r.sync = FALSE /\ r.i \in Nat
        BY <1>1, <1>3
      <4>2. Took(r, n)
        OBVIOUS
      <4> HIDE DEF m, q
      <4> QED BY <4>1, <4>2 DEF Took
    <3>7. 2 * g.i + 1 >= n + 1
      BY <1>1, <3>1, <3>5, <3>6
    <3>8. Took(g, n + 1)
      BY <3>5, <3>7 DEF Took
    <3> QED BY <2>1, <2>3, <3>8
  <2> HIDE DEF f, g, longs
  <2> QED BY <2>1, <2>2, <2>3
<1>4. ASSUME r.ends = "no", r.sync
      PROVE  Took(LongBit(r), n + 1) /\ Took(ShortBit(r), n + 1) /\ Took(StartAgain(r), n + 1)
  <2> DEFINE a == LongBit(r)
             b == ShortBit(r)
             c == StartAgain(r)
  <2>1. 2 * r.i + 1 >= n
    BY <1>4 DEF Took
  <2>2. /\ a.i = r.i + 1 /\ a.sync = r.sync /\ b.i = r.i + 2 /\ b.sync = r.sync
        /\ c.i = r.i + 1 /\ c.sync = FALSE
    BY <1>1 DEF LongBit, ShortBit, StartAgain
  <2>3. 2 * (r.i + 1) >= n + 1 /\ 2 * (r.i + 1) + 1 >= n + 1 /\ 2 * (r.i + 2) + 1 >= n + 1
    BY <1>1, <2>1
  <2> HIDE DEF a, b, c
  <2>4. Took(a, n + 1) /\ Took(b, n + 1) /\ Took(c, n + 1)
    <3>1. Took(a, n + 1)
      BY <1>4, <2>2, <2>3 DEF Took
    <3>2. Took(b, n + 1)
      BY <1>4, <2>2, <2>3 DEF Took
    <3>3. Took(c, n + 1)
      BY <1>1, <2>2, <2>3 DEF Took
    <3> QED BY <3>1, <3>2, <3>3
  <2> QED BY <2>4 DEF a, b, c
<1>5. Took([r EXCEPT !.ends = "bits"], n + 1)
  <2> DEFINE f == [r EXCEPT !.ends = "bits"]
  <2>1. f.ends = "bits"
    BY <1>1
  <2> HIDE DEF f
  <2>2. Took(f, n + 1)
    BY <2>1 DEF Took
  <2> QED BY <2>2 DEF f
<1> QED BY <1>2, <1>3, <1>4, <1>5, Zenon DEF DecodeBit

\* Two steps.
LEMMA Bits2GoesOn ==
  ASSUME NEW e, Count(e) \in Nat, NEW r, Reading(e, r), NEW n \in Nat, Took(r, n)
  PROVE  Took(Bits2(e, r), n + 2)
<1> DEFINE a == DecodeBit(e, r)
           f == DecodeBit(e, a)
<1>1. Bits2(e, r) = f
  BY DEF Bits2
<1>2. Reading(e, a) /\ Took(a, n + 1)
  BY DecodeBitIs, DecodeBitGoesOn
<1> HIDE DEF a
<1>3. n + 1 \in Nat /\ (n + 1) + 1 = n + 2
  OBVIOUS
<1>4. Took(f, (n + 1) + 1)
  BY <1>2, <1>3, DecodeBitGoesOn
<1> HIDE DEF f
<1> QED BY <1>1, <1>3, <1>4

\* Eight steps.
LEMMA Bits8GoesOn ==
  ASSUME NEW e, Count(e) \in Nat, NEW r, Reading(e, r), NEW n \in Nat, Took(r, n)
  PROVE  Took(Bits8(e, r), n + 8)
<1> DEFINE a == Bits2(e, r)
           b == Bits2(e, a)
           c == Bits2(e, b)
           f == Bits2(e, c)
<1>1. CASE r.ends # "no"
  <2>1. Bits8(e, r) = r
    BY <1>1 DEF Bits8
  <2> QED BY <1>1, <2>1 DEF Took
<1>2. CASE r.ends = "no"
  <2>1. Bits8(e, r) = f
    BY <1>2 DEF Bits8
  <2>2. Reading(e, a) /\ Took(a, n + 2)
    BY Bits2Is, Bits2GoesOn
  <2> HIDE DEF a
  <2>3. Reading(e, b) /\ Took(b, (n + 2) + 2)
    <3>1. n + 2 \in Nat
      OBVIOUS
    <3> QED BY <2>2, <3>1, Bits2Is, Bits2GoesOn
  <2> HIDE DEF b
  <2>4. Reading(e, c) /\ Took(c, ((n + 2) + 2) + 2)
    <3>1. (n + 2) + 2 \in Nat
      OBVIOUS
    <3> QED BY <2>3, <3>1, Bits2Is, Bits2GoesOn
  <2> HIDE DEF c
  <2>5. Took(f, (((n + 2) + 2) + 2) + 2)
    <3>1. ((n + 2) + 2) + 2 \in Nat
      OBVIOUS
    <3> QED BY <2>4, <3>1, Bits2GoesOn
  <2> HIDE DEF f
  <2>6. (((n + 2) + 2) + 2) + 2 = n + 8
    OBVIOUS
  <2> QED BY <2>1, <2>5, <2>6
<1> QED BY <1>1, <1>2

\* Eight times as many.
LEMMA Bits64GoesOn ==
  ASSUME NEW e, Count(e) \in Nat, NEW r, Reading(e, r), NEW n \in Nat, Took(r, n)
  PROVE  Took(Bits64(e, r), n + 64)
<1> DEFINE a == Bits8(e, r)
           b == Bits8(e, a)
           c == Bits8(e, b)
           f == Bits8(e, c)
           g == Bits8(e, f)
           h == Bits8(e, g)
           k == Bits8(e, h)
           m == Bits8(e, k)
<1>1. CASE r.ends # "no"
  <2>1. Bits64(e, r) = r
    BY <1>1 DEF Bits64
  <2> QED BY <1>1, <2>1 DEF Took
<1>2. CASE r.ends = "no"
  <2>1. Bits64(e, r) = m
    BY <1>2 DEF Bits64
  <2>2. ASSUME NEW s, Reading(e, s), NEW x \in Nat, Took(s, n + x)
        PROVE  Reading(e, Bits8(e, s)) /\ Took(Bits8(e, s), n + (x + 8))
    <3>1. n + x \in Nat /\ (n + x) + 8 = n + (x + 8)
      BY <2>2
    <3>2. Took(Bits8(e, s), (n + x) + 8)
      BY <2>2, <3>1, Bits8GoesOn
    <3> QED BY <2>2, <3>1, <3>2, Bits8Is
  <2>3. Reading(e, a) /\ Took(a, n + 8)
    BY Bits8Is, Bits8GoesOn
  <2> HIDE DEF a
  <2>4. Reading(e, b) /\ Took(b, n + (8 + 8))
    BY <2>2, <2>3
  <2> HIDE DEF b
  <2>5. Reading(e, c) /\ Took(c, n + (16 + 8))
    BY <2>2, <2>4
  <2> HIDE DEF c
  <2>6. Reading(e, f) /\ Took(f, n + (24 + 8))
    BY <2>2, <2>5
  <2> HIDE DEF f
  <2>7. Reading(e, g) /\ Took(g, n + (32 + 8))
    BY <2>2, <2>6
  <2> HIDE DEF g
  <2>8. Reading(e, h) /\ Took(h, n + (40 + 8))
    BY <2>2, <2>7
  <2> HIDE DEF h
  <2>9. Reading(e, k) /\ Took(k, n + (48 + 8))
    BY <2>2, <2>8
  <2> HIDE DEF k
  <2>10. Took(m, n + (56 + 8))
    BY <2>2, <2>9
  <2> HIDE DEF m
  <2> QED BY <2>1, <2>10
<1> QED BY <1>1, <1>2

\* All of them are enough: reading ends, whatever is in the buffer (doDecode's loop does).
THEOREM ReadingEnds ==
  ASSUME NEW e, Count(e) \in Nat, Count(e) <= MaxMsgSize, NEW r, Reading(e, r)
  PROVE  DecodeBits(e, r).ends # "no"
<1> DEFINE a == Bits64(e, r)
           b == Bits64(e, a)
           c == Bits64(e, b)
           f == Bits64(e, c)
           g == Bits64(e, f)
           h == Bits64(e, g)
           k == Bits64(e, h)
           m == Bits64(e, k)
<1>1. DecodeBits(e, r) = m
  BY DEF DecodeBits
<1>2. ASSUME NEW s, Reading(e, s), NEW x \in Nat, Took(s, x)
      PROVE  Reading(e, Bits64(e, s)) /\ Took(Bits64(e, s), x + 64)
  BY <1>2, Bits64Is, Bits64GoesOn
<1>3. Took(r, 0)
  BY DEF Took, Reading
<1>4. Reading(e, a) /\ Took(a, 0 + 64)
  BY <1>2, <1>3
<1> HIDE DEF a
<1>5. Reading(e, b) /\ Took(b, 64 + 64)
  BY <1>2, <1>4
<1> HIDE DEF b
<1>6. Reading(e, c) /\ Took(c, 128 + 64)
  BY <1>2, <1>5
<1> HIDE DEF c
<1>7. Reading(e, f) /\ Took(f, 192 + 64)
  BY <1>2, <1>6
<1> HIDE DEF f
<1>8. Reading(e, g) /\ Took(g, 256 + 64)
  BY <1>2, <1>7
<1> HIDE DEF g
<1>9. Reading(e, h) /\ Took(h, 320 + 64)
  BY <1>2, <1>8
<1> HIDE DEF h
<1>10. Reading(e, k) /\ Took(k, 384 + 64)
  BY <1>2, <1>9
<1> HIDE DEF k
<1>11. Reading(e, m) /\ Took(m, 448 + 64)
  BY <1>2, <1>10
<1> HIDE DEF m
<1>12. /\ m.i \in Nat /\ m.i <= 255 /\ (m.sync => m.i <= 254) /\ m.sync \in BOOLEAN
  BY <1>11 DEF Reading
<1>13. ASSUME m.ends = "no" PROVE FALSE
  <2>1. CASE m.sync
    <3>1. 2 * m.i + 1 >= 512
      BY <1>11, <1>13, <2>1 DEF Took
    <3> QED BY <1>12, <2>1, <3>1
  <2>2. CASE ~ m.sync
    <3>1. 2 * m.i >= 512
      BY <1>11, <1>12, <1>13, <2>2 DEF Took
    <3> QED BY <1>12, <3>1
  <2> QED BY <2>1, <2>2
<1> QED BY <1>1, <1>13

-----------------------------------------------------------------------------
(* What Manchester decoding leaves.                                         *)

\* The clock is what it was.
SameClock(e, f) ==
  /\ f.message = e.message /\ f.pattern = e.pattern /\ f.patternLen = e.patternLen
  /\ f.clock = e.clock

\* The bits were read: the message was cut only if there are enough of them.
Decodes(e, f) ==
  /\ Advances(e, f) /\ Kept(f)
  /\ f.success => e.success
  /\ f.state \in {e.state, "searching", "mcdecoding"}
  /\ f.mcDetected \/ Len(f.mc.bits) >= McMinBitLen \/ SameClock(e, f)

\* What is kept of the bits for the next time.
LEMMA StoredIs ==
  ASSUME NEW e, Sound(e), heard \in Seq(Pulses), NEW r, Reading(e, r), NEW f, f = Stored(e, r)
  PROVE  /\ Sound(f) /\ SameBut(e, f, {"mstart", "bit", "mc"}) /\ f.mc.bits = r.bits
         /\ f.out = e.out /\ Count(f) = Count(e) /\ Gone(f, heard) = Gone(e, heard)
<1> DEFINE m == [e.mc EXCEPT !.sync = r.sync, !.bits = r.bits]
<1>1. DOMAIN e = Fields /\ McTyped(e.mc)
  BY DEF Sound, Typed, McTyped
<1>2. r.bit \in 0..1 /\ r.sync \in BOOLEAN /\ r.bits \in Bits /\ r.start \in 0..254
  <2>1. r.start \in Nat /\ r.start <= 254
    BY Numbers DEF Reading
  <2> QED BY <2>1, RangesAre DEF Reading
<1>3. f = [e EXCEPT !.mstart = r.start, !.bit = r.bit, !.mc = m]
  BY DEF Stored
<1>4. McTyped(m) /\ m.bits = r.bits
  BY <1>1, <1>2 DEF McTyped, McFields
<1> HIDE DEF m
<1>5. /\ SameBut(e, f, {"mstart", "bit", "mc"})
      /\ f["mstart"] = r.start /\ f["bit"] = r.bit /\ f.mc = m
  BY <1>1, <1>3, SortedAre DEF SameBut, Fields
<1>6. f.mcDetected = e.mcDetected /\ f.state = e.state
  BY <1>5, SortedAre DEF SameBut, Fields
<1>7. Continued(f)
  BY <1>6 DEF Sound, Continued
<1>8. f["mstart"] \in Sorts["mstart"] /\ f["bit"] \in Sorts["bit"]
  BY <1>2, <1>5, SortsAre
<1>9. /\ {"mstart", "bit"} \in SUBSET Sorted /\ \A x \in {"mstart", "bit"} : f[x] \in Sorts[x]
      /\ {"mstart", "bit"} \intersect {"message", "pattern", "patternLen", "patternPos"} = {}
  BY <1>8, SortedAre
<1>10. SameBut(e, f, {"mstart", "bit"} \union {"mc"})
  BY <1>5 DEF SameBut
<1>11. /\ Sound(f) /\ f.message = e.message /\ Count(f) = Count(e)
       /\ Gone(f, heard) = Gone(e, heard) /\ f.out = e.out
  <2> DEFINE changed == {"mstart", "bit"}
  <2>1. McTyped(f.mc)
    BY <1>4, <1>5
  <2>2. /\ changed \in SUBSET Sorted /\ \A x \in changed : f[x] \in Sorts[x]
        /\ changed \intersect {"message", "pattern", "patternLen", "patternPos"} = {}
        /\ SameBut(e, f, changed \union {"mc"})
    BY <1>9, <1>10
  <2> HIDE DEF changed
  <2> QED BY <1>7, <2>1, <2>2, McStaysSound
<1> QED BY <1>4, <1>5, <1>11

\* The bits end before the message does.
LEMMA EndBitsIs ==
  ASSUME NEW e, Sound(e), heard \in Seq(Pulses), NEW i \in Nat, i <= 255,
         Len(e.mc.bits) >= McMinBitLen
  PROVE  Decodes(e, EndBits(e, i))
<1> DEFINE full == i = MaxMsgSize - 1 /\ i = Count(e) - 1
           gap == IF full THEN [places |-> 0, gap |-> FALSE] ELSE Gap(e, i)
           s == IF full \/ gap.gap THEN "mcdecoding" ELSE e.state
           a == [e EXCEPT !.mend = i, !.mcDetected = full, !.state = s]
           f == BufferMove(a, i + gap.places)
<1>1. EndBits(e, i) = f
  BY DEF EndBits
<1>2. gap.places \in Nat
  BY DEF Gap
<1>3. s \in {e.state, "mcdecoding"} /\ full \in BOOLEAN /\ (full => s = "mcdecoding")
  OBVIOUS
<1> HIDE DEF gap, full, s
<1>4. DOMAIN e = Fields /\ e.state \in States
  BY FieldTypes DEF Sound, Typed
<1>5. /\ SameBut(e, a, {"mend", "mcDetected", "state"})
      /\ a["mend"] = i /\ a["mcDetected"] = full /\ a["state"] = s
  BY <1>4, SortedAre DEF SameBut, Fields
<1> HIDE DEF a
<1>6. /\ a["mend"] \in Sorts["mend"] /\ a["mcDetected"] \in Sorts["mcDetected"]
      /\ a["state"] \in Sorts["state"]
  <2>1. i \in 0..255
    BY EndIs
  <2>2. s \in States
    BY <1>3, <1>4 DEF States
  <2> QED BY <1>3, <1>5, <2>1, <2>2, SortsAre
<1>7. /\ {"mend", "mcDetected", "state"} \in SUBSET Sorted
      /\ \A x \in {"mend", "mcDetected", "state"} : a[x] \in Sorts[x]
      /\ {"mend", "mcDetected", "state"}
           \intersect {"message", "pattern", "patternLen", "patternPos"} = {}
  BY <1>6, SortedAre
<1>8. Continued(a)
  BY <1>3, <1>5 DEF Continued
<1>9. /\ Sound(a) /\ a.message = e.message /\ Gone(a, heard) = Gone(e, heard) /\ a.out = e.out
  BY <1>5, <1>7, <1>8, StaysSound
<1>10. a.mc = e.mc /\ a.success = e.success
  BY <1>5, SortedAre DEF SameBut, Fields
<1>11. i + gap.places \in Nat
  BY <1>2
<1>12. MovesTo(a, i + gap.places, f)
  BY <1>9, <1>11, MoveIs
<1> HIDE DEF f
<1>13. Advances(e, f)
  BY <1>9, <1>12 DEF MovesTo, Advances
<1>14. f.mc = e.mc /\ Kept(f) /\ (f.success => e.success)
  BY <1>10, <1>12 DEF MovesTo
<1>15. f.state \in {e.state, "searching", "mcdecoding"}
  BY <1>3, <1>5, <1>12 DEF MovesTo
<1> QED BY <1>1, <1>13, <1>14, <1>15 DEF Decodes

\* They end with it.
LEMMA EndBufferIs ==
  ASSUME NEW e, Sound(e), heard \in Seq(Pulses), ~ e.truncated, NEW i \in Nat, i <= 255
  PROVE  Decodes(e, EndBuffer(e, i))
<1> SUFFICES ASSUME NEW f, f = EndBuffer(e, i) PROVE Decodes(e, f)
  OBVIOUS
<1>1. DOMAIN e = Fields /\ e.state \in States /\ e.truncated = FALSE
  BY FieldTypes DEF Sound, Typed
<1>2. i \in 0..255 /\ Gone(e, heard) \in Nat
  BY EndIs, Numbers
<1>3. CASE f = [e EXCEPT !.mend = i, !.mcDetected = TRUE, !.state = "mcdecoding"]
  <2>1. /\ SameBut(e, f, {"mend", "mcDetected", "state"})
        /\ f["mend"] = i /\ f["mcDetected"] = TRUE /\ f["state"] = "mcdecoding"
    BY <1>1, <1>3, SortedAre DEF SameBut, Fields
  <2>2. /\ f["mend"] \in Sorts["mend"] /\ f["mcDetected"] \in Sorts["mcDetected"]
        /\ f["state"] \in Sorts["state"]
    <3>1. f["mcDetected"] \in Sorts["mcDetected"]
      BY <2>1, SortsAre
    <3>2. f["mend"] \in Sorts["mend"]
      BY <1>2, <2>1, SortsAre
    <3>3. f["state"] \in Sorts["state"]
      BY <2>1, SortsAre DEF States
    <3> QED BY <3>1, <3>2, <3>3
  <2>3. /\ {"mend", "mcDetected", "state"} \in SUBSET Sorted
        /\ \A x \in {"mend", "mcDetected", "state"} : f[x] \in Sorts[x]
        /\ {"mend", "mcDetected", "state"}
             \intersect {"message", "pattern", "patternLen", "patternPos"} = {}
    BY <2>2, SortedAre
  <2>4. Continued(f)
    BY <2>1 DEF Continued
  <2>5. Sound(f) /\ Gone(f, heard) = Gone(e, heard) /\ f.out = e.out
    BY <2>1, <2>3, <2>4, StaysSound
  <2>6. f.truncated = FALSE /\ f.success = e.success
    BY <1>1, <2>1, SortedAre DEF SameBut, Fields
  <2>7. Advances(e, f)
    BY <1>2, <2>5 DEF Advances
  <2> QED BY <2>1, <2>6, <2>7 DEF Decodes, Kept
<1>4. CASE f = [e EXCEPT !.mend = i, !.truncated = FALSE]
  <2>1. /\ SameBut(e, f, {"mend", "truncated"}) /\ f["mend"] = i /\ f["truncated"] = FALSE
    BY <1>1, <1>4, SortedAre DEF SameBut, Fields
  <2>2. f["mend"] \in Sorts["mend"] /\ f["truncated"] \in Sorts["truncated"]
    <3>1. f["truncated"] \in Sorts["truncated"]
      BY <2>1, SortsAre
    <3>2. f["mend"] \in Sorts["mend"]
      BY <1>2, <2>1, SortsAre
    <3> QED BY <3>1, <3>2
  <2>3. /\ {"mend", "truncated"} \in SUBSET Sorted
        /\ \A x \in {"mend", "truncated"} : f[x] \in Sorts[x]
        /\ {"mend", "truncated"} \intersect {"message", "pattern", "patternLen", "patternPos"} = {}
    BY <2>2, SortedAre
  <2>4. /\ f.mcDetected = e.mcDetected /\ f.state = e.state /\ f.success = e.success
        /\ SameClock(e, f)
    BY <2>1, SortedAre DEF SameBut, Fields, SameClock
  <2>5. Continued(f)
    BY <2>4 DEF Continued, Sound
  <2>6. Sound(f) /\ Gone(f, heard) = Gone(e, heard) /\ f.out = e.out
    BY <2>1, <2>3, <2>5, StaysSound
  <2>7. Advances(e, f)
    BY <1>2, <2>6 DEF Advances
  <2> QED BY <2>1, <2>4, <2>7 DEF Decodes, Kept
<1>5. \/ f = [e EXCEPT !.mend = i, !.mcDetected = TRUE, !.state = "mcdecoding"]
      \/ f = [e EXCEPT !.mend = i, !.truncated = FALSE]
  BY <1>1 DEF EndBuffer
<1> QED BY <1>3, <1>4, <1>5

\* doDecode.
LEMMA DoDecodeIs ==
  ASSUME NEW e, Sound(e), heard \in Seq(Pulses)
  PROVE  Decodes(e, DoDecode(e))
<1> DEFINE a == [e EXCEPT !.truncated = FALSE, !.mstart = 0, !.mcDetected = FALSE]
           r == DecodeBits(a, FirstPlace(a))
           b == Stored(a, r)
           f == DoDecode(e)
<1>0. Count(e) \in Nat /\ Count(e) <= 254 /\ Gone(e, heard) \in Nat
  BY Numbers
<1>1. f = IF r.ends = "bits" THEN EndBits(b, r.i) ELSE EndBuffer(b, r.i)
  BY DEF DoDecode, Decoded
<1>2. DOMAIN e = Fields
  BY DEF Sound, Typed
<1>3. /\ SameBut(e, a, {"truncated", "mstart", "mcDetected"})
      /\ a["truncated"] = FALSE /\ a["mstart"] = 0 /\ a["mcDetected"] = FALSE
  BY <1>2, SortedAre DEF SameBut, Fields
<1> HIDE DEF a
<1>4. Sound(a) /\ a.message = e.message /\ Count(a) = Count(e)
      /\ Gone(a, heard) = Gone(e, heard) /\ a.out = e.out
  <2>1. /\ a["truncated"] \in Sorts["truncated"] /\ a["mstart"] \in Sorts["mstart"]
        /\ a["mcDetected"] \in Sorts["mcDetected"]
    <3>1. a["truncated"] \in Sorts["truncated"]
      BY <1>3, SortsAre
    <3>2. a["mcDetected"] \in Sorts["mcDetected"]
      BY <1>3, SortsAre
    <3>3. a["mstart"] \in Sorts["mstart"]
      BY <1>3, SortsAre
    <3> QED BY <3>1, <3>2, <3>3
  <2>2. /\ {"truncated", "mstart", "mcDetected"} \in SUBSET Sorted
        /\ \A x \in {"truncated", "mstart", "mcDetected"} : a[x] \in Sorts[x]
        /\ {"truncated", "mstart", "mcDetected"}
             \intersect {"message", "pattern", "patternLen", "patternPos"} = {}
    BY <2>1, SortedAre
  <2>3. Continued(a)
    BY <1>3 DEF Continued
  <2> QED BY <1>3, <2>2, <2>3, StaysSound
<1>5. SameClock(e, a) /\ a.success = e.success /\ a.state = e.state
  BY <1>3, SortedAre DEF SameBut, Fields, SameClock
<1>6. Reading(a, FirstPlace(a))
  <2>1. a.bit \in 0..1 /\ a.mc.sync \in BOOLEAN /\ a.mc.bits \in Bits
    BY <1>4, FieldTypes DEF Sound, Typed
  <2>2. 0 \in Nat /\ 0 <= Count(a) /\ 0 <= Count(a) + 1
    BY <1>0, <1>4
  <2>3. FirstPlace(a).ends # "bits"
    BY DEF FirstPlace
  <2> QED BY <2>1, <2>2, <2>3 DEF Reading, FirstPlace
<1>7. Reading(a, r)
  BY <1>0, <1>4, <1>6, DecodeBitsIs
<1> HIDE DEF r
<1>8. r.i \in Nat /\ r.i <= 255 /\ (r.ends = "bits" => Len(r.bits) >= McMinBitLen)
  BY <1>0, <1>4, <1>7 DEF Reading
<1>9. /\ Sound(b) /\ SameBut(a, b, {"mstart", "bit", "mc"}) /\ b.mc.bits = r.bits
      /\ b.out = a.out /\ Count(b) = Count(a) /\ Gone(b, heard) = Gone(a, heard)
  BY <1>4, <1>7, StoredIs
<1> HIDE DEF b
<1>10. /\ SameClock(a, b) /\ b.success = a.success /\ b.state = a.state
       /\ b.truncated = a.truncated
  BY <1>9, SortedAre DEF SameBut, Fields, SameClock
<1>11. Decodes(b, f)
  <2>1. CASE r.ends = "bits"
    BY <1>1, <1>8, <1>9, <2>1, EndBitsIs
  <2>2. CASE r.ends # "bits"
    BY <1>1, <1>3, <1>8, <1>9, <1>10, <2>2, EndBufferIs
  <2> QED BY <2>1, <2>2
<1> HIDE DEF f
<1>12. /\ Advances(b, f) /\ Kept(f)
       /\ f.mcDetected \/ Len(f.mc.bits) >= McMinBitLen \/ SameClock(b, f)
  BY <1>11 DEF Decodes
<1>13. f.success => e.success
  <2>1. f.success => b.success
    BY <1>11, Zenon DEF Decodes
  <2>2. b.success = e.success
    BY <1>5, <1>10
  <2> QED BY <2>1, <2>2, Zenon
<1>14. f.state \in {e.state, "searching", "mcdecoding"}
  BY <1>5, <1>10, <1>11 DEF Decodes
<1>15. Advances(e, f)
  BY <1>4, <1>9, <1>12 DEF Advances
<1>16. SameClock(b, f) => SameClock(e, f)
  BY <1>5, <1>10 DEF SameClock
<1>17. Decodes(e, f)
  BY <1>12, <1>13, <1>14, <1>15, <1>16, Zenon DEF Decodes
<1> QED BY <1>17 DEF f

\* The message is forgotten, and not what it is made of.
LEMMA ForgetIs ==
  ASSUME NEW e, Sound(e), heard \in Seq(Pulses), e.mcDetected,
         NEW f, f = Forget(e)
  PROVE  /\ Sound(f) /\ Count(f) = 0 /\ Kept(f) /\ f.out = e.out /\ f.success = e.success
         /\ f.mcDetected /\ f.truncated /\ Gone(e, heard) <= Gone(f, heard)
<1> DEFINE s == Message!Reset(e.message)
<1>1. DOMAIN e = Fields /\ e.message \in Buffer!Stores
  BY FieldTypes DEF Sound, Typed
<1>2. s \in Buffer!Stores /\ Buffer!Clean(s) /\ s.count = 0
  BY <1>1, ResetStore
<1> HIDE DEF s
<1>3. SameBut(e, f, {"message", "truncated"}) /\ f["message"] = s /\ f["truncated"] = TRUE
  BY <1>1, SortedAre DEF SameBut, Fields, Forget, s
<1>4. Count(f) = 0 /\ Gone(f, heard) = Len(heard) /\ IsRecent(f, heard)
  BY <1>2, <1>3, EmptyIsRecent DEF Count
<1>5. Typed(f)
  <2>1. f["truncated"] \in Sorts["truncated"]
    BY <1>3, SortsAre
  <2>2. f["message"] \in Sorts["message"]
    BY <1>2, <1>3, SortsAre
  <2> DEFINE changed == {"message", "truncated"}
  <2>3. changed \in SUBSET Sorted /\ SameBut(e, f, changed)
    BY <1>3, SortedAre
  <2>4. \A x \in changed : f[x] \in Sorts[x]
    BY <2>1, <2>2
  <2> HIDE DEF changed
  <2>5. Typed(e)
    BY DEF Sound
  <2> QED BY <2>3, <2>4, <2>5, StaysTyped
<1>6. /\ f.patternLen = e.patternLen /\ f.patternPos = e.patternPos /\ f.mcDetected = e.mcDetected
      /\ f.state = e.state /\ f.out = e.out /\ f.success = e.success
  BY <1>3, SortedAre DEF SameBut, Fields
<1>7. Sound(f)
  BY <1>2, <1>3, <1>4, <1>5, <1>6 DEF Sound, Placed, Continued
<1>8. Gone(e, heard) <= Gone(f, heard)
  <2>1. Len(heard) \in Nat /\ Count(e) \in Nat /\ Gone(e, heard) = Len(heard) - Count(e)
    BY Numbers
  <2> QED BY <1>4, <2>1
<1> QED BY <1>3, <1>4, <1>6, <1>7, <1>8 DEF Kept

\* What Manchester decoding makes of a detector.
AfterMc(e, f) ==
  /\ Told(f) /\ Gone(e, heard) <= Gone(f, heard)
  /\ Kept(e) => Kept(f)
  /\ ~ f.success /\ ~ f.mcDetected /\ f.state = "clockfound" => ClockIs(f)

\* The bits are reported, or there is more to come.
LEMMA FinishMcIs ==
  ASSUME NEW g, Sound(g), heard \in Seq(Pulses), Fresh(g), Right(g), Kept(g),
         ~ g.mcDetected /\ Len(g.mc.bits) < McMinBitLen /\ g.state = "clockfound" => ClockIs(g)
  PROVE  AfterMc(g, FinishMc(g)) /\ Kept(FinishMc(g))
<1> DEFINE f == FinishMc(g)
<1>1. DOMAIN g = Fields /\ Gone(g, heard) \in Nat /\ Known(g)
  BY Numbers, FreshIsKnown DEF Sound, Typed
<1>2. CASE g.mcDetected /\ g.truncated
  <2>1. f = [g EXCEPT !.success = TRUE]
    BY <1>2 DEF FinishMc
  <2> HIDE DEF f
  <2>2. SameBut(g, f, {"success"}) /\ f["success"] = TRUE
    BY <1>1, <2>1, SortedAre DEF SameBut, Fields
  <2>3. f["success"] \in Sorts["success"]
    BY <2>2, SortsAre
  <2>4. /\ {"success"} \in SUBSET Sorted /\ \A x \in {"success"} : f[x] \in Sorts[x]
        /\ {"success"} \intersect {"message", "pattern", "patternLen", "patternPos"} = {}
    BY <2>3, SortedAre
  <2>5. /\ f.mcDetected = g.mcDetected /\ f.state = g.state /\ f.truncated = g.truncated
        /\ f.last = g.last /\ f.message = g.message
    BY <2>2, SortedAre DEF SameBut, Fields
  <2>6. Continued(f)
    BY <2>5 DEF Sound, Continued
  <2>7. Sound(f) /\ Gone(f, heard) = Gone(g, heard) /\ f.out = g.out
    BY <2>2, <2>4, <2>6, StaysSound
  <2>8. Advances(g, f)
    BY <1>1, <2>7 DEF Advances
  <2>9. Fresh(f) /\ Right(f) /\ Known(f)
    BY <1>1, <2>8, AdvanceIs
  <2>10. Kept(f)
    BY <2>5, KeptSame
  <2>11. Told(f) /\ Gone(g, heard) <= Gone(f, heard)
    BY <1>1, <2>7, <2>9 DEF Told
  <2>12. AfterMc(g, f) /\ Kept(f)
    BY <2>2, <2>10, <2>11 DEF AfterMc
  <2> QED BY <2>12 DEF f
<1>3. CASE g.mcDetected /\ ~ g.truncated
  <2>1. f = Forget(g)
    BY <1>3 DEF FinishMc
  <2> HIDE DEF f
  <2>2. /\ Sound(f) /\ Count(f) = 0 /\ Kept(f) /\ f.out = g.out /\ f.mcDetected
        /\ Gone(g, heard) <= Gone(f, heard)
    BY <1>3, <2>1, ForgetIs
  <2>3. Advances(g, f)
    BY <2>2 DEF Advances
  <2>4. Fresh(f) /\ Right(f) /\ Known(f)
    BY <1>1, <2>3, AdvanceIs
  <2>5. AfterMc(g, f) /\ Kept(f)
    BY <2>2, <2>4 DEF AfterMc, Told
  <2> QED BY <2>5 DEF f
<1>4. CASE ~ g.mcDetected /\ Len(g.mc.bits) < McMinBitLen
  <2>1. f = g
    BY <1>4 DEF FinishMc
  <2>2. AfterMc(g, g)
    BY <1>1, <1>4 DEF AfterMc, Told
  <2> QED BY <2>1, <2>2
<1>5. CASE ~ g.mcDetected /\ ~ (Len(g.mc.bits) < McMinBitLen)
  <2> DEFINE r == McReport(g)
  <2>1. f = Reporting(g, r)
    BY <1>5 DEF FinishMc
  <2> HIDE DEF f
  <2>2. r.kind = "MC"
    BY DEF McReport
  <2> HIDE DEF r
  <2>3. Adds(g, r, f)
    BY <2>1, <2>2, ReportingIs
  <2>4. /\ Sound(f) /\ Right(f) /\ Reported(f) = Reported(g) \union {r} /\ f.success = TRUE
        /\ f.message = g.message /\ Gone(f, heard) = Gone(g, heard)
        /\ f.truncated = g.truncated /\ f.last = g.last
    BY <2>3 DEF Adds
  <2>5. Precedes(r, Gone(f, heard)) /\ Precedes(r, Len(heard))
    BY <2>2 DEF Precedes
  <2>6. Fresh(f) /\ Known(f)
    BY <1>1, <2>4, <2>5 DEF Fresh, Known
  <2>7. Kept(f)
    BY <2>4, KeptSame
  <2>8. AfterMc(g, f) /\ Kept(f)
    BY <1>1, <2>4, <2>6, <2>7 DEF AfterMc, Told
  <2> QED BY <2>8 DEF f
<1> QED BY <1>2, <1>3, <1>4, <1>5

\* The signal that was found is decoded.
LEMMA DecodeMcIs ==
  ASSUME NEW e, Sound(e), heard \in Seq(Pulses), Fresh(e), Right(e),
         e.state = "clockfound" => ClockIs(e)
  PROVE  AfterMc(e, DecodeMc(e))
<1> DEFINE g == DoDecode(e)
<1>1. Known(e) /\ Gone(e, heard) \in Nat
  BY FreshIsKnown, Numbers
<1>2. CASE e.mc.longlow = None
  <2>1. DecodeMc(e) = e
    BY <1>2 DEF DecodeMc
  <2>2. AfterMc(e, e)
    BY <1>1 DEF AfterMc, Told
  <2> QED BY <2>1, <2>2
<1>3. CASE e.mc.longlow # None
  <2>1. DecodeMc(e) = FinishMc(g)
    BY <1>3 DEF DecodeMc
  <2>2. Decodes(e, g)
    BY DoDecodeIs
  <2> HIDE DEF g
  <2>3. Advances(e, g) /\ Kept(g) /\ Sound(g)
    BY <2>2 DEF Decodes, Advances
  <2>4. Fresh(g) /\ Right(g)
    BY <2>3, AdvanceIs
  <2>5. ASSUME ~ g.mcDetected, Len(g.mc.bits) < McMinBitLen, g.state = "clockfound"
        PROVE  ClockIs(g)
    <3>1. SameClock(e, g)
      <4>1. g.mcDetected \/ Len(g.mc.bits) >= McMinBitLen \/ SameClock(e, g)
        BY <2>2 DEF Decodes
      <4>2. g.mc.bits \in Bits
        BY <2>3 DEF Sound, Typed
      <4>3. Len(g.mc.bits) \in Nat
        BY <4>2 DEF Bits
      <4>4. ~ (Len(g.mc.bits) >= McMinBitLen)
        BY <2>5, <4>3 DEF McMinBitLen
      <4> QED BY <2>5, <4>1, <4>4
    <3>2. g.state \in {e.state, "searching", "mcdecoding"}
      BY <2>2 DEF Decodes
    <3>3. e.state = "clockfound"
      BY <2>5, <3>2
    <3> QED BY <3>1, <3>3 DEF SameClock, ClockIs, Count, At
  <2>6. AfterMc(g, FinishMc(g)) /\ Kept(FinishMc(g))
    BY <2>3, <2>4, <2>5, FinishMcIs
  <2> DEFINE f == FinishMc(g)
  <2> HIDE DEF f
  <2>7. AfterMc(g, f) /\ Kept(f)
    BY <2>6 DEF f
  <2>8. Gone(e, heard) <= Gone(f, heard)
    <3>1. Gone(e, heard) <= Gone(g, heard) /\ Gone(g, heard) <= Gone(f, heard)
      BY <2>3, <2>7 DEF Advances, AfterMc
    <3>2. Gone(g, heard) \in Nat /\ Gone(f, heard) \in Nat
      BY <2>3, <2>7, Numbers DEF AfterMc, Told
    <3> QED BY <1>1, <3>1, <3>2
  <2>9. AfterMc(e, f)
    BY <2>7, <2>8 DEF AfterMc
  <2> QED BY <2>1, <2>9 DEF f
<1> QED BY <1>2, <1>3

\* Before the search there is no signal.
LEMMA NoMcIs == McTyped(NoMc)
BY DEF McTyped, NoMc, McFields, Bits, McMaxBits

\* What is searched for a Manchester signal.
LEMMA SearchedIs ==
  ASSUME NEW e, Sound(e), heard \in Seq(Pulses), ~ e.mcDetected,
         NEW f, f = IsManchester([e EXCEPT !.mc = NoMc])
  PROVE  /\ Sound(f) /\ SameClock(e, f) /\ Gone(f, heard) = Gone(e, heard) /\ f.out = e.out
         /\ f.state = e.state /\ f.truncated = e.truncated /\ f.last = e.last
<1> DEFINE a == [e EXCEPT !.mc = NoMc]
<1>1. DOMAIN e = Fields /\ e.mstart \in 0..254
  <2>1. Typed(e)
    BY DEF Sound
  <2>2. e.mstart \in 0..254
    BY <2>1, FieldTypes
  <2> QED BY <2>1, <2>2 DEF Typed
<1>2. SameBut(e, a, {"mc"}) /\ a.mc = NoMc
  BY <1>1, SortedAre DEF SameBut, Fields
<1>3. f = IsManchester(a)
  OBVIOUS
<1> HIDE DEF a
<1>4. a.message = e.message /\ a.mstart = e.mstart /\ DOMAIN a = Fields
  BY <1>2, SortedAre DEF SameBut, Fields
<1>5. Count(a) = Count(e)
  BY <1>4 DEF Count
<1>6. Searchable(a)
  BY <1>1, <1>2, <1>4, <1>5, NoMcIs, Numbers DEF Searchable
<1>7. Searched(a, f)
  BY <1>3, <1>6, IsManchesterIs
<1>8. SameBut(e, f, {"mstart"} \union {"mc"}) /\ McTyped(f.mc)
  BY <1>2, <1>7 DEF Searched, SameBut
<1>9. f["mstart"] \in Sorts["mstart"]
  BY <1>7, SortsAre DEF Searched
<1>10. /\ {"mstart"} \in SUBSET Sorted /\ \A x \in {"mstart"} : f[x] \in Sorts[x]
       /\ {"mstart"} \intersect {"message", "pattern", "patternLen", "patternPos"} = {}
  BY <1>9, SortedAre
<1>11. /\ SameClock(e, f) /\ f.mcDetected = e.mcDetected /\ f.state = e.state
       /\ f.truncated = e.truncated /\ f.last = e.last
  BY <1>8, SortedAre DEF SameBut, Fields, SameClock
<1>12. Continued(f)
  BY <1>11 DEF Sound, Continued
<1>13. Sound(f) /\ Gone(f, heard) = Gone(e, heard) /\ f.out = e.out
  <2> DEFINE changed == {"mstart"}
  <2>1. /\ changed \in SUBSET Sorted /\ \A x \in changed : f[x] \in Sorts[x]
        /\ changed \intersect {"message", "pattern", "patternLen", "patternPos"} = {}
        /\ SameBut(e, f, changed \union {"mc"})
    BY <1>8, <1>10
  <2> HIDE DEF changed
  <2> QED BY <1>8, <1>12, <2>1, McStaysSound
<1> QED BY <1>11, <1>13

\* processMessage's second kind.
LEMMA ProcessMcIs ==
  ASSUME NEW e, Told(e), heard \in Seq(Pulses),
         ~ e.success /\ e.state = "clockfound" => ClockIs(e)
  PROVE  AfterMc(e, ProcessMc(e))
<1>1. Sound(e) /\ Right(e) /\ Known(e) /\ Gone(e, heard) \in Nat
  BY Numbers DEF Told
<1>2. CASE e.success
  <2>1. ProcessMc(e) = e
    BY <1>2 DEF ProcessMc
  <2>2. AfterMc(e, e)
    BY <1>1, <1>2 DEF AfterMc
  <2> QED BY <2>1, <2>2
<1>3. CASE ~ e.success /\ e.mcDetected
  <2>1. ProcessMc(e) = DecodeMc(e)
    BY <1>3 DEF ProcessMc
  <2>2. Fresh(e)
    BY <1>3 DEF Told
  <2>3. e.state = "clockfound" => ClockIs(e)
    BY <1>3
  <2>4. AfterMc(e, DecodeMc(e))
    BY <1>1, <2>2, <2>3, DecodeMcIs
  <2> QED BY <2>1, <2>4
<1>4. CASE ~ e.success /\ ~ e.mcDetected
  <2> DEFINE a == IsManchester([e EXCEPT !.mc = NoMc])
  <2>1. ProcessMc(e) = DecodeMc(a)
    BY <1>4 DEF ProcessMc
  <2>2. /\ Sound(a) /\ SameClock(e, a) /\ Gone(a, heard) = Gone(e, heard) /\ a.out = e.out
        /\ a.state = e.state /\ a.truncated = e.truncated /\ a.last = e.last
    BY <1>1, <1>4, SearchedIs
  <2> HIDE DEF a
  <2>3. Advances(e, a)
    BY <1>1, <2>2 DEF Advances
  <2>4. Fresh(a) /\ Right(a)
    BY <1>1, <1>4, <2>3, AdvanceIs DEF Told
  <2>5. a.state = "clockfound" => ClockIs(a)
    BY <1>4, <2>2 DEF SameClock, ClockIs, Count, At
  <2> DEFINE f == DecodeMc(a)
  <2>6. AfterMc(a, f)
    BY <2>2, <2>4, <2>5, DecodeMcIs
  <2> HIDE DEF f
  <2>7. Kept(e) => Kept(a)
    BY <2>2, KeptSame DEF SameClock
  <2>8. AfterMc(e, f)
    BY <2>2, <2>6, <2>7 DEF AfterMc
  <2> QED BY <2>1, <2>8 DEF f
<1> QED BY <1>2, <1>3, <1>4

-----------------------------------------------------------------------------
(* The third kind, and processing as a whole.                               *)

\* The whole buffer can be reported.
LEMMA MuReportIs ==
  ASSUME NEW e, Sound(e), heard \in Seq(Pulses), Fresh(e), Exact(e), ClockIs(e),
         Count(e) >= MinMessageLen, NEW r, r = MuReport(e)
  PROVE  r.kind = "MU" /\ ReportIsRecent(r, heard, Reported(e)) /\ Ends(r) = Len(heard)
<1> DEFINE c == Count(e)
           to == c - 1
<1>1. /\ c \in Nat /\ c <= 254 /\ Gone(e, heard) \in Nat /\ Len(heard) \in Nat
      /\ Gone(e, heard) = Len(heard) - c
  BY Numbers
<1>2. ASSUME NEW i \in 0..(c - 1) PROVE At(e, i) \in Patterns /\ e.histo[At(e, i)] # 0
  <2>1. i \in Nat /\ i < Count(e)
    BY <1>1
  <2>2. At(e, i) \in Patterns
    BY <2>1, PlaceFits
  <2>3. i \in Places(e, 0, c, At(e, i))
    BY DEF Places
  <2>4. Cardinality(Places(e, 0, c, At(e, i))) # 0
    <3>1. 0 \in Nat
      OBVIOUS
    <3> QED BY <1>1, <2>3, <3>1, PlacesAre
  <2> QED BY <2>2, <2>4 DEF Exact
<1>3. Counted(e, 0, 0 + c) /\ e.histo[e.clock] # 0
  <2>1. 0 + c = c
    BY <1>1
  <2>2. PICK i \in 0..(c - 1) : At(e, i) = e.clock
    BY DEF ClockIs
  <2>3. e.histo[At(e, i)] # 0
    BY <1>2
  <2> QED BY <1>2, <2>1, <2>2, <2>3 DEF Counted
<1>4. /\ r.kind = "MU" /\ r.from = Gone(e, heard) + 0 + 1 /\ r.clock = Printed(e, e.clock)
      /\ r.pulses = PulsesOf(e, 0, to)
  <2>1. /\ Report(e, "MU", 0, to).kind = "MU" /\ Report(e, "MU", 0, to).from = Gone(e, heard) + 0 + 1
        /\ Report(e, "MU", 0, to).clock = Printed(e, e.clock)
        /\ Report(e, "MU", 0, to).pulses = PulsesOf(e, 0, to)
    BY DEF Report, PulsesOf
  <2> QED BY <2>1 DEF MuReport, Report
<1>5. to \in Nat /\ to - 0 + 1 = c /\ c >= 40 /\ 0 + c <= Count(e)
  BY <1>1
<1>6. Sure(r) = c
  <2>1. Len(r.pulses) = c
    BY <1>4, <1>5 DEF PulsesOf
  <2> QED BY <1>4, <2>1 DEF Sure
<1>7. 0 \in Nat /\ to - 0 + 1 >= MinMessageLen /\ c <= to - 0 + 1
  BY <1>5
<1> HIDE DEF to, c
<1>8. r.kind # "MS"
  BY <1>4
<1>9. ReportIsRecent(r, heard, Reported(e)) /\ Ends(r) = Gone(e, heard) + 0 + c
  <2> HIDE DEF MinMessageLen
  <2> DEFINE from == 0
  <2>1. /\ from \in Nat /\ c \in Nat /\ from + c <= Count(e) /\ to \in Nat
        /\ to - from + 1 >= MinMessageLen /\ c <= to - from + 1
        /\ Counted(e, from, from + c) /\ r.from = Gone(e, heard) + from + 1
        /\ r.pulses = PulsesOf(e, from, to)
    BY <1>1, <1>3, <1>4, <1>5, <1>7 DEF c
  <2> HIDE DEF from
  <2>2. ReportIsRecent(r, heard, Reported(e)) /\ Ends(r) = Gone(e, heard) + from + c
    BY <1>3, <1>4, <1>6, <1>8, <2>1, ReportIs
  <2> QED BY <2>2 DEF from
<1>10. Gone(e, heard) + 0 + c = Len(heard)
  BY <1>1
<1> QED BY <1>4, <1>9, <1>10

\* What processing leaves of a detector.
AfterMu(e, f) ==
  /\ Told(f) /\ Gone(e, heard) <= Gone(f, heard)
  /\ Kept(e) => Kept(f)

\* processMessage's third kind.
LEMMA ProcessMuIs ==
  ASSUME NEW e, Told(e), heard \in Seq(Pulses),
         ~ e.success /\ ~ e.mcDetected /\ e.state = "clockfound" => ClockIs(e)
  PROVE  AfterMu(e, ProcessMu(e))
<1> DEFINE h == CalcHisto(e, 0, 0)
           a == [h EXCEPT !.truncated = FALSE]
           r == MuReport(h)
           f == Reporting(a, r)
           acts == ~ e.mcDetected /\ e.state = "clockfound" /\ ~ e.success /\ Count(e) >= MinMessageLen
<1>1. Sound(e) /\ Right(e) /\ Known(e) /\ Gone(e, heard) \in Nat /\ Count(e) \in Nat
  BY Numbers DEF Told
<1>2. CASE ~ acts
  <2>1. ProcessMu(e) = e
    BY <1>2 DEF ProcessMu
  <2>2. AfterMu(e, e)
    BY <1>1 DEF AfterMu
  <2> QED BY <2>1, <2>2
<1>3. CASE acts
  <2>1. ProcessMu(e) = f
    BY <1>3 DEF ProcessMu
  <2>2. Fresh(e) /\ ClockIs(e) /\ Count(e) # 0 /\ ~ e.mcDetected
    BY <1>1, <1>3 DEF Told
  <2>3. /\ Sound(h) /\ SameBut(e, h, {"histo"}) /\ h.message = e.message /\ Count(h) = Count(e)
        /\ Exact(h)
    BY <1>1, <2>2, WholeHistoIs
  <2> HIDE DEF h
  <2>4. /\ h.out = e.out /\ SameClock(e, h) /\ h.mcDetected = e.mcDetected
        /\ Gone(h, heard) = Gone(e, heard) /\ DOMAIN h = Fields
    BY <2>3, SortedAre DEF SameBut, Fields, SameClock, Gone
  <2>5. Fresh(h) /\ Right(h) /\ Reported(h) = Reported(e)
    BY <1>1, <2>2, <2>4 DEF Fresh, Right, Reported
  <2>6. ClockIs(h)
    BY <2>2, <2>4 DEF SameClock, ClockIs, Count, At
  <2>7. SameBut(h, a, {"truncated"}) /\ a["truncated"] = FALSE
    BY <2>4, SortedAre DEF SameBut, Fields
  <2> HIDE DEF a
  <2>8. /\ Sound(a) /\ a.message = h.message /\ Count(a) = Count(h)
        /\ Gone(a, heard) = Gone(h, heard) /\ a.out = h.out
    <3>1. a["truncated"] \in Sorts["truncated"]
      BY <2>7, SortsAre
    <3>2. /\ {"truncated"} \in SUBSET Sorted /\ \A x \in {"truncated"} : a[x] \in Sorts[x]
          /\ {"truncated"} \intersect {"message", "pattern", "patternLen", "patternPos"} = {}
      BY <3>1, SortedAre
    <3>3. a.mcDetected = h.mcDetected
      BY <2>7, SortedAre DEF SameBut, Fields
    <3>4. Continued(a)
      BY <2>2, <2>4, <3>3 DEF Continued
    <3> QED BY <2>3, <2>7, <3>2, <3>4, StaysSound
  <2>9. Right(a) /\ Reported(a) = Reported(e)
    <3>1. a.out = e.out
      BY <2>4, <2>8
    <3>2. Right(a)
      BY <1>1, <3>1 DEF Right
    <3> QED BY <3>1, <3>2 DEF Reported
  <2>10. r.kind = "MU" /\ ReportIsRecent(r, heard, Reported(e)) /\ Ends(r) = Len(heard)
    BY <1>3, <2>3, <2>5, <2>6, MuReportIs
  <2> HIDE DEF r
  <2>11. Adds(a, r, f)
    BY <2>8, <2>9, <2>10, ReportingIs
  <2> HIDE DEF f
  <2>12. /\ Sound(f) /\ Right(f) /\ Reported(f) = Reported(e) \union {r} /\ f.success = TRUE
         /\ Gone(f, heard) = Gone(e, heard) /\ f.truncated = FALSE
    BY <2>4, <2>7, <2>8, <2>9, <2>11 DEF Adds
  <2>13. Known(f)
    <3>1. Len(heard) \in Nat
      OBVIOUS
    <3>2. Precedes(r, Len(heard))
      BY <2>10, <3>1 DEF Precedes
    <3> QED BY <1>1, <2>12, <3>2 DEF Known
  <2>14. AfterMu(e, f)
    BY <1>1, <2>12, <2>13 DEF AfterMu, Told, Kept
  <2> QED BY <2>1, <2>14
<1> QED BY <1>2, <1>3

\* The three kinds in turn.
LEMMA ProcessKindsIs ==
  ASSUME NEW e, Sound(e), heard \in Seq(Pulses), Fresh(e), Right(e), ~ e.success,
         e.mcDetected \/ Count(e) >= MinMessageLen
  PROVE  /\ Told(ProcessKinds(e)) /\ Gone(e, heard) <= Gone(ProcessKinds(e), heard)
         /\ ~ e.truncated => Kept(ProcessKinds(e))
<1> DEFINE p == IF e.mcDetected THEN CalcHisto(e, 0, 0) ELSE Synced(GetClock(CompressPattern(e)))
           s == ProcessMs(p)
           m == ProcessMc(s)
           u == ProcessMu(m)
<1>1. Prepared(p) /\ Advances(e, p) /\ p.truncated = e.truncated
  BY PreparedIs
<1>2. ProcessKinds(e) = u
  BY DEF ProcessKinds
<1> HIDE DEF p
<1>3. AfterMs(p, s)
  BY <1>1, ProcessMsIs DEF Prepared
<1> HIDE DEF s
<1>4. AfterMc(s, m)
  BY <1>3, ProcessMcIs DEF AfterMs
<1> HIDE DEF m
<1>5. AfterMu(m, u)
  BY <1>4, ProcessMuIs DEF AfterMc
<1> HIDE DEF u
<1>6. ~ e.truncated => Kept(u)
  <2>1. ~ e.truncated => Kept(p)
    BY <1>1 DEF Kept
  <2>2. Kept(p) => Kept(s)
    BY <1>3 DEF AfterMs
  <2>3. Kept(s) => Kept(m)
    BY <1>4 DEF AfterMc
  <2>4. Kept(m) => Kept(u)
    BY <1>5 DEF AfterMu
  <2> QED BY <2>1, <2>2, <2>3, <2>4
<1>7. Gone(e, heard) <= Gone(u, heard)
  <2>1. /\ Gone(e, heard) <= Gone(p, heard) /\ Gone(p, heard) <= Gone(s, heard)
        /\ Gone(s, heard) <= Gone(m, heard) /\ Gone(m, heard) <= Gone(u, heard)
    BY <1>1, <1>3, <1>4, <1>5 DEF Advances, AfterMs, AfterMc, AfterMu
  <2>2. Sound(p) /\ Sound(s) /\ Sound(m) /\ Sound(u)
    BY <1>1, <1>3, <1>4, <1>5 DEF Advances, AfterMs, AfterMc, AfterMu, Told
  <2>3. /\ Gone(e, heard) \in Nat /\ Gone(p, heard) \in Nat /\ Gone(s, heard) \in Nat
        /\ Gone(m, heard) \in Nat /\ Gone(u, heard) \in Nat
    BY <2>2, Numbers
  <2> QED BY <2>1, <2>3
<1>8. Told(u)
  BY <1>5 DEF AfterMu
<1> QED BY <1>2, <1>6, <1>7, <1>8

\* The same reports.
LEMMA SameOut == ASSUME NEW e, NEW f, f.out = e.out, Right(e) PROVE Right(f)
BY DEF Right

\* A change of what the invariant does not look at.
LEMMA ChangeStaysSound ==
  ASSUME NEW e, NEW f, NEW changed \in SUBSET Fields, Sound(e), SameBut(e, f, changed),
         changed \intersect {"message", "pattern", "patternLen", "patternPos", "mc"} = {},
         \A x \in changed \intersect Sorted : f[x] \in Sorts[x], Continued(f), IsSequence(f.out)
  PROVE  /\ Sound(f) /\ f.message = e.message /\ Count(f) = Count(e)
         /\ Gone(f, heard) = Gone(e, heard)
<1>1. {"message", "pattern", "patternLen", "patternPos", "mc"} \subseteq Fields \ changed
  BY SortedAre DEF Fields
<1>2. /\ f.message = e.message /\ f.pattern = e.pattern /\ f.patternLen = e.patternLen
      /\ f.patternPos = e.patternPos /\ f.mc = e.mc /\ DOMAIN f = Fields
  BY <1>1 DEF SameBut
<1>3. ASSUME NEW x \in Sorted PROVE f[x] \in Sorts[x]
  <2>1. x \in Fields /\ e[x] \in Sorts[x]
    BY <1>3 DEF Fields, Sound, Typed
  <2>2. CASE x \in changed
    BY <1>3, <2>2
  <2>3. CASE x \notin changed
    <3>1. f[x] = e[x]
      BY <2>1, <2>3 DEF SameBut
    <3> QED BY <2>1, <3>1
  <2> QED BY <2>2, <2>3
<1>4. Typed(f)
  BY <1>2, <1>3 DEF Sound, Typed
<1>5. IsRecent(f, heard) /\ Count(f) = Count(e) /\ Gone(f, heard) = Gone(e, heard)
  BY <1>2, SameBuffer DEF Sound
<1>6. Buffer!Clean(f.message) /\ Placed(f)
  BY <1>2 DEF Sound, Placed
<1> QED BY <1>2, <1>4, <1>5, <1>6 DEF Sound

\* A cut buffer goes on with a high pulse.
LEMMA SkipToHighIs ==
  ASSUME NEW e, Told(e), heard \in Seq(Pulses)
  PROVE  AfterMu(e, SkipToHigh(e))
<1> DEFINE dp == FirstHigh(e)
           places == {i \in 0..(Count(e) - 1) : At(e, i) = dp}
           to == IF Min(places) = 0 THEN 255 ELSE Min(places) - 1
           f == BufferMove(e, to)
           skips == ~ e.success /\ e.truncated /\ places # {}
<1>1. Sound(e) /\ Right(e) /\ Known(e) /\ Gone(e, heard) \in Nat /\ Count(e) \in Nat
  BY Numbers DEF Told
<1>2. CASE ~ skips
  <2>1. SkipToHigh(e) = e
    BY <1>2 DEF SkipToHigh
  <2>2. AfterMu(e, e)
    BY <1>1 DEF AfterMu
  <2> QED BY <2>1, <2>2
<1>3. CASE skips
  <2>1. SkipToHigh(e) = f
    BY <1>3 DEF SkipToHigh
  <2>2. to \in Nat
    <3>1. places \in SUBSET Nat /\ places # {}
      BY <1>1, <1>3
    <3> HIDE DEF places
    <3>2. Min(places) \in Nat
      BY <3>1, MinIs
    <3> QED BY <3>2
  <2> HIDE DEF to
  <2>3. MovesTo(e, to, f)
    BY <1>1, <2>2, MoveIs
  <2> HIDE DEF f
  <2>4. Advances(e, f) /\ Kept(f)
    BY <2>3 DEF MovesTo, Advances
  <2>5. Fresh(f) /\ Right(f) /\ Known(f)
    BY <1>1, <1>3, <2>4, AdvanceIs DEF Told
  <2>6. AfterMu(e, f)
    BY <2>4, <2>5 DEF AfterMu, Told, Advances
  <2> QED BY <2>1, <2>6
<1> QED BY <1>2, <1>3

\* What processMessage leaves: what was reported is not in the buffer any more, and what is in it
\* can be continued.
Processed(e, f) ==
  /\ Sound(f) /\ Right(f) /\ Fresh(f) /\ Gone(e, heard) <= Gone(f, heard)
  /\ f.truncated \/ Count(f) = 0
  /\ ~ e.truncated => Kept(f)

\* The buffer is emptied unless some of it is kept.
LEMMA EmptyUnlessKeptIs ==
  ASSUME NEW e, Told(e), heard \in Seq(Pulses), NEW f, f = EmptyUnlessKept(e)
  PROVE  /\ Sound(f) /\ Right(f) /\ Fresh(f) /\ Gone(e, heard) <= Gone(f, heard)
         /\ f.truncated \/ Count(f) = 0
         /\ Kept(e) => Kept(f)
<1>1. Sound(e) /\ Right(e) /\ Known(e) /\ Gone(e, heard) \in Nat
  BY Numbers DEF Told
<1>2. CASE e.truncated
  <2>1. f = e
    BY <1>2 DEF EmptyUnlessKept
  <2>2. Fresh(e)
    BY <1>2 DEF Told
  <2> QED BY <1>1, <1>2, <2>1, <2>2
<1>3. CASE ~ e.truncated
  <2> DEFINE b == Reset(e)
  <2>1. f = [b EXCEPT !.success = e.success]
    BY <1>3 DEF EmptyUnlessKept
  <2>2. /\ Sound(b) /\ Count(b) = 0 /\ Gone(b, heard) = Len(heard) /\ b.out = e.out
        /\ ~ b.truncated /\ ~ b.mcDetected /\ DOMAIN b = Fields
    BY <1>1, ResetIs DEF Sound, Typed
  <2> HIDE DEF b
  <2>3. e.success \in BOOLEAN
    <3>1. Typed(e)
      BY <1>1 DEF Sound
    <3> QED BY <3>1, FieldTypes
  <2>4. SameBut(b, f, {"success"}) /\ f["success"] = e.success
    BY <2>1, <2>2, SortedAre DEF SameBut, Fields
  <2>5. f.mcDetected = b.mcDetected /\ f.truncated = b.truncated
    BY <2>4, SortedAre DEF SameBut, Fields
  <2>6. Sound(f) /\ Count(f) = Count(b) /\ Gone(f, heard) = Gone(b, heard) /\ f.out = b.out
    <3>1. f["success"] \in Sorts["success"]
      BY <2>3, <2>4, SortsAre
    <3>2. /\ {"success"} \in SUBSET Sorted /\ \A x \in {"success"} : f[x] \in Sorts[x]
          /\ {"success"} \intersect {"message", "pattern", "patternLen", "patternPos"} = {}
      BY <3>1, SortedAre
    <3>3. Continued(f)
      BY <2>2, <2>5 DEF Continued
    <3> QED BY <2>2, <2>4, <3>2, <3>3, StaysSound
  <2>7. Gone(e, heard) <= Gone(f, heard)
    <3>1. Len(heard) \in Nat /\ Count(e) \in Nat /\ Gone(e, heard) = Len(heard) - Count(e)
      BY <1>1, Numbers
    <3> QED BY <2>2, <2>6, <3>1
  <2>8. Advances(e, f)
    BY <2>2, <2>6, <2>7 DEF Advances
  <2>9. Right(f) /\ Known(f)
    BY <1>1, <2>8, AdvanceIs
  <2>10. Fresh(f)
    BY <2>2, <2>6, <2>9, EmptyIsFresh
  <2> QED BY <2>2, <2>5, <2>6, <2>7, <2>9, <2>10 DEF Kept
<1> QED BY <1>2, <1>3

\* Processing leaves a sound detector, and nothing in its buffer that was reported.
LEMMA ProcessMessageIs ==
  ASSUME NEW e, Sound(e), heard \in Seq(Pulses), Fresh(e), Right(e)
  PROVE  Processed(e, ProcessMessage(e))
<1> DEFINE b == [e EXCEPT !.success = FALSE, !.overflow = Count(e) = MaxMsgSize]
           k == IF e.mcDetected \/ Count(e) >= MinMessageLen THEN ProcessKinds(b) ELSE e
           s == SkipToHigh(k)
           f == EmptyUnlessKept(s)
<1>1. ProcessMessage(e) = f
  BY DEF ProcessMessage
<1>2. Gone(e, heard) \in Nat /\ DOMAIN e = Fields /\ Known(e)
  BY Numbers, FreshIsKnown DEF Sound, Typed
<1>3. SameBut(e, b, {"success", "overflow"}) /\ b["success"] = FALSE
  BY <1>2, SortedAre DEF SameBut, Fields
<1> HIDE DEF b
<1>4. /\ b.out = e.out /\ b.mcDetected = e.mcDetected /\ b.state = e.state
      /\ b.truncated = e.truncated
  BY <1>3, SortedAre DEF SameBut, Fields
<1>5. /\ Sound(b) /\ b.message = e.message /\ Count(b) = Count(e)
      /\ Gone(b, heard) = Gone(e, heard)
  <2> DEFINE changed == {"success", "overflow"}
  <2>1. b["success"] \in Sorts["success"]
    BY <1>3, SortsAre
  <2>2. /\ changed \in SUBSET Fields /\ SameBut(e, b, changed)
        /\ changed \intersect {"message", "pattern", "patternLen", "patternPos", "mc"} = {}
    BY <1>3, SortedAre DEF Fields
  <2>3. \A x \in changed \intersect Sorted : b[x] \in Sorts[x]
    BY <2>1, SortedAre
  <2> HIDE DEF changed
  <2>4. Continued(b) /\ IsSequence(b.out)
    BY <1>4 DEF Sound, Continued, Typed
  <2> QED BY <2>2, <2>3, <2>4, ChangeStaysSound
<1>6. Fresh(b) /\ Right(b)
  <2>1. Reported(b) = Reported(e)
    BY <1>4 DEF Reported
  <2>2. Fresh(b)
    BY <1>5, <2>1 DEF Fresh
  <2>3. b.out = e.out
    BY <1>4
  <2>4. Right(b)
    BY <2>3, SameOut
  <2> QED BY <2>2, <2>4
<1>7. /\ Told(k) /\ Gone(e, heard) <= Gone(k, heard)
      /\ ~ e.truncated => Kept(k)
  <2>1. CASE e.mcDetected \/ Count(e) >= MinMessageLen
    <3>1. k = ProcessKinds(b)
      BY <2>1
    <3>2. b.mcDetected \/ Count(b) >= MinMessageLen
      BY <1>4, <1>5, <2>1
    <3>3. /\ Told(ProcessKinds(b)) /\ Gone(b, heard) <= Gone(ProcessKinds(b), heard)
          /\ ~ b.truncated => Kept(ProcessKinds(b))
      BY <1>3, <1>5, <1>6, <3>2, ProcessKindsIs
    <3> QED BY <1>4, <1>5, <3>1, <3>3
  <2>2. CASE ~ (e.mcDetected \/ Count(e) >= MinMessageLen)
    <3>1. k = e
      BY <2>2
    <3> QED BY <1>2, <3>1 DEF Told, Kept
  <2> QED BY <2>1, <2>2
<1> HIDE DEF k
<1>8. AfterMu(k, s)
  BY <1>7, SkipToHighIs
<1> HIDE DEF s
<1>9. /\ Sound(f) /\ Right(f) /\ Fresh(f) /\ Gone(s, heard) <= Gone(f, heard)
      /\ f.truncated \/ Count(f) = 0
      /\ Kept(s) => Kept(f)
  BY <1>8, EmptyUnlessKeptIs DEF AfterMu
<1> HIDE DEF f
<1>10. Gone(e, heard) <= Gone(f, heard)
  <2>1. Gone(k, heard) <= Gone(s, heard) /\ Sound(k) /\ Sound(s)
    BY <1>7, <1>8 DEF AfterMu, Told
  <2>2. Gone(k, heard) \in Nat /\ Gone(s, heard) \in Nat /\ Gone(f, heard) \in Nat
    BY <1>9, <2>1, Numbers
  <2> QED BY <1>2, <1>7, <1>9, <2>1, <2>2
<1>11. ~ e.truncated => Kept(f)
  BY <1>7, <1>8, <1>9 DEF AfterMu
<1>12. Processed(e, f)
  BY <1>9, <1>10, <1>11 DEF Processed
<1> QED BY <1>1, <1>12

-----------------------------------------------------------------------------
(* A pulse.                                                                 *)

\* The sign of a pulse is not that of the one before.
Follows(f, pulse) == Count(f) = 0 \/ Opposite(pulse, heard[Len(heard)])

\* The pulse can be added.
Accepts(e, f, pulse) ==
  /\ Sound(f) /\ Right(f) /\ Fresh(f) /\ Follows(f, pulse) /\ Count(f) < 254
  /\ Gone(e, heard) <= Gone(f, heard)

\* The comparison with the last value's pattern is one with the last pulse.
LEMMA ContinuesIs ==
  ASSUME NEW e, Sound(e), heard \in Seq(Pulses), Count(e) = 0 \/ e.last = LastOf(e.message),
         NEW pulse \in Pulses, Continues(e, pulse)
  PROVE  Follows(e, pulse)
<1>1. /\ Count(e) \in Nat /\ Count(e) <= 254 /\ Len(heard) \in Nat /\ Gone(e, heard) \in Nat
      /\ Gone(e, heard) = Len(heard) - Count(e)
  BY Numbers
<1>2. CASE Count(e) = 0
  BY <1>2 DEF Follows
<1>3. CASE Count(e) # 0
  <2> DEFINE i == Count(e) - 1
  <2>1. i \in Nat /\ i < Count(e) /\ Gone(e, heard) + i + 1 = Len(heard)
    BY <1>1, <1>3
  <2>2. e.last = At(e, i)
    <3>1. e.message.count > 0
      BY <1>1, <1>3 DEF Count
    <3> QED BY <1>3, <3>1 DEF LastOf, At, Count
  <2> HIDE DEF i
  <2>3. /\ At(e, i) \in Patterns /\ e.pattern[At(e, i)] \in Lengths /\ e.pattern[At(e, i)] # 0
        /\ ~ Opposite(e.pattern[At(e, i)], heard[Len(heard)])
    BY <2>1, PlaceFits
  <2>4. e.last # None
    BY <2>2, <2>3, NoneIsNot
  <2>5. Opposite(pulse, e.pattern[At(e, i)])
    BY <1>3, <2>2, <2>4 DEF Continues
  <2>6. Opposite(pulse, heard[Len(heard)])
    BY <2>3, <2>5 DEF Opposite
  <2> QED BY <2>6 DEF Follows
<1> QED BY <1>2, <1>3

\* What was processed is forgotten, or can be continued.
LEMMA KeepUsefulIs ==
  ASSUME NEW e, Sound(e), heard \in Seq(Pulses), Right(e), Fresh(e), e.truncated \/ Count(e) = 0,
         Kept(e), NEW pulse \in Pulses
  PROVE  Accepts(e, KeepUseful(e, pulse), pulse)
<1>1. Gone(e, heard) \in Nat /\ Count(e) \in Nat /\ Known(e)
  BY Numbers, FreshIsKnown
<1>2. CASE KeepUseful(e, pulse) = Reset(e)
  <2> DEFINE f == Reset(e)
  <2>1. Sound(f) /\ Count(f) = 0 /\ Gone(f, heard) = Len(heard) /\ f.out = e.out
    BY ResetIs
  <2> HIDE DEF f
  <2>2. Gone(e, heard) <= Gone(f, heard)
    <3>1. Len(heard) \in Nat /\ Gone(e, heard) = Len(heard) - Count(e)
      BY Numbers
    <3> QED BY <1>1, <2>1, <3>1
  <2>3. Advances(e, f)
    BY <2>1, <2>2 DEF Advances
  <2>4. Right(f) /\ Fresh(f)
    BY <2>3, AdvanceIs
  <2>5. Accepts(e, f, pulse)
    BY <2>1, <2>2, <2>4 DEF Accepts, Follows
  <2> QED BY <1>2, <2>5 DEF f
<1>3. CASE KeepUseful(e, pulse) = e /\ Continues(e, pulse)
  <2>1. Count(e) < 254 /\ (Count(e) = 0 \/ e.last = LastOf(e.message))
    BY DEF Kept
  <2>2. Follows(e, pulse)
    BY <1>3, <2>1, ContinuesIs
  <2>3. Accepts(e, e, pulse)
    BY <1>1, <2>1, <2>2 DEF Accepts
  <2> QED BY <1>3, <2>3
<1> QED BY <1>2, <1>3 DEF KeepUseful

\* A pulse that the buffer is not ready for makes it be processed.
LEMMA AcceptIs ==
  ASSUME NEW e, Sound(e), heard \in Seq(Pulses), Right(e), Fresh(e), ~ e.truncated,
         e.last = LastOf(e.message), NEW pulse \in Pulses
  PROVE  Accepts(e, Accept(e, pulse), pulse)
<1> DEFINE p == ProcessMessage(e)
           g == KeepUseful(p, pulse)
           a == [e EXCEPT !.state = "detecting", !.rssi = Len(heard)]
           f == Accept(e, pulse)
<1>1. /\ Gone(e, heard) \in Nat /\ Count(e) \in Nat /\ Count(e) <= 254 /\ DOMAIN e = Fields
  BY Numbers DEF Sound, Typed
<1>2. CASE f = g
  <2>1. Processed(e, p)
    BY ProcessMessageIs
  <2> HIDE DEF p
  <2>2. /\ Sound(p) /\ Right(p) /\ Fresh(p) /\ Gone(e, heard) <= Gone(p, heard)
        /\ p.truncated \/ Count(p) = 0
        /\ Kept(p)
    BY <2>1 DEF Processed
  <2>3. Accepts(p, g, pulse)
    BY <2>2, KeepUsefulIs
  <2> HIDE DEF g
  <2>4. Gone(e, heard) <= Gone(g, heard)
    <3>1. Gone(p, heard) \in Nat /\ Gone(g, heard) \in Nat
      BY <2>2, <2>3, Numbers DEF Accepts
    <3> QED BY <1>1, <2>2, <2>3, <3>1 DEF Accepts
  <2>5. Accepts(e, g, pulse)
    BY <2>3, <2>4 DEF Accepts
  <2> QED BY <1>2, <2>5
<1>3. ASSUME Continues(e, pulse), Count(e) # MaxMsgSize
      PROVE  Follows(e, pulse) /\ Count(e) < 254
  BY <1>1, <1>3, ContinuesIs
<1>4. CASE f = e /\ Continues(e, pulse) /\ Count(e) # MaxMsgSize
  <2>1. Accepts(e, e, pulse)
    BY <1>1, <1>3, <1>4 DEF Accepts
  <2> QED BY <1>4, <2>1
<1>5. CASE f = a /\ Continues(e, pulse) /\ Count(e) # MaxMsgSize
  <2> DEFINE changed == {"state", "rssi"}
  <2>1. SameBut(e, a, changed) /\ a["state"] = "detecting"
    BY <1>1, SortedAre DEF SameBut, Fields
  <2> HIDE DEF a
  <2>2. a["state"] \in Sorts["state"]
    BY <2>1, SortsAre DEF States
  <2>3. /\ changed \in SUBSET Fields
        /\ changed \intersect {"message", "pattern", "patternLen", "patternPos", "mc"} = {}
        /\ \A x \in changed \intersect Sorted : a[x] \in Sorts[x]
    BY <2>2, SortedAre DEF Fields
  <2>4. a.out = e.out /\ a.message = e.message
    BY <2>1, SortedAre DEF SameBut, Fields
  <2> HIDE DEF changed
  <2>5. Continued(a) /\ IsSequence(a.out)
    BY <2>1, <2>4 DEF Continued, Sound, Typed
  <2>6. Sound(a) /\ Count(a) = Count(e) /\ Gone(a, heard) = Gone(e, heard)
    BY <2>1, <2>3, <2>5, ChangeStaysSound
  <2>7. Right(a)
    BY <2>4, SameOut
  <2>8. Advances(e, a)
    BY <1>1, <2>4, <2>6 DEF Advances
  <2>9. Fresh(a)
    BY <2>8, AdvanceIs
  <2>10. Follows(a, pulse)
    BY <1>3, <1>5, <2>6 DEF Follows
  <2>11. Accepts(e, a, pulse)
    BY <1>1, <1>3, <1>5, <2>6, <2>7, <2>9, <2>10 DEF Accepts
  <2> QED BY <1>5, <2>11
<1>6. \/ f = g
      \/ f = e /\ Continues(e, pulse) /\ Count(e) # MaxMsgSize
      \/ f = a /\ Continues(e, pulse) /\ Count(e) # MaxMsgSize
  BY DEF Accept
<1> HIDE DEF f, g, a
<1> QED BY <1>2, <1>4, <1>5, <1>6

-----------------------------------------------------------------------------
(* Room for a pattern.                                                      *)

\* No value has the pattern that is replaced next.
NotUsed(e) == \A i \in 0..(Count(e) - 1) : At(e, i) # e.patternPos

\* The places that a move keeps.
KeepsPlaces(e, start, f) ==
  /\ f.patternPos = e.patternPos
  /\ \A i \in 0..(Count(f) - 1) : i + start < Count(e) /\ At(f, i) = At(e, i + start)

\* Where the values are after a move.
LEMMA MoveKeeps ==
  ASSUME NEW e, Sound(e), heard \in Seq(Pulses), NEW start \in Nat, start # 0,
         NEW f, f = BufferMove(e, start), Count(f) # 0
  PROVE  KeepsPlaces(e, start, f)
<1> DEFINE moved == Message!MoveLeft(e.message, start)
<1>1. Count(e) \in Nat /\ Count(e) <= 254 /\ DOMAIN e = Fields /\ Typed(e)
  BY Numbers DEF Sound, Typed
<1>2. CASE Count(e) = 0
  <2>1. f = [e EXCEPT !.truncated = FALSE]
    BY <1>2 DEF BufferMove
  <2>2. f.message = e.message
    BY <1>1, <2>1, SortedAre DEF Fields
  <2> QED BY <1>2, <2>2 DEF Count
<1>3. CASE Count(e) # 0 /\ start > Count(e) - 1
  <2>1. f = Reset(e)
    BY <1>3 DEF BufferMove
  <2>2. Count(f) = 0
    BY <2>1, ResetIs
  <2> QED BY <2>2
<1>4. CASE Count(e) # 0 /\ ~ (start > Count(e) - 1)
  <2>1. f = [e EXCEPT !.message = moved, !.truncated = TRUE, !.last = LastOf(moved)]
    BY <1>4 DEF BufferMove
  <2> DEFINE s == e.message
  <2>2. s \in Buffer!Stores /\ Buffer!Clean(s) /\ s.count = Count(e)
    BY <1>1, FieldTypes DEF Sound, Count
  <2>3. moved = Message!MoveLeft(s, start)
    OBVIOUS
  <2>4. start \in 1..254 /\ start <= s.count - 1
    BY <1>1, <1>4, <2>2
  <2>5. f.message = moved /\ f.patternPos = e.patternPos
    BY <1>1, <2>1, SortedAre DEF Fields
  <2> HIDE DEF moved
  <2>6. Shifted(s, start, moved)
    <3> HIDE DEF s
    <3> QED BY <2>2, <2>3, <2>4, MoveStore
  <2>7. /\ Count(f) = Count(e) - start
        /\ \A i \in 0..(Count(f) - 1) : At(f, i) = At(e, i + start)
    BY <2>2, <2>5, <2>6 DEF Shifted, Count, At
  <2>8. \A i \in 0..(Count(f) - 1) : i + start < Count(e)
    BY <1>1, <2>7
  <2> QED BY <2>5, <2>7, <2>8 DEF KeepsPlaces
<1> QED BY <1>2, <1>3, <1>4

\* The buffer is cut behind the last value of the pattern.
LEMMA CutUsesIs ==
  ASSUME NEW e, Sound(e), heard \in Seq(Pulses), Count(e) # 0 => Exact(e), NEW f, f = CutUses(e)
  PROVE  Advances(e, f) /\ NotUsed(f)
<1> DEFINE uses == {i \in 0..(Count(e) - 1) : At(e, i) = e.patternPos}
           last == Max(uses)
           start == last + 1
<1>1. /\ Count(e) \in Nat /\ Count(e) <= 254 /\ Gone(e, heard) \in Nat /\ e.patternPos \in Patterns
  <2>1. Typed(e)
    BY DEF Sound
  <2> QED BY <2>1, Numbers, FieldTypes
<1>2. f = IF e.histo[e.patternPos] > 0 /\ uses # {} THEN BufferMove(e, start) ELSE e
  BY DEF CutUses
<1>3. CASE uses = {}
  <2>1. f = e
    BY <1>2, <1>3
  <2> QED BY <1>1, <1>3, <2>1 DEF Advances, NotUsed
<1>4. CASE uses # {}
  <2>1. Count(e) # 0
    BY <1>1, <1>4
  <2>2. e.histo[e.patternPos] > 0
    <3>1. e.histo[e.patternPos] = Cardinality(Places(e, 0, Count(e), e.patternPos))
      BY <1>1, <2>1 DEF Exact
    <3>2. Places(e, 0, Count(e), e.patternPos) = uses
      BY DEF Places
    <3>3. 0 \in Nat
      OBVIOUS
    <3> HIDE DEF uses
    <3>4. /\ Cardinality(Places(e, 0, Count(e), e.patternPos)) \in Nat
          /\ Cardinality(Places(e, 0, Count(e), e.patternPos)) # 0
      BY <1>1, <1>4, <3>2, <3>3, PlacesAre
    <3> QED BY <3>1, <3>4
  <2>3. f = BufferMove(e, start)
    BY <1>2, <1>4, <2>2
  <2>4. last \in uses /\ \A y \in uses : last >= y
    <3>1. uses \in SUBSET Int /\ 254 \in Int /\ \A y \in uses : y <= 254
      BY <1>1
    <3> HIDE DEF uses
    <3>2. \E bound \in Int : \A y \in uses : y <= bound
      BY <3>1
    <3> QED BY <1>4, <3>1, <3>2, MaxIs
  <2> HIDE DEF last
  <2>5. last \in Nat /\ start \in Nat /\ start # 0 /\ start = last + 1
    BY <1>1, <2>4
  <2> HIDE DEF start
  <2>6. MovesTo(e, start, f)
    BY <2>3, <2>5, MoveIs
  <2>7. Advances(e, f)
    BY <2>6 DEF MovesTo, Advances
  <2>8. NotUsed(f)
    <3>1. CASE Count(f) = 0
      BY <3>1 DEF NotUsed
    <3>2. CASE Count(f) # 0
      <4>1. /\ f.patternPos = e.patternPos
            /\ \A i \in 0..(Count(f) - 1) : i + start < Count(e) /\ At(f, i) = At(e, i + start)
        <5>1. KeepsPlaces(e, start, f)
          BY <2>3, <2>5, <3>2, MoveKeeps
        <5> QED BY <5>1 DEF KeepsPlaces
      <4>2. ASSUME NEW i \in 0..(Count(f) - 1), At(f, i) = e.patternPos PROVE FALSE
        <5>1. i \in Nat /\ i + start < Count(e) /\ At(e, i + start) = e.patternPos
          BY <4>1, <4>2
        <5>2. i + start \in 0..(Count(e) - 1)
          BY <1>1, <2>5, <5>1
        <5>3. i + start \in uses
          BY <5>1, <5>2
        <5>4. last >= i + start
          BY <2>4, <5>3
        <5> QED BY <2>5, <5>1, <5>4
      <4> QED BY <4>1, <4>2 DEF NotUsed
    <3> QED BY <3>1, <3>2
  <2> QED BY <2>7, <2>8
<1> QED BY <1>3, <1>4

\* The next pattern has a place that no value has.
LEMMA MakeRoomIs ==
  ASSUME NEW e, Sound(e), heard \in Seq(Pulses), Right(e), Fresh(e)
  PROVE  LET f == MakeRoom(e)
         IN Sound(f) /\ Right(f) /\ Fresh(f) /\ Gone(e, heard) <= Gone(f, heard) /\ NotUsed(f)
<1> DEFINE f == MakeRoom(e)
           h == CalcHisto(e, 0, 0)
           m == ProcessMessage(h)
           k == CalcHisto(m, 0, 0)
           u == ProcessUses(h)
<1>1. /\ Count(e) \in Nat /\ Count(e) <= 254 /\ Gone(e, heard) \in Nat
      /\ e.patternLen \in Nat /\ e.patternLen <= 8
  BY Numbers
<1>2. CASE e.patternLen # MaxNumPattern
  <2>1. f = e
    BY <1>2 DEF MakeRoom
  <2>2. e.patternPos = e.patternLen
    BY <1>1, <1>2 DEF Sound, Placed
  <2>3. ASSUME NEW i \in 0..(Count(e) - 1) PROVE At(e, i) # e.patternPos
    <3>1. i \in Nat /\ i < Count(e)
      BY <1>1
    <3>2. At(e, i) \in Patterns /\ At(e, i) < e.patternLen
      BY <3>1, PlaceFits
    <3> QED BY <1>1, <2>2, <3>2
  <2> QED BY <1>1, <2>1, <2>3 DEF NotUsed
<1>3. CASE e.patternLen = MaxNumPattern
  <2>1. f = CutUses(u)
    BY <1>3 DEF MakeRoom
  <2>2. /\ Sound(h) /\ SameBut(e, h, {"histo"}) /\ h.message = e.message /\ Count(h) = Count(e)
        /\ Count(e) # 0 => Exact(h)
    BY WholeHistoIs
  <2> HIDE DEF h, f
  <2>3. Gone(h, heard) = Gone(e, heard)
    BY <2>2 DEF Gone
  <2>4. h.out = e.out
    BY <2>2, SortedAre DEF SameBut, Fields
  <2>5. Advances(e, h)
    BY <1>1, <2>2, <2>3, <2>4 DEF Advances
  <2>6. Right(h) /\ Fresh(h)
    BY <2>5, AdvanceIs
  <2>7. /\ Sound(u) /\ Right(u) /\ Fresh(u) /\ Gone(h, heard) <= Gone(u, heard)
        /\ Count(u) # 0 => Exact(u)
    <3>1. CASE u = h
      BY <1>1, <2>2, <2>3, <2>6, <3>1
    <3>2. CASE u = k
      <4>1. Processed(h, m)
        BY <2>2, <2>6, ProcessMessageIs
      <4> HIDE DEF m
      <4>2. Sound(m) /\ Right(m) /\ Fresh(m) /\ Gone(h, heard) <= Gone(m, heard)
        BY <4>1 DEF Processed
      <4>3. /\ Sound(k) /\ SameBut(m, k, {"histo"}) /\ k.message = m.message /\ Count(k) = Count(m)
            /\ Count(m) # 0 => Exact(k)
        BY <4>2, WholeHistoIs
      <4> HIDE DEF k
      <4>4. Gone(k, heard) = Gone(m, heard) /\ Gone(m, heard) \in Nat
        BY <4>2, <4>3, Numbers DEF Gone
      <4>5. k.out = m.out
        BY <4>3, SortedAre DEF SameBut, Fields
      <4>6. Advances(m, k)
        BY <4>3, <4>4, <4>5 DEF Advances
      <4>7. Right(k) /\ Fresh(k)
        BY <4>2, <4>6, AdvanceIs
      <4> QED BY <3>2, <4>2, <4>3, <4>4, <4>7
    <3> QED BY <3>1, <3>2 DEF ProcessUses
  <2> HIDE DEF u
  <2>8. Advances(u, f) /\ NotUsed(f)
    BY <2>1, <2>7, CutUsesIs
  <2>9. Right(f) /\ Fresh(f) /\ Sound(f)
    BY <2>7, <2>8, AdvanceIs DEF Advances
  <2>10. Gone(e, heard) <= Gone(f, heard)
    <3>1. Gone(u, heard) \in Nat /\ Gone(f, heard) \in Nat /\ Gone(u, heard) <= Gone(f, heard)
      BY <2>7, <2>8, <2>9, Numbers DEF Advances
    <3> QED BY <1>1, <2>3, <2>7, <3>1
  <2> QED BY <2>8, <2>9, <2>10 DEF f
<1> QED BY <1>2, <1>3

\* Less than what is at most as much.
LEMMA LessThanMore ==
  ASSUME NEW a \in Nat, NEW b \in Nat, NEW c \in Nat, a < b, b <= c PROVE a < c
OBVIOUS

\* The numbers of patterns.
LEMMA PatternsAre == \A p : p \in Patterns <=> p \in Nat /\ p <= 7
OBVIOUS

\* Patterns that keep their signs are still those of the pulses.
LEMMA SignsAreRecent ==
  ASSUME NEW e, Sound(e), heard \in Seq(Pulses), NEW f, f.message = e.message,
         \A i \in 0..(Count(e) - 1) :
           /\ At(e, i) < f.patternLen /\ f.pattern[At(e, i)] # 0
           /\ Opposite(f.pattern[At(e, i)], e.pattern[At(e, i)]) = FALSE
  PROVE  IsRecent(f, heard) /\ Count(f) = Count(e) /\ Gone(f, heard) = Gone(e, heard)
<1> DEFINE g == Gone(e, heard)
<1>1. /\ Count(e) \in Nat /\ Count(e) <= 254 /\ Len(heard) \in Nat /\ g \in Nat
      /\ g = Len(heard) - Count(e)
  BY Numbers
<1>2. Count(f) = Count(e) /\ Gone(f, heard) = g
  BY DEF Gone, Count
<1>3. ASSUME NEW n \in (g + 1)..Len(heard) PROVE Fits(f, ValueOf(f, heard, n), heard[n])
  <2> DEFINE i == n - g - 1
  <2>1. i \in Nat /\ i < Count(e) /\ i \in 0..(Count(e) - 1)
    BY <1>1
  <2>2. ValueOf(f, heard, n) = At(e, i) /\ ValueOf(e, heard, n) = At(e, i)
    BY <1>2 DEF ValueOf, At
  <2> HIDE DEF i
  <2>3. Fits(e, At(e, i), heard[n])
    BY <2>2 DEF Sound, IsRecent
  <2>4. /\ At(e, i) < f.patternLen /\ f.pattern[At(e, i)] # 0
        /\ Opposite(f.pattern[At(e, i)], e.pattern[At(e, i)]) = FALSE
    BY <2>1
  <2>5. ~ Opposite(f.pattern[At(e, i)], heard[n])
    BY <2>3, <2>4 DEF Fits, Opposite
  <2> QED BY <2>2, <2>4, <2>5 DEF Fits
<1>4. \A n \in (g + 2)..Len(heard) : Opposite(heard[n], heard[n - 1])
  BY DEF Sound, IsRecent
<1> QED BY <1>1, <1>2, <1>3, <1>4 DEF IsRecent

\* The place of the next pattern, and how many there are with it.
LEMMA NextPlace ==
  ASSUME NEW p \in Nat, p <= 7, NEW n \in Nat, n <= 8, n < 8 => p = n,
         NEW size, size = IF n >= p + 1 THEN n ELSE p + 1,
         NEW next, next = IF p + 1 = 8 THEN 0 ELSE p + 1
  PROVE  n <= size /\ p < size /\ size \in Nat /\ (size < 8 => next = size)
OBVIOUS

\* A pattern that begins with a pulse.
LEMMA AddPatternIs ==
  ASSUME NEW e, Sound(e), heard \in Seq(Pulses), NotUsed(e), NEW pulse \in Pulses,
         NEW f, f = AddPattern(e, pulse)
  PROVE  /\ Sound(f) /\ f.message = e.message /\ Gone(f, heard) = Gone(e, heard) /\ f.out = e.out
         /\ Fits(f, e.patternPos, pulse)
<1> DEFINE pp == e.patternPos
           pos == pp + 1
           t == [e.pattern EXCEPT ![pp] = pulse]
           next == IF pos = MaxNumPattern THEN 0 ELSE pos
           size == Max({e.patternLen, pos})
           mc == IF pos = MaxNumPattern THEN FALSE ELSE e.mcDetected
<1>1. /\ DOMAIN e = Fields /\ Typed(e) /\ e.pattern \in [Patterns -> Lengths] /\ pp \in Patterns
      /\ e.mcDetected \in BOOLEAN /\ e.patternLen \in Nat /\ e.patternLen <= 8
      /\ pp \in Nat /\ pp <= 7
  <2>1. Typed(e)
    BY DEF Sound
  <2>2. e.patternPos \in Patterns
    BY <2>1, FieldTypes
  <2>3. e.patternPos \in Nat /\ e.patternPos <= 7
    BY <2>2, PatternsAre
  <2> QED BY <2>1, <2>2, <2>3, FieldTypes, Numbers DEF Typed
<1>2. /\ pos \in Nat /\ pos <= 8 /\ next \in Patterns /\ size \in 0..8
      /\ size = IF e.patternLen >= pos THEN e.patternLen ELSE pos
  <2>1. pos \in Nat /\ pos <= 8 /\ next \in Patterns /\ pos \in Int /\ e.patternLen \in Int
    <3> HIDE DEF pp
    <3>1. pos \in Nat /\ pos <= 8 /\ next \in Nat /\ next <= 7 /\ pos \in Int
      BY <1>1
    <3>2. next \in Patterns
      BY <3>1, PatternsAre
    <3> QED BY <1>1, <3>1, <3>2
  <2> HIDE DEF pos
  <2>2. size = IF e.patternLen >= pos THEN e.patternLen ELSE pos
    BY <2>1, MaxOfTwo
  <2> HIDE DEF size
  <2>3. size \in Nat /\ size <= 8
    BY <1>1, <2>1, <2>2
  <2>4. size \in 0..8
    BY <2>3, RangesAre
  <2> QED BY <2>1, <2>2, <2>4
<1>3. f = [e EXCEPT !.pattern = t, !.patternPos = next, !.patternLen = size, !.mcDetected = mc]
  BY DEF AddPattern
<1>4. /\ t \in [Patterns -> Lengths] /\ t[pp] = pulse
      /\ \A p \in Patterns : p # pp => t[p] = e.pattern[p]
  <2>1. pulse \in Lengths
    BY PulsesAre
  <2> QED BY <1>1, <2>1
<1>5. mc \in BOOLEAN /\ (mc => e.mcDetected)
  BY <1>1
<1>6. e.patternLen <= size /\ pp < size /\ size \in Nat /\ (size < 8 => next = size)
  <2>1. e.patternLen < 8 => pp = e.patternLen
    BY DEF Sound, Placed
  <2>2. size = IF e.patternLen >= pp + 1 THEN e.patternLen ELSE pp + 1
    BY <1>2
  <2>3. next = IF pp + 1 = 8 THEN 0 ELSE pp + 1
    OBVIOUS
  <2> HIDE DEF size, next, pos, pp
  <2> QED BY <1>1, <2>1, <2>2, <2>3, NextPlace
<1> HIDE DEF t, next, size, mc, pos
<1>7. /\ SameBut(e, f, {"pattern", "patternPos", "patternLen", "mcDetected"})
      /\ f["pattern"] = t /\ f["patternPos"] = next /\ f["patternLen"] = size
      /\ f["mcDetected"] = mc
  BY <1>1, <1>3, SortedAre DEF SameBut, Fields
<1>8. Typed(f)
  <2> DEFINE changed == {"pattern", "patternPos", "patternLen", "mcDetected"}
  <2>1. f["pattern"] \in Sorts["pattern"]
    BY <1>4, <1>7, SortsAre
  <2>2. f["patternPos"] \in Sorts["patternPos"]
    BY <1>2, <1>7, SortsAre
  <2>3. f["patternLen"] \in Sorts["patternLen"]
    BY <1>2, <1>7, SortsAre
  <2>4. f["mcDetected"] \in Sorts["mcDetected"]
    BY <1>5, <1>7, SortsAre
  <2>5. changed \in SUBSET Sorted /\ SameBut(e, f, changed)
    BY <1>7, SortedAre
  <2>6. \A x \in changed : f[x] \in Sorts[x]
    BY <2>1, <2>2, <2>3, <2>4
  <2> HIDE DEF changed
  <2> QED BY <1>1, <2>5, <2>6, StaysTyped
<1>9. f.message = e.message /\ f.out = e.out /\ f.state = e.state
  BY <1>7, SortedAre DEF SameBut, Fields
<1>10. IsRecent(f, heard) /\ Gone(f, heard) = Gone(e, heard)
  <2>1. Count(e) \in Nat
    BY Numbers
  <2>2. ASSUME NEW i \in 0..(Count(e) - 1)
        PROVE  /\ At(e, i) < f.patternLen /\ f.pattern[At(e, i)] # 0
               /\ Opposite(f.pattern[At(e, i)], e.pattern[At(e, i)]) = FALSE
    <3>1. i \in Nat /\ i < Count(e)
      BY <2>1
    <3>2. /\ At(e, i) \in Patterns /\ At(e, i) < e.patternLen /\ e.pattern[At(e, i)] # 0
      BY <3>1, PlaceFits
    <3>3. At(e, i) # pp
      BY DEF NotUsed
    <3>4. f.pattern[At(e, i)] = e.pattern[At(e, i)]
      BY <1>4, <1>7, <3>2, <3>3
    <3>5. At(e, i) < f.patternLen
      <4>1. At(e, i) \in Nat
        BY <3>2, PatternsAre
      <4>2. f.patternLen = size
        BY <1>7
      <4>3. e.patternLen \in Nat /\ size \in Nat /\ e.patternLen <= size
        BY <1>1, <1>6
      <4>4. At(e, i) < size
        BY <3>2, <4>1, <4>3, LessThanMore
      <4> QED BY <4>2, <4>4
    <3> QED BY <3>2, <3>4, <3>5 DEF Opposite
  <2> QED BY <1>9, <2>2, SignsAreRecent
<1>11. Placed(f) /\ Continued(f)
  <2>1. Placed(f)
    BY <1>6, <1>7 DEF Placed
  <2>2. Continued(f)
    BY <1>5, <1>7, <1>9 DEF Sound, Continued
  <2> QED BY <2>1, <2>2
<1>12. Sound(f)
  BY <1>8, <1>9, <1>10, <1>11 DEF Sound
<1>13. Fits(f, pp, pulse)
  <2>1. pulse # 0
    BY PulsesAre
  <2> QED BY <1>4, <1>6, <1>7, <2>1 DEF Fits, Opposite
<1> QED BY <1>9, <1>10, <1>12, <1>13

-----------------------------------------------------------------------------
(* A pulse is added.                                                        *)

\* findpatt.
LEMMA FindPattIs ==
  ASSUME NEW e, Sound(e), heard \in Seq(Pulses), NEW pulse \in Pulses,
         NEW p, p = FindPatt(e, pulse), p # None
  PROVE  p \in Patterns /\ p < e.patternLen /\ e.pattern[p] # 0 /\ ~ Opposite(pulse, e.pattern[p])
<1> DEFINE near == {q \in 0..(e.patternLen - 1) :
                      /\ e.pattern[q] # 0 /\ ~ Opposite(pulse, e.pattern[q])
                      /\ InTol(pulse, e.pattern[q], Abs(pulse) \div 5)}
<1>1. e.patternLen \in Nat /\ e.patternLen <= 8
  BY Numbers
<1>2. p = IF near = {} THEN None ELSE Min(near)
  BY DEF FindPatt
<1>3. near # {} /\ p = Min(near)
  BY <1>2
<1>4. near \in SUBSET Nat
  BY <1>1
<1>5. \A q \in near : q \in Patterns /\ q < e.patternLen /\ e.pattern[q] # 0
                      /\ ~ Opposite(pulse, e.pattern[q])
  BY <1>1
<1> HIDE DEF near
<1>6. Min(near) \in near
  BY <1>3, <1>4, MinIs
<1> QED BY <1>3, <1>5, <1>6

\* The mean of two lengths of one sign.
LEMMA AverageIs ==
  ASSUME NEW a \in Int, NEW b \in Int, a # 0, b # 0, (a < 0) = (b < 0), NEW n \in Nat,
         -n <= a, a <= n, -n <= b, b <= n, NEW m, m = Quotient(a + b, 2)
  PROVE  m \in Int /\ m # 0 /\ -n <= m /\ m <= n /\ (m < 0) = (a < 0)
<1>1. CASE a < 0
  <2>1. m = -((-(a + b)) \div 2)
    BY <1>1 DEF Quotient
  <2> QED BY <1>1, <2>1
<1>2. CASE ~ (a < 0)
  <2>1. m = (a + b) \div 2
    BY <1>2 DEF Quotient
  <2> QED BY <1>2, <2>1
<1> QED BY <1>1, <1>2

\* A pulse that is averaged into a pattern.
LEMMA AveragedIs ==
  ASSUME NEW e, Sound(e), heard \in Seq(Pulses), NEW pulse \in Pulses, NEW p \in Patterns,
         p < e.patternLen, e.pattern[p] # 0, ~ Opposite(pulse, e.pattern[p]),
         NEW f, f = Averaged(e, p, pulse)
  PROVE  /\ Sound(f) /\ f.message = e.message /\ Gone(f, heard) = Gone(e, heard) /\ f.out = e.out
         /\ Fits(f, p, pulse)
<1> DEFINE a == e.pattern[p]
           m == Quotient(a + pulse, 2)
           t == [e.pattern EXCEPT ![p] = m]
<1>1. f = [e EXCEPT !.pattern = t]
  BY DEF Averaged
<1>2. DOMAIN e = Fields /\ Typed(e) /\ e.pattern \in [Patterns -> Lengths] /\ a \in Lengths
  <2>1. Typed(e)
    BY DEF Sound
  <2>2. e.pattern \in [Patterns -> Lengths]
    BY <2>1, FieldTypes
  <2> QED BY <2>1, <2>2 DEF Typed
<1>3. m \in Lengths /\ m # 0 /\ (m < 0) = (a < 0)
  <2> HIDE DEF a
  <2>1. a \in Int /\ -MaxPulse <= a /\ a <= MaxPulse /\ a # 0
    BY <1>2, LengthsAre DEF a
  <2>2. pulse \in Int /\ -MaxPulse <= pulse /\ pulse <= MaxPulse /\ pulse # 0
    BY LengthsAre, PulsesAre
  <2>3. (a < 0) = (pulse < 0)
    BY DEF Opposite, a
  <2> HIDE DEF m
  <2>4. m = Quotient(a + pulse, 2)
    BY DEF m
  <2>5. m \in Int /\ m # 0 /\ -MaxPulse <= m /\ m <= MaxPulse /\ (m < 0) = (a < 0)
    BY <2>1, <2>2, <2>3, <2>4, MaxPulseIs, AverageIs
  <2> QED BY <2>5, LengthsAre
<1> HIDE DEF m
<1>4. /\ t \in [Patterns -> Lengths] /\ t[p] = m
      /\ \A q \in Patterns : q # p => t[q] = e.pattern[q]
  BY <1>2, <1>3
<1> HIDE DEF t
<1>5. SameBut(e, f, {"pattern"}) /\ f["pattern"] = t
  BY <1>1, <1>2, SortedAre DEF SameBut, Fields
<1>6. Typed(f)
  <2> DEFINE changed == {"pattern"}
  <2>1. f["pattern"] \in Sorts["pattern"]
    BY <1>4, <1>5, SortsAre
  <2>2. changed \in SUBSET Sorted /\ SameBut(e, f, changed) /\ \A x \in changed : f[x] \in Sorts[x]
    BY <1>5, <2>1, SortedAre
  <2> HIDE DEF changed
  <2> QED BY <1>2, <2>2, StaysTyped
<1>7. /\ f.message = e.message /\ f.out = e.out /\ f.state = e.state
      /\ f.patternLen = e.patternLen /\ f.patternPos = e.patternPos /\ f.mcDetected = e.mcDetected
  BY <1>5, SortedAre DEF SameBut, Fields
<1>8. IsRecent(f, heard) /\ Gone(f, heard) = Gone(e, heard)
  <2>1. Count(e) \in Nat
    BY Numbers
  <2>2. ASSUME NEW i \in 0..(Count(e) - 1)
        PROVE  /\ At(e, i) < f.patternLen /\ f.pattern[At(e, i)] # 0
               /\ Opposite(f.pattern[At(e, i)], e.pattern[At(e, i)]) = FALSE
    <3>1. i \in Nat /\ i < Count(e)
      BY <2>1
    <3>2. /\ At(e, i) \in Patterns /\ At(e, i) < e.patternLen /\ e.pattern[At(e, i)] # 0
      BY <3>1, PlaceFits
    <3>3. CASE At(e, i) = p
      <4>1. f.pattern[At(e, i)] = m /\ e.pattern[At(e, i)] = a
        BY <1>4, <1>5, <3>3
      <4> QED BY <1>3, <1>7, <3>2, <4>1 DEF Opposite
    <3>4. CASE At(e, i) # p
      <4>1. f.pattern[At(e, i)] = e.pattern[At(e, i)]
        BY <1>4, <1>5, <3>2, <3>4
      <4> QED BY <1>7, <3>2, <4>1 DEF Opposite
    <3> QED BY <3>3, <3>4
  <2> QED BY <1>7, <2>2, SignsAreRecent
<1>9. Sound(f)
  BY <1>6, <1>7, <1>8 DEF Sound, Placed, Continued
<1>10. Fits(f, p, pulse)
  <2>1. f.pattern[p] = m
    BY <1>4, <1>5
  <2> QED BY <1>3, <1>7, <2>1 DEF Fits, Opposite
<1> QED BY <1>7, <1>8, <1>9, <1>10

\* What was heard with one more pulse.
LEMMA HeardIs ==
  ASSUME heard \in Seq(Pulses), NEW pulse \in Pulses
  PROVE  /\ Append(heard, pulse) \in Seq(Pulses) /\ Len(Append(heard, pulse)) = Len(heard) + 1
         /\ Append(heard, pulse)[Len(heard) + 1] = pulse
         /\ \A n \in 1..Len(heard) : Append(heard, pulse)[n] = heard[n]
OBVIOUS

\* The buffer has the pulse, too.
HasPulse(e, pulse, f) ==
  /\ Typed(f) /\ Buffer!Clean(f.message) /\ IsRecent(f, Append(heard, pulse)) /\ Placed(f)
  /\ Continued(f) /\ ~ f.truncated /\ f.out = e.out
  /\ Gone(f, Append(heard, pulse)) = Gone(e, heard)

\* A value for the pulse is added to a buffer with room for it.
LEMMA AddDataIs ==
  ASSUME NEW e, Sound(e), heard \in Seq(Pulses), NEW pulse \in Pulses, Follows(e, pulse),
         Count(e) < 254, NEW p \in Patterns, Fits(e, p, pulse), NEW f, f = AddData(e, p)
  PROVE  HasPulse(e, pulse, f)
<1> DEFINE s == e.message
           t == Message!AddValue(s, p)
           past == Append(heard, pulse)
           h == Len(heard)
           g == Gone(e, heard)
           c == Count(e)
<1>1. /\ c \in Nat /\ c <= 254 /\ h \in Nat /\ g \in Nat /\ g = h - c /\ DOMAIN e = Fields
      /\ Typed(e)
  BY Numbers DEF Sound, Typed
<1>2. s \in Buffer!Stores /\ Buffer!Clean(s) /\ s.count = c /\ s.count # 254
  <2>1. s \in Buffer!Stores
    BY <1>1, FieldTypes
  <2>2. s.count = c
    BY DEF Count
  <2>3. c # 254
    BY <1>1
  <2> QED BY <2>1, <2>2, <2>3 DEF Sound
<1>3. ~ Message!Full(s)
  BY <1>2, NotFull
<1>4. f = [e EXCEPT !.message = t, !.truncated = FALSE]
  BY <1>3 DEF AddData
<1>5. p \in 0..15 /\ t = Message!AddValue(s, p)
  OBVIOUS
<1> HIDE DEF s, t
<1>6. /\ t \in Buffer!Stores /\ Buffer!Clean(t) /\ t.count = s.count + 1
      /\ t.cell[s.count] = p
      /\ \A i \in 0..(s.count - 1) : t.cell[i] = s.cell[i]
  <2>1. Added(s, p, t)
    BY <1>2, <1>5, AddToStore
  <2> QED BY <2>1 DEF Added
<1>7. /\ SameBut(e, f, {"message", "truncated"}) /\ f["message"] = t /\ f["truncated"] = FALSE
  BY <1>1, <1>4, SortedAre DEF SameBut, Fields
<1>8. Typed(f)
  <2> DEFINE changed == {"message", "truncated"}
  <2>1. f["message"] \in Sorts["message"]
    BY <1>6, <1>7, SortsAre
  <2>2. f["truncated"] \in Sorts["truncated"]
    BY <1>7, SortsAre
  <2>3. changed \in SUBSET Sorted /\ SameBut(e, f, changed)
    BY <1>7, SortedAre
  <2>4. \A x \in changed : f[x] \in Sorts[x]
    BY <2>1, <2>2
  <2> HIDE DEF changed
  <2> QED BY <1>1, <2>3, <2>4, StaysTyped
<1>9. /\ f.out = e.out /\ f.state = e.state /\ f.pattern = e.pattern
      /\ f.patternLen = e.patternLen /\ f.patternPos = e.patternPos /\ f.mcDetected = e.mcDetected
  BY <1>7, SortedAre DEF SameBut, Fields
<1>10. /\ Count(f) = c + 1 /\ At(f, c) = p
       /\ \A i \in 0..(c - 1) : At(f, i) = At(e, i)
  BY <1>2, <1>6, <1>7 DEF Count, At, s
<1>11. /\ Len(past) = h + 1 /\ past[h + 1] = pulse
       /\ \A n \in 1..h : past[n] = heard[n]
  BY HeardIs
<1> HIDE DEF past
<1>12. Gone(f, past) = g
  BY <1>1, <1>10, <1>11 DEF Gone
<1> HIDE DEF g, c, h
<1>13. ASSUME NEW n \in (g + 1)..(h + 1) PROVE Fits(f, ValueOf(f, past, n), past[n])
  <2>1. CASE n = h + 1
    <3>1. n - g - 1 = c
      BY <1>1, <2>1
    <3>2. ValueOf(f, past, n) = p
      BY <1>10, <1>12, <3>1 DEF ValueOf
    <3> QED BY <1>9, <1>11, <2>1, <3>2 DEF Fits
  <2>2. CASE n # h + 1
    <3>1. n \in (g + 1)..h /\ n - g - 1 \in 0..(c - 1) /\ n \in 1..h
      BY <1>1, <2>2
    <3>2. ValueOf(f, past, n) = At(e, n - g - 1) /\ ValueOf(e, heard, n) = At(e, n - g - 1)
      BY <1>10, <1>12, <3>1 DEF ValueOf, g
    <3>3. Fits(e, ValueOf(e, heard, n), heard[n])
      BY <3>1 DEF Sound, IsRecent, g, h
    <3> QED BY <1>9, <1>11, <3>1, <3>2, <3>3 DEF Fits
  <2> QED BY <2>1, <2>2
<1>14. ASSUME NEW n \in (g + 2)..(h + 1) PROVE Opposite(past[n], past[n - 1])
  <2>1. CASE n = h + 1
    <3>1. c # 0 /\ h \in 1..h /\ n - 1 = h
      BY <1>1, <2>1
    <3>2. Opposite(pulse, heard[h])
      BY <3>1 DEF Follows, c, h
    <3> QED BY <1>11, <2>1, <3>1, <3>2
  <2>2. CASE n # h + 1
    <3>1. n \in (g + 2)..h /\ n \in 1..h /\ n - 1 \in 1..h
      BY <1>1, <2>2
    <3>2. Opposite(heard[n], heard[n - 1])
      BY <3>1 DEF Sound, IsRecent, g, h
    <3> QED BY <1>11, <3>1, <3>2
  <2> QED BY <2>1, <2>2
<1>15. IsRecent(f, past)
  <2>1. g >= 0
    BY <1>1
  <2> QED BY <1>11, <1>12, <1>13, <1>14, <2>1 DEF IsRecent
<1>16. Placed(f) /\ Continued(f)
  BY <1>9 DEF Sound, Placed, Continued
<1> QED BY <1>6, <1>7, <1>8, <1>9, <1>12, <1>15, <1>16 DEF HasPulse, past, g

\* What decode makes of a detector.
Decodable(pulse, f) ==
  /\ Typed(f) /\ Buffer!Clean(f.message) /\ IsRecent(f, Append(heard, pulse)) /\ Placed(f)
  /\ Continued(f) /\ ~ f.truncated
  /\ Right(f)
  /\ \A q \in Reported(f) : Precedes(q, Gone(f, Append(heard, pulse)))

\* A pulse that can be added is matched to a pattern and added.
LEMMA MatchIs ==
  ASSUME NEW e, NEW f, heard \in Seq(Pulses), NEW pulse \in Pulses, Accepts(e, f, pulse)
  PROVE  Decodable(pulse, Match(f, pulse))
<1> DEFINE p == FindPatt(f, pulse)
           r == MakeRoom(f)
<1>1. /\ Sound(f) /\ Right(f) /\ Fresh(f) /\ Follows(f, pulse) /\ Count(f) < 254
  BY DEF Accepts
<1>2. ASSUME NEW a, Sound(a), Right(a), Fresh(a), Follows(a, pulse), Count(a) < 254,
             NEW q \in Patterns, Fits(a, q, pulse), NEW g, g = AddData(a, q)
      PROVE  Decodable(pulse, g)
  <2>1. HasPulse(a, pulse, g)
    BY <1>2, AddDataIs
  <2>2. /\ Typed(g) /\ Buffer!Clean(g.message) /\ IsRecent(g, Append(heard, pulse)) /\ Placed(g)
        /\ Continued(g) /\ ~ g.truncated /\ g.out = a.out
        /\ Gone(g, Append(heard, pulse)) = Gone(a, heard)
    BY <2>1 DEF HasPulse
  <2>3. Right(g)
    BY <1>2, <2>2, SameOut
  <2>4. Reported(g) = Reported(a)
    BY <2>2 DEF Reported
  <2>5. \A x \in Reported(g) : Precedes(x, Gone(g, Append(heard, pulse)))
    BY <1>2, <2>2, <2>4 DEF Fresh
  <2> QED BY <2>2, <2>3, <2>5 DEF Decodable
<1>3. ASSUME NEW a, Sound(a), NEW b, Sound(b), a.message = b.message, a.out = b.out,
             Gone(a, heard) = Gone(b, heard), Right(b), Fresh(b), Follows(b, pulse), Count(b) < 254
      PROVE  Right(a) /\ Fresh(a) /\ Follows(a, pulse) /\ Count(a) < 254
  <2>1. Right(a)
    BY <1>3, SameOut
  <2>2. Fresh(a)
    BY <1>3 DEF Fresh, Reported
  <2>3. Count(a) = Count(b)
    BY <1>3 DEF Count
  <2> QED BY <1>3, <2>1, <2>2, <2>3 DEF Follows
<1>4. CASE p # None
  <2> DEFINE a == Averaged(f, p, pulse)
  <2>1. Match(f, pulse) = AddData(a, p)
    BY <1>4 DEF Match
  <2>2. p \in Patterns /\ p < f.patternLen /\ f.pattern[p] # 0 /\ ~ Opposite(pulse, f.pattern[p])
    BY <1>1, <1>4, FindPattIs
  <2> HIDE DEF p
  <2>3. /\ Sound(a) /\ a.message = f.message /\ Gone(a, heard) = Gone(f, heard) /\ a.out = f.out
        /\ Fits(a, p, pulse)
    BY <1>1, <2>2, AveragedIs
  <2> HIDE DEF a
  <2>4. Right(a) /\ Fresh(a) /\ Follows(a, pulse) /\ Count(a) < 254
    BY <1>1, <1>3, <2>3
  <2> QED BY <1>2, <2>1, <2>2, <2>3, <2>4
<1>5. CASE p = None
  <2> DEFINE a == AddPattern(r, pulse)
             q == r.patternPos
  <2>1. Match(f, pulse) = AddData(a, q)
    BY <1>5 DEF Match, AddNew
  <2>2. Sound(r) /\ Right(r) /\ Fresh(r) /\ Gone(f, heard) <= Gone(r, heard) /\ NotUsed(r)
    BY <1>1, MakeRoomIs
  <2> HIDE DEF r
  <2>3. Follows(r, pulse) /\ Count(r) < 254
    <3>1. /\ Count(r) \in Nat /\ Count(f) \in Nat /\ Len(heard) \in Nat
          /\ Gone(r, heard) = Len(heard) - Count(r) /\ Gone(f, heard) = Len(heard) - Count(f)
      BY <1>1, <2>2, Numbers
    <3>2. Count(r) <= Count(f)
      BY <2>2, <3>1
    <3>3. Count(f) = 0 => Count(r) = 0
      BY <3>1, <3>2
    <3>4. Count(r) < 254
      BY <1>1, <3>1, <3>2
    <3> QED BY <1>1, <3>3, <3>4 DEF Follows
  <2>4. /\ Sound(a) /\ a.message = r.message /\ Gone(a, heard) = Gone(r, heard) /\ a.out = r.out
        /\ Fits(a, q, pulse)
    BY <2>2, AddPatternIs
  <2>5. q \in Patterns
    <3>1. Typed(r)
      BY <2>2 DEF Sound
    <3> QED BY <3>1, FieldTypes
  <2> HIDE DEF a, q
  <2>6. Right(a) /\ Fresh(a) /\ Follows(a, pulse) /\ Count(a) < 254
    BY <1>3, <2>2, <2>3, <2>4
  <2> QED BY <1>2, <2>1, <2>4, <2>5, <2>6
<1> QED BY <1>4, <1>5

-----------------------------------------------------------------------------
(* The steps.                                                               *)

\* The last value of a recent buffer.
LEMMA LastIs == ASSUME NEW e, Sound(e), heard \in Seq(Pulses) PROVE LastOf(e.message) \in MaybePattern
<1>1. Count(e) \in Nat
  BY Numbers
<1>2. CASE Count(e) > 0
  <2>1. Count(e) - 1 \in Nat /\ Count(e) - 1 < Count(e)
    BY <1>1, <1>2
  <2>2. At(e, Count(e) - 1) \in Patterns
    BY <2>1, PlaceFits
  <2> QED BY <1>2, <2>2 DEF LastOf, Count, At, MaybePattern
<1>3. CASE ~ (Count(e) > 0)
  BY <1>3, NoneIsNot DEF LastOf, Count
<1> QED BY <1>2, <1>3

\* What decode begins with.
Ready(e) ==
  Sound(e) /\ Right(e) /\ Fresh(e) /\ ~ e.truncated /\ e.last = LastOf(e.message)

\* A detector that the invariant holds for is ready for a pulse.
LEMMA ReadyIs ==
  ASSUME Inv, NEW e, SameBut(d, e, {"success", "out", "last"}), e.success = FALSE, e.out = <<>>,
         e.last = LastOf(d.message)
  PROVE  Ready(e)
<1> DEFINE changed == {"success", "out", "last"}
<1>1. /\ Sound(d) /\ ~ d.truncated /\ heard \in Seq(Pulses) /\ DOMAIN d = Fields
      /\ \A j \in 1..Len(reports) : Precedes(reports[j], Gone(d, heard))
  BY DEF Inv, ReportsAreGone, Sound, Typed
<1>2. /\ SameBut(d, e, changed)
      /\ e["success"] = FALSE /\ e["out"] = <<>> /\ e["last"] = LastOf(d.message)
  OBVIOUS
<1>3. e.truncated = d.truncated /\ e.mcDetected = d.mcDetected /\ e.state = d.state
  BY <1>2, SortedAre DEF SameBut, Fields
<1>4. e["last"] \in Sorts["last"]
  BY <1>1, <1>2, LastIs, SortsAre
<1>5. e["success"] \in Sorts["success"]
  BY <1>2, SortsAre
<1>6. /\ changed \in SUBSET Fields
      /\ changed \intersect {"message", "pattern", "patternLen", "patternPos", "mc"} = {}
      /\ \A x \in changed \intersect Sorted : e[x] \in Sorts[x]
  BY <1>4, <1>5, SortedAre DEF Fields
<1>7. Continued(e)
  BY <1>1, <1>3 DEF Continued, Sound
<1>8. IsSequence(e.out)
  <2>1. <<>> \in Seq({})
    OBVIOUS
  <2> QED BY <1>2, <2>1 DEF IsSequence
<1> HIDE DEF changed
<1>9. Sound(e) /\ e.message = d.message /\ Gone(e, heard) = Gone(d, heard)
  BY <1>1, <1>2, <1>6, <1>7, <1>8, ChangeStaysSound
<1>10. Len(e.out) = 0
  BY <1>2
<1>11. Right(e)
  BY <1>10 DEF Right
<1>12. Fresh(e)
  <2>1. {e.out[j] : j \in 1..Len(e.out)} = {}
    BY <1>10
  <2> QED BY <1>1, <1>9, <2>1 DEF Fresh, Reported
<1> QED BY <1>1, <1>2, <1>3, <1>9, <1>11, <1>12 DEF Ready

\* decode.
LEMMA DecodePulseIs ==
  ASSUME Inv, NEW pulse \in Pulses
  PROVE  Decodable(pulse, DecodePulse(d, pulse))
<1> DEFINE e == [d EXCEPT !.success = FALSE, !.out = <<>>, !.last = LastOf(d.message)]
           f == Accept(e, pulse)
<1>1. DecodePulse(d, pulse) = Match(f, pulse)
  BY DEF DecodePulse, DoDetect
<1>2. Ready(e)
  <2>1. DOMAIN d = Fields
    BY DEF Inv, Sound, Typed
  <2>2. /\ SameBut(d, e, {"success", "out", "last"})
        /\ e.success = FALSE /\ e.out = <<>> /\ e.last = LastOf(d.message)
    BY <2>1, SortedAre DEF SameBut, Fields
  <2> HIDE DEF e
  <2> QED BY <2>2, ReadyIs
<1> HIDE DEF e
<1>3. heard \in Seq(Pulses)
  BY DEF Inv
<1>4. Accepts(e, f, pulse)
  BY <1>2, <1>3, AcceptIs DEF Ready
<1> HIDE DEF f
<1> QED BY <1>1, <1>3, <1>4, MatchIs

\* The invariant holds when the detector is new.
LEMMA InvInit == Init => Inv
<1> SUFFICES ASSUME Init PROVE Inv
  OBVIOUS
<1>1. d = New /\ rest = <<>> /\ heard = <<>> /\ reports = <<>>
  BY DEF Init
<1>2. heard \in Seq(Pulses) /\ rest \in Seq(Pulses) /\ Len(heard) = 0 /\ Len(reports) = 0
      /\ reports \in Seq({})
  BY <1>1
<1>3. Count(d) = 0
  BY <1>1, NewIs, NewStore DEF Count
<1>4. IsRecent(d, heard)
  BY <1>2, <1>3, EmptyIsRecent
<1>5. Typed(d)
  <2>1. \A x \in Sorted : d[x] \in Sorts[x]
    <3>1. d.state \in States /\ d.patternLen \in 0..8 /\ d.patternPos \in Patterns
          /\ d.mstart \in 0..254 /\ d.mend \in 0..255 /\ d.moves \in 0..3 /\ d.bit \in 0..1
      BY <1>1, NewIs DEF States
    <3>2. /\ d["message"] \in Sorts["message"] /\ d["pattern"] \in Sorts["pattern"]
          /\ d["histo"] \in Sorts["histo"]
      BY <1>1, NewIs, NewStore, SortsAre, ZerosAre
    <3>3. /\ d["clock"] \in Sorts["clock"] /\ d["sync"] \in Sorts["sync"]
          /\ d["last"] \in Sorts["last"]
      BY <1>1, NewIs, SortsAre, NoneIsNot
    <3>4. /\ d["patternLen"] \in Sorts["patternLen"] /\ d["patternPos"] \in Sorts["patternPos"]
          /\ d["state"] \in Sorts["state"] /\ d["bit"] \in Sorts["bit"]
          /\ d["mstart"] \in Sorts["mstart"] /\ d["mend"] \in Sorts["mend"]
          /\ d["moves"] \in Sorts["moves"]
      BY <3>1, SortsAre
    <3>5. /\ d["success"] \in Sorts["success"] /\ d["truncated"] \in Sorts["truncated"]
          /\ d["mcDetected"] \in Sorts["mcDetected"]
      BY <1>1, NewIs, SortsAre
    <3> QED BY <3>2, <3>3, <3>4, <3>5, SortedAre
  <2>2. DOMAIN d.mc = McFields /\ d.mc.sync \in BOOLEAN /\ d.mc.bits \in Bits
    BY <1>1, NewIs, NoMcIs DEF McTyped
  <2>3. IsSequence(d.out)
    <3>1. d.out \in Seq({})
      BY <1>1, NewIs
    <3> QED BY <3>1 DEF IsSequence
  <2> QED BY <1>1, <2>1, <2>2, <2>3, NewIs DEF Typed
<1>6. Buffer!Clean(d.message) /\ Placed(d) /\ Continued(d) /\ ~ d.truncated
  BY <1>1, NewIs, NewStore DEF Placed, Continued
<1>7. ReportsAreGone
  BY <1>2 DEF ReportsAreGone, IsSequence
<1> QED BY <1>2, <1>4, <1>5, <1>6, <1>7 DEF Inv, Sound

\* What is written, after what was written before.
LEMMA WrittenIs ==
  ASSUME IsSequence(reports), NEW out, IsSequence(out)
  PROVE  LET all == reports \o out
             n == Len(reports)
         IN /\ IsSequence(all) /\ n \in Nat /\ Len(out) \in Nat /\ Len(all) = n + Len(out)
            /\ \A j \in 1..n : all[j] = reports[j]
            /\ \A j \in 1..Len(out) : all[n + j] = out[j]
<1>1. PICK S : reports \in Seq(S)
  BY DEF IsSequence
<1>2. PICK T : out \in Seq(T)
  BY DEF IsSequence
<1>3. reports \in Seq(S \union T) /\ out \in Seq(S \union T)
  BY <1>1, <1>2
<1>4. Len(reports) \in Nat /\ Len(out) \in Nat
  BY <1>3
<1>5. /\ reports \o out \in Seq(S \union T)
      /\ Len(reports \o out) = Len(reports) + Len(out)
      /\ \A i \in 1..(Len(reports) + Len(out)) :
           (reports \o out)[i] = IF i <= Len(reports) THEN reports[i] ELSE out[i - Len(reports)]
  BY <1>3, ConcatProperties
<1>6. ASSUME NEW j \in 1..Len(reports) PROVE (reports \o out)[j] = reports[j]
  <2>1. j \in 1..(Len(reports) + Len(out)) /\ j <= Len(reports)
    BY <1>4
  <2> QED BY <1>5, <2>1
<1>7. ASSUME NEW j \in 1..Len(out) PROVE (reports \o out)[Len(reports) + j] = out[j]
  <2>1. /\ Len(reports) + j \in 1..(Len(reports) + Len(out)) /\ ~ (Len(reports) + j <= Len(reports))
        /\ Len(reports) + j - Len(reports) = j
    BY <1>4
  <2> QED BY <1>5, <2>1
<1> QED BY <1>4, <1>5, <1>6, <1>7 DEF IsSequence

\* What decode keeps and reports, once it is the detector.
LEMMA DecodeStep ==
  ASSUME Inv, Decode
  PROVE  Inv' /\ Right(d') /\ IsSequence(d'.out)
<1> DEFINE pulse == Head(rest)
           past == Append(heard, pulse)
           f == DecodePulse(d, pulse)
<1>1. /\ heard \in Seq(Pulses) /\ rest \in Seq(Pulses) /\ rest # <<>>
      /\ d' = f /\ heard' = past /\ rest' = Tail(rest) /\ reports' = reports \o d'.out
  BY DEF Inv, Decode
<1>2. pulse \in Pulses /\ Tail(rest) \in Seq(Pulses)
  BY <1>1, HeadTailProperties
<1> HIDE DEF pulse
<1>3. Decodable(pulse, f)
  BY <1>2, DecodePulseIs
<1>4. past \in Seq(Pulses) /\ Len(past) \in Nat
  BY <1>1, <1>2
<1> HIDE DEF f
<1>5. /\ Typed(f) /\ Buffer!Clean(f.message) /\ IsRecent(f, past) /\ Placed(f) /\ Continued(f)
      /\ ~ f.truncated /\ Right(f)
      /\ \A q \in Reported(f) : Precedes(q, Gone(f, past))
  BY <1>3 DEF Decodable
<1>6. IsSequence(f.out) /\ IsSequence(reports)
  BY <1>5 DEF Typed, Inv, ReportsAreGone
<1> HIDE DEF past
<1>7. Sound(d)'
  BY <1>1, <1>5 DEF Sound
<1>8. ReportsAreGone'
  <2> DEFINE all == reports \o f.out
             n == Len(reports)
  <2>1. /\ IsSequence(all) /\ n \in Nat /\ Len(f.out) \in Nat /\ Len(all) = n + Len(f.out)
        /\ \A j \in 1..n : all[j] = reports[j]
        /\ \A j \in 1..Len(f.out) : all[n + j] = f.out[j]
    BY <1>6, WrittenIs
  <2> HIDE DEF all
  <2>2. ASSUME NEW j \in 1..Len(all) PROVE all[j] \in Reported(f)
    <3>1. CASE j <= n
      <4>1. j \in 1..n
        BY <2>1, <3>1
      <4> QED BY <2>1, <4>1 DEF Reported
    <3>2. CASE ~ (j <= n)
      <4>1. j - n \in 1..Len(f.out) /\ n + (j - n) = j
        BY <2>1, <3>2
      <4>2. all[j] = f.out[j - n]
        BY <2>1, <4>1
      <4> QED BY <4>1, <4>2 DEF Reported
    <3> QED BY <3>1, <3>2
  <2>3. \A j \in 1..Len(all) : Precedes(all[j], Gone(f, past))
    BY <1>5, <2>2
  <2>4. reports' = all
    BY <1>1 DEF all
  <2> QED BY <1>1, <2>1, <2>3, <2>4 DEF ReportsAreGone
<1>9. ~ d'.truncated
  BY <1>1, <1>5
<1>10. Inv'
  BY <1>1, <1>2, <1>4, <1>7, <1>8, <1>9 DEF Inv
<1> QED BY <1>1, <1>5, <1>6, <1>10

\* Every step keeps the invariant.
LEMMA InvStep == Inv /\ [Next]_vars => Inv'
<1> SUFFICES ASSUME Inv, [Next]_vars PROVE Inv'
  OBVIOUS
<1>1. CASE Receive
  <2>1. UNCHANGED <<d, heard, reports>> /\ \E f \in Fragments : rest' = f.pulses
    BY <1>1 DEF Receive
  <2>2. rest' \in Seq(Pulses)
    BY <2>1, FragmentsAssumption
  <2> QED BY <2>1, <2>2 DEF Inv, Sound, ReportsAreGone
<1>2. CASE Decode
  BY <1>2, DecodeStep
<1>3. CASE Stopped
  BY <1>3 DEF Stopped, vars, Inv, Sound, ReportsAreGone
<1>4. CASE UNCHANGED vars
  BY <1>4 DEF vars, Inv, Sound, ReportsAreGone
<1> QED BY <1>1, <1>2, <1>3, <1>4 DEF Next

-----------------------------------------------------------------------------
(* The theorems.                                                            *)

\* The invariant: the detector is sound whatever pulses come, and what it reported has left the
\* buffer.
THEOREM DetectorInv == Spec => []Inv
BY InvInit, InvStep, PTL DEF Spec

\* What is kept between pulses stays within its fields, and every index within what it points into.
THEOREM DetectorTypeOK == Spec => []TypeOK
<1>1. Inv => TypeOK
  <2> SUFFICES ASSUME Inv PROVE TypeOK
    OBVIOUS
  <2>1. Typed(d)
    BY DEF Inv, Sound
  <2>2. d.message.count \in 0..MaxMsgSize /\ d.message.cell \in [Message!Cells -> 0..15]
    <3>1. d.message \in Buffer!Stores
      BY <2>1, FieldTypes
    <3>2. Message!Cells = 0..253
      BY DEF Message!Cells, Message!Capacity
    <3> QED BY <3>1, <3>2, SizeIs DEF Buffer!Stores, Buffer!Digits
  <2>3. d.mc.bits \in Seq(0..1) /\ Len(d.mc.bits) <= McMaxBits
    BY <2>1 DEF Typed, Bits
  <2>4. /\ d.pattern \in [Patterns -> -MaxPulse..MaxPulse] /\ d.histo \in [Patterns -> 0..MaxMsgSize]
        /\ d.patternLen \in 0..MaxNumPattern /\ d.patternPos \in Patterns
    <3>1. d.pattern \in [Patterns -> Lengths] /\ d.histo \in [Patterns -> Tallies]
      BY <2>1, FieldTypes
    <3>2. d.patternLen \in 0..8 /\ d.patternPos \in Patterns
      BY <2>1, FieldTypes
    <3> QED BY <3>1, <3>2 DEF Lengths, Tallies
  <2>5. {d.clock, d.sync, d.last} \subseteq MaybePattern
    BY <2>1, FieldTypes
  <2>6. d.mstart \in 0..MaxMsgSize /\ d.mend \in 0..(MaxMsgSize + 1) /\ d.moves \in 0..3
    BY <2>1, FieldTypes
  <2> QED BY <2>2, <2>3, <2>4, <2>5, <2>6 DEF TypeOK
<1> QED BY <1>1, DetectorInv, PTL

\* Whatever was reported, moved, merged or replaced, the buffer is what was heard last, and each of
\* its values has a pattern of its pulse's sign.
THEOREM DetectorBufferIsRecent == Spec => []BufferIsRecent
<1>1. Inv => BufferIsRecent
  BY DEF Inv, Sound, BufferIsRecent
<1> QED BY <1>1, DetectorInv, PTL

\* Every pulse report is what was heard, in order, and has no pulse that an earlier one had.
THEOREM DetectorReportsAreRecent == Spec => ReportsAreRecent
<1> DEFINE recent(k) == reports'[k].kind # "MC" =>
                          ReportIsRecent(reports'[k], heard, {reports'[j] : j \in 1..(k - 1)})
           A == \A k \in (Len(reports) + 1)..Len(reports') : recent(k)
<1>1. ASSUME Inv, Next PROVE A
  <2>1. CASE reports' = reports
    <3>1. Len(reports) \in Nat
      BY <1>1 DEF Inv, ReportsAreGone, IsSequence
    <3>2. (Len(reports) + 1)..Len(reports') = {}
      BY <2>1, <3>1
    <3> QED BY <3>2
  <2>2. CASE Decode
    <3> DEFINE n == Len(reports)
               out == d'.out
               all == reports'
    <3>1. Right(d') /\ IsSequence(out) /\ IsSequence(reports) /\ all = reports \o out
      BY <1>1, <2>2, DecodeStep DEF Decode, Inv, ReportsAreGone
    <3> HIDE DEF all
    <3>2. /\ n \in Nat /\ Len(out) \in Nat /\ Len(all) = n + Len(out)
          /\ \A j \in 1..n : all[j] = reports[j]
          /\ \A j \in 1..Len(out) : all[n + j] = out[j]
      BY <3>1, WrittenIs
    <3>3. ASSUME NEW k \in (n + 1)..Len(all), all[k].kind # "MC"
          PROVE  ReportIsRecent(all[k], heard, {all[j] : j \in 1..(k - 1)})
      <4> DEFINE i == k - n
                 before == {reports[j] : j \in 1..n} \union {out[j] : j \in 1..(i - 1)}
                 those == {all[j] : j \in 1..(k - 1)}
      <4>1. i \in 1..Len(out) /\ all[k] = out[i] /\ k \in Nat
        BY <3>2
      <4>2. {all[j] : j \in 1..(k - 1)} = before
        <5>1. ASSUME NEW j \in 1..(k - 1) PROVE all[j] \in before
          <6>1. CASE j <= n
            <7>1. j \in 1..n
              BY <3>2, <4>1, <6>1
            <7> QED BY <3>2, <7>1
          <6>2. CASE ~ (j <= n)
            <7>1. j - n \in 1..(i - 1) /\ j - n \in 1..Len(out) /\ n + (j - n) = j
              BY <3>2, <4>1, <6>2
            <7>2. all[j] = out[j - n]
              BY <3>2, <7>1
            <7> QED BY <7>1, <7>2
          <6> QED BY <6>1, <6>2
        <5>2. ASSUME NEW j \in 1..n PROVE \E x \in 1..(k - 1) : all[x] = reports[j]
          <6>1. j \in 1..(k - 1) /\ all[j] = reports[j]
            BY <3>2, <4>1
          <6> QED BY <6>1
        <5>3. ASSUME NEW j \in 1..(i - 1) PROVE \E x \in 1..(k - 1) : all[x] = out[j]
          <6>1. n + j \in 1..(k - 1) /\ j \in 1..Len(out)
            BY <3>2, <4>1
          <6>2. all[n + j] = out[j]
            BY <3>2, <6>1
          <6> QED BY <6>1, <6>2
        <5>4. \A x \in those : x \in before
          <6> HIDE DEF before
          <6> QED BY <5>1
        <5>5. \A x \in before : x \in those
          <6>1. \A x \in {reports[j] : j \in 1..n} : x \in those
            BY <5>2
          <6>2. \A x \in {out[j] : j \in 1..(i - 1)} : x \in those
            BY <5>3
          <6> HIDE DEF those
          <6> QED BY <6>1, <6>2
        <5> HIDE DEF before, those
        <5>6. those = before
          BY <5>4, <5>5
        <5> QED BY <5>6 DEF those
      <4> HIDE DEF before
      <4>3. ReportIsRecent(out[i], heard, before)
        <5>1. out[i].kind # "MC"
          BY <3>3, <4>1
        <5> QED BY <3>1, <4>1, <5>1 DEF Right, before
      <4> QED BY <4>1, <4>2, <4>3
    <3> QED BY <3>3 DEF all
  <2> QED BY <1>1, <2>1, <2>2 DEF Next, Receive, Stopped, vars
<1>2. Inv /\ [Next]_vars => [A]_vars
  BY <1>1
<1> QED BY <1>2, DetectorInv, PTL DEF Spec, ReportsAreRecent

=============================================================================
