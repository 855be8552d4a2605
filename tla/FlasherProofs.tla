---------------------------- MODULE FlasherProofs ----------------------------
(***************************************************************************)
(* What reading a HEX file and flashing it guarantee for every file, chip, *)
(* size of flash and pages, and any number of lost bytes and bad pages.    *)
(*                                                                         *)
(* The image is what the file says because, record by record, it is what   *)
(* the records read so far say.  A success means that the flash holds the  *)
(* image because a page counts only when its own answer was compared: no   *)
(* answer is mistaken for another's.  Until the signature, answers of many *)
(* sync commands may be under way, but its middle byte is only in the last *)
(* answer; afterwards there is one command at a time, and what loss and    *)
(* the firmware's greeting leave of its answer is the whole or is refused. *)
(***************************************************************************)
EXTENDS Flasher, Integers, Sequences, SequencesExt, SequenceTheorems, TLAPS

-----------------------------------------------------------------------------
(* Sequences.                                                               *)

\* A sequence without one of its elements.
LEMMA RemoveAtProperties ==
  ASSUME NEW S, NEW s \in Seq(S), NEW i \in 1..Len(s)
  PROVE  /\ RemoveAt(s, i) \in Seq(S)
         /\ Len(RemoveAt(s, i)) = Len(s) - 1
         /\ \A n \in 1..(Len(s) - 1) : RemoveAt(s, i)[n] = IF n < i THEN s[n] ELSE s[n + 1]
<1>1. Len(s) \in Nat /\ \A n \in 1..Len(s) : s[n] \in S
  BY LenProperties, ElementOfSeq
<1> DEFINE a == SubSeq(s, 1, i - 1)
           b == SubSeq(s, i + 1, Len(s))
<1>2. a \in Seq(S) /\ Len(a) = i - 1 /\ \A n \in 1..(i - 1) : a[n] = s[n]
  <2>1. i - 1 \in Int /\ \A n \in 1..(i - 1) : s[n] \in S
    BY <1>1
  <2>2. QED BY <2>1, <1>1, SubSeqProperties
<1>3. b \in Seq(S) /\ Len(b) = Len(s) - i /\ \A n \in 1..(Len(s) - i) : b[n] = s[n + i]
  <2>1. i + 1 \in Int /\ Len(s) \in Int /\ \A n \in (i + 1)..Len(s) : s[n] \in S
    BY <1>1
  <2>2. QED BY <2>1, <1>1, SubSeqProperties
<1>4. /\ a \o b \in Seq(S) /\ Len(a \o b) = Len(a) + Len(b)
      /\ \A n \in 1..(Len(a) + Len(b)) : (a \o b)[n] = IF n <= Len(a) THEN a[n] ELSE b[n - Len(a)]
  BY <1>2, <1>3, ConcatProperties
<1>5. RemoveAt(s, i) = a \o b
  BY DEF RemoveAt
<1> HIDE DEF a, b
<1>6. Len(a) + Len(b) = Len(s) - 1
  BY <1>1, <1>2, <1>3
<1>7. ASSUME NEW n \in 1..(Len(s) - 1) PROVE (a \o b)[n] = IF n < i THEN s[n] ELSE s[n + 1]
  <2>1. CASE n < i
    BY <2>1, <1>1, <1>2, <1>4, <1>6
  <2>2. CASE ~(n < i)
    <3>1. n - Len(a) = n - i + 1 /\ n - i + 1 \in 1..(Len(s) - i) /\ ~(n <= Len(a))
      BY <2>2, <1>1, <1>2
    <3>2. b[n - i + 1] = s[n + 1]
      BY <3>1, <1>1, <1>3
    <3>3. QED BY <2>2, <3>1, <3>2, <1>1, <1>4, <1>6
  <2>3. QED BY <2>1, <2>2
<1>8. QED BY <1>1, <1>4, <1>5, <1>6, <1>7

\* What is left of a sequence from its n-th element on.
LEMMA SuffixProperties ==
  ASSUME NEW S, NEW s \in Seq(S), NEW n \in Nat \ {0}, n <= Len(s) + 1
  PROVE  /\ SubSeq(s, n, Len(s)) \in Seq(S)
         /\ Len(SubSeq(s, n, Len(s))) = Len(s) - n + 1
         /\ \A i \in 1..(Len(s) - n + 1) : SubSeq(s, n, Len(s))[i] = s[n + i - 1]
<1>1. Len(s) \in Int /\ n \in Int /\ Len(s) \in Nat /\ \A i \in n..Len(s) : s[i] \in S
  BY LenProperties, ElementOfSeq
<1>2. QED BY <1>1, SubSeqProperties

\* A sequence of one element.
LEMMA OneElement ==
  ASSUME NEW S, NEW s \in Seq(S), Len(s) = 1
  PROVE  s = <<s[1]>>
<1>1. s[1] \in S
  BY ElementOfSeq
<1>2. <<s[1]>> \in Seq(S) /\ Len(<<s[1]>>) = 1 /\ <<s[1]>>[1] = s[1]
  BY <1>1
<1>3. QED BY <1>2, SeqEqual

\* Sequences of one or two elements.
LEMMA ShortSequences ==
  ASSUME NEW x, NEW y
  PROVE  /\ Append(<<>>, x) = <<x>> /\ Len(<<x>>) = 1 /\ Len(<<>>) = 0
         /\ <<x>> \o <<>> \o <<y>> = <<x, y>>
<1> DEFINE S == {x, y}
<1>1. <<>> \in Seq(S) /\ <<x>> \in Seq(S) /\ <<y>> \in Seq(S) /\ <<x, y>> \in Seq(S)
      /\ Len(<<>>) = 0 /\ Len(<<x>>) = 1 /\ Len(<<y>>) = 1 /\ Len(<<x, y>>) = 2
      /\ <<x>>[1] = x /\ <<y>>[1] = y /\ <<x, y>>[1] = x /\ <<x, y>>[2] = y
  OBVIOUS
<1>2. Append(<<>>, x) = <<x>>
  <2>1. Append(<<>>, x) \in Seq(S) /\ Len(Append(<<>>, x)) = 0 + 1 /\ Append(<<>>, x)[0 + 1] = x
    BY <1>1, AppendProperties
  <2>2. 0 + 1 = 1
    OBVIOUS
  <2>3. QED BY <2>1, <2>2, OneElement
<1>3. <<x>> \o <<>> = <<x>>
  BY <1>1, ConcatEmptySeq
<1>4. <<x>> \o <<y>> = <<x, y>>
  <2>1. <<x>> \o <<y>> \in Seq(S) /\ Len(<<x>> \o <<y>>) = 1 + 1
        /\ \A i \in 1..(1 + 1) : (<<x>> \o <<y>>)[i] = IF i <= 1 THEN <<x>>[i] ELSE <<y>>[i - 1]
    BY <1>1, ConcatProperties
  <2>2. 1 + 1 = 2 /\ 2 - 1 = 1 /\ 1 \in 1..2 /\ 2 \in 1..2 /\ \A i \in 1..2 : i = 1 \/ i = 2
    OBVIOUS
  <2>3. (<<x>> \o <<y>>)[1] = <<x>>[1] /\ (<<x>> \o <<y>>)[2] = <<y>>[2 - 1]
    BY <2>1, <2>2
  <2>4. \A i \in 1..2 : (<<x>> \o <<y>>)[i] = <<x, y>>[i]
    BY <1>1, <2>2, <2>3
  <2>5. Len(<<x>> \o <<y>>) = 2
    BY <2>1, <2>2
  <2>6. QED BY <1>1, <2>1, <2>4, <2>5, SeqEqual
<1>5. QED BY <1>1, <1>2, <1>3, <1>4

-----------------------------------------------------------------------------
(* Arithmetic of pages and addresses.                                       *)

LEMMA Division ==
  ASSUME NEW a \in Nat, NEW b \in Nat \ {0}
  PROVE  a \div b \in Nat /\ a % b \in 0..(b - 1) /\ a = b * (a \div b) + (a % b)
  OBVIOUS

LEMMA PagesCover ==
  ASSUME NEW length \in Nat, NEW size \in Nat \ {0}, NEW n \in Nat
  PROVE  /\ (length + size - 1) \div size \in Nat
         /\ n < (length + size - 1) \div size <=> n * size < length
<1> DEFINE q == (length + size - 1) \div size
           r == (length + size - 1) % size
<1>1. q \in Nat /\ r \in 0..(size - 1) /\ length + size - 1 = size * q + r
  <2>1. length + size - 1 \in Nat
    OBVIOUS
  <2>2. QED BY <2>1, Division
<1> HIDE DEF q, r
<1>2. n < q => n * size < length
  <2>1. SUFFICES ASSUME n < q PROVE n * size < length
    OBVIOUS
  <2>2. n * size + size <= size * q
    BY <1>1, <2>1
  <2>3. QED BY <1>1, <2>2
<1>3. ~(n < q) => ~(n * size < length)
  <2>1. SUFFICES ASSUME ~(n < q) PROVE ~(n * size < length)
    OBVIOUS
  <2>2. size * q <= n * size
    BY <1>1, <2>1
  <2>3. QED BY <1>1, <2>2
<1>4. QED BY <1>1, <1>2, <1>3 DEF q

LEMMA WordAddress ==
  ASSUME NEW n \in Nat
  PROVE  LET w == (n * PageSize) \div 2 IN
           /\ w % ByteBase \in Nat /\ w \div ByteBase \in Nat
           /\ 2 * ((w % ByteBase) + ByteBase * (w \div ByteBase)) = n * PageSize
<1> DEFINE w == (n * PageSize) \div 2
<1>1. PageSize \in Nat /\ ByteBase \in Nat \ {0} /\ PageSize % 2 = 0
  BY FlasherAssumption
<1>2. PICK h \in Nat : PageSize = 2 * h
  BY <1>1, Division
<1>3. n * PageSize \in Nat /\ n * PageSize = 2 * (n * h) /\ n * h \in Nat
  BY <1>1, <1>2
<1>4. w = n * h
  BY <1>3
<1> HIDE DEF w
<1>5. w \in Nat
  BY <1>3, <1>4
<1>6. w % ByteBase \in Nat /\ w \div ByteBase \in Nat
      /\ w = ByteBase * (w \div ByteBase) + (w % ByteBase)
  BY <1>1, <1>5, Division
<1> DEFINE u == w % ByteBase
           v == w \div ByteBase
<1> HIDE DEF u, v
<1>7. u \in Nat /\ v \in Nat /\ w = ByteBase * v + u
  BY <1>6 DEF u, v
<1>8. 2 * (u + ByteBase * v) = n * PageSize
  BY <1>1, <1>3, <1>4, <1>7
<1>9. QED BY <1>7, <1>8 DEF u, v, w

-----------------------------------------------------------------------------
(* Types.                                                                   *)

Fits == pc \notin {"parse", "failed"} => Len(image) <= FlashSize

LEMMA BytesAreNumbers ==
  /\ Bytes \subseteq Nat
  /\ OK \in Bytes /\ InSync \in Bytes /\ Filler \in Bytes /\ Text \in Bytes
  /\ Signature \in Seq(Bytes) /\ Foreign \in Seq(Bytes)
<1>1. Signature \in Seq(Nat) /\ Foreign \in Seq(Nat)
  BY DEF Signature, Foreign
<1>2. ToSet(Signature) = {30, 149, 15} /\ ToSet(Foreign) = {30, 147, 11}
  BY DEF ToSet, Signature, Foreign
<1>3. Data \subseteq Nat
  BY FlasherAssumption
<1>4. {30, 149, 15, 147, 11} \subseteq Bytes
  BY <1>2 DEF Bytes
<1>5. Signature \in Seq(Bytes) /\ Foreign \in Seq(Bytes)
  BY <1>4 DEF Signature, Foreign
<1>6. Bytes \subseteq Nat
  BY <1>2, <1>3 DEF Bytes, OK, InSync, Filler, Text
<1>7. QED BY <1>5, <1>6 DEF Bytes

\* The byte at an address after a record was written: the record's, what was there, or 0xff.
ByteAfter(data, at, payload, a) ==
  IF a - at \in 0..(Len(payload) - 1) THEN payload[a - at + 1]
  ELSE IF a < Len(data) THEN data[a + 1] ELSE Filler

LEMMA WriteAtProperties ==
  ASSUME NEW data \in Seq(Bytes), NEW at \in Nat, NEW payload \in Seq(Bytes),
         NEW new, new = WriteAt(data, at, payload)
  PROVE  /\ new \in Seq(Bytes)
         /\ Len(new) >= Len(data) /\ Len(new) >= at + Len(payload)
         /\ Len(new) = Len(data) \/ Len(new) = at + Len(payload)
         /\ \A a \in 0..(Len(new) - 1) : new[a + 1] = ByteAfter(data, at, payload, a)
<1>1. Len(data) \in Nat /\ Len(payload) \in Nat
  BY LenProperties
<1>2. (\A i \in 1..Len(data) : data[i] \in Bytes) /\ (\A i \in 1..Len(payload) : payload[i] \in Bytes)
  BY ElementOfSeq
<1> DEFINE n == IF Len(data) > at + Len(payload) THEN Len(data) ELSE at + Len(payload)
           word(i) == IF i > at /\ i <= at + Len(payload) THEN payload[i - at]
                      ELSE IF i <= Len(data) THEN data[i] ELSE Filler
<1>3. WriteAt(data, at, payload) = [i \in 1..n |-> word(i)]
  BY DEF WriteAt
<1>4. n \in Nat /\ n >= Len(data) /\ n >= at + Len(payload)
      /\ (n = Len(data) \/ n = at + Len(payload))
  BY <1>1
<1>5. ASSUME NEW i \in 1..n PROVE word(i) \in Bytes
  BY <1>1, <1>2, <1>4, BytesAreNumbers
<1> HIDE DEF n, word
<1>6. WriteAt(data, at, payload) \in Seq(Bytes) /\ Len(WriteAt(data, at, payload)) = n
      /\ \A i \in 1..n : WriteAt(data, at, payload)[i] = word(i)
  BY <1>3, <1>4, <1>5
<1>7. ASSUME NEW a \in 0..(n - 1)
      PROVE  word(a + 1) = ByteAfter(data, at, payload, a)
  BY <1>1, <1>4 DEF word, ByteAfter
<1>8. ASSUME NEW a \in 0..(n - 1) PROVE a + 1 \in 1..n
  BY <1>4
<1>9. QED BY <1>4, <1>6, <1>7, <1>8

LEMMA RecordType ==
  ASSUME TypeOK, line <= Len(file)
  PROVE  /\ file[line] \in Record /\ line \in 1..Len(file)
         /\ file[line].kind \in {2, 4} => BaseOf(file[line]) \in Nat
<1>1. file \in Seq(Record) /\ line \in 1..Len(file) /\ line \in Nat
  BY FilesAssumption, LenProperties DEF TypeOK
<1>2. file[line] \in Record
  BY <1>1, ElementOfSeq
<1>3. ASSUME file[line].kind \in {2, 4} PROVE file[line].payload[1] \in Nat
  <2>1. file[line].payload \in Seq(Bytes) /\ file[line].payload # <<>>
    BY <1>1, <1>2, <1>3, FilesAssumption DEF TypeOK, Record
  <2>2. file[line].payload[1] \in Bytes
    BY <2>1, EmptySeq, LenProperties, ElementOfSeq
  <2>3. QED BY <2>2, BytesAreNumbers
<1>4. ASSUME NEW x \in Nat, NEW y \in Nat PROVE x * y \in Nat
  OBVIOUS
<1>5. QED BY <1>1, <1>2, <1>3, <1>4, FlasherAssumption DEF BaseOf

LEMMA PageOfType ==
  ASSUME image \in Seq(Bytes), NEW p \in Nat
  PROVE  PageOf(p) \in [1..PageSize -> Bytes]
<1>1. \A i \in 1..Len(image) : image[i] \in Bytes
  BY ElementOfSeq
<1>2. ASSUME NEW i \in 1..PageSize, p * PageSize + i <= Len(image)
      PROVE  p * PageSize + i \in 1..Len(image)
  <2>1. p * PageSize \in Nat /\ PageSize \in Nat
    BY FlasherAssumption
  <2>2. QED BY <1>2, <2>1, LenProperties
<1>3. QED BY <1>1, <1>2, BytesAreNumbers DEF PageOf

LEMMA CommandType ==
  ASSUME image \in Seq(Bytes), NEW p \in Nat, NEW step \in Waiting
  PROVE  Command(step, p) \in Commands
<1>1. PageOf(p) \in [1..PageSize -> Bytes]
  BY PageOfType
<1>2. LoadPage(p) \in [op : {"load"}, low : Nat, high : Nat]
  BY WordAddress DEF LoadPage
<1>3. QED BY <1>1, <1>2 DEF Command, Commands, Waiting

LEMMA GoType ==
  ASSUME TypeOK, NEW p \in 0..FlashSize, NEW step \in Waiting, Go(step, p)
  PROVE  pc' \in Waiting /\ page' \in 0..FlashSize /\ commands' \in Seq(Commands)
<1>1. Command(step, p) \in Commands
  BY CommandType, FlasherAssumption DEF TypeOK
<1>2. QED BY <1>1, AppendProperties DEF Go, TypeOK

\* The next page of the image is one of the flash.
LEMMA NextPage ==
  ASSUME TypeOK, Fits, pc \notin {"parse", "failed"}, page + 1 < Pages
  PROVE  page + 1 \in 0..FlashSize
<1>1. Len(image) \in Nat /\ page + 1 \in Nat /\ PageSize \in Nat \ {0} /\ FlashSize \in Nat
  BY LenProperties, FlasherAssumption DEF TypeOK
<1>2. (page + 1) * PageSize < Len(image)
  BY <1>1, PagesCover DEF Pages
<1>3. page + 1 <= (page + 1) * PageSize
  BY <1>1
<1>4. (page + 1) * PageSize \in Nat
  BY <1>1
<1>5. QED BY <1>1, <1>2, <1>3, <1>4 DEF Fits

LEMMA ProceedType ==
  ASSUME TypeOK, Fits, pc \in Waiting \ {"sync"}, Proceed
  PROVE  pc' \in Waiting \union {"done"} /\ page' \in 0..FlashSize /\ commands' \in Seq(Commands)
<1>1. 0 \in 0..FlashSize /\ page \in 0..FlashSize
  BY FlasherAssumption DEF TypeOK
<1>2. CASE pc = "sign" /\ Go("enter", 0)
  BY <1>1, <1>2, GoType DEF Waiting
<1>3. CASE pc = "enter" /\ (Go("leave", 0) \/ Go("writeAt", 0))
  BY <1>1, <1>3, GoType DEF Waiting
<1>4. CASE pc = "writeAt" /\ Go("write", page)
  BY <1>1, <1>4, GoType DEF Waiting
<1>5. CASE pc = "write" /\ (Go("readAt", 0) \/ (page + 1 < Pages /\ Go("writeAt", page + 1)))
  BY <1>1, <1>5, GoType, NextPage DEF Waiting
<1>6. CASE pc = "readAt" /\ Go("read", page)
  BY <1>1, <1>6, GoType DEF Waiting
<1>7. CASE pc = "read" /\ (Go("leave", 0) \/ (page + 1 < Pages /\ Go("readAt", page + 1)))
  BY <1>1, <1>7, GoType, NextPage DEF Waiting
<1>8. CASE pc = "leave" /\ pc' = "done" /\ UNCHANGED <<page, commands>>
  BY <1>1, <1>8 DEF TypeOK
<1>9. QED BY <1>2, <1>3, <1>4, <1>5, <1>6, <1>7, <1>8 DEF Proceed, Waiting

LEMMA StoredType == ASSUME TypeOK PROVE Stored \in Seq(Bytes) /\ Len(Stored) = PageSize
<1>1. Stored \in [1..PageSize -> Bytes]
  BY BytesAreNumbers DEF Stored, TypeOK
<1>2. QED BY <1>1, FlasherAssumption

LEMMA PayloadType ==
  ASSUME TypeOK, NEW op
  PROVE  Payload(op) \in Seq(Bytes) /\ Len(Payload(op)) = AnswerLength(op)
<1>1. chip \in Seq(Bytes) /\ Len(chip) = 3
  BY BytesAreNumbers DEF TypeOK, Signature, Foreign
<1>2. CASE op = "sign"
  BY <1>1, <1>2 DEF Payload, AnswerLength
<1>3. CASE op = "read"
  BY <1>3, StoredType DEF Payload, AnswerLength
<1>4. CASE op # "sign" /\ op # "read"
  BY <1>4, EmptySeq DEF Payload, AnswerLength
<1>5. QED BY <1>2, <1>3, <1>4

\* The bytes of a whole answer.
WholeAnswer(op) == <<InSync>> \o Payload(op) \o <<OK>>

LEMMA WholeAnswerProperties ==
  ASSUME TypeOK, NEW op
  PROVE  LET n == AnswerLength(op) IN
           /\ n \in Nat /\ WholeAnswer(op) \in Seq(Bytes) /\ Len(WholeAnswer(op)) = n + 2
           /\ WholeAnswer(op)[1] = InSync /\ WholeAnswer(op)[n + 2] = OK
           /\ \A i \in 1..n : WholeAnswer(op)[i + 1] = Payload(op)[i]
<1> DEFINE n == AnswerLength(op)
           a == <<InSync>> \o Payload(op)
<1>1. Payload(op) \in Seq(Bytes) /\ Len(Payload(op)) = n /\ n \in Nat
  BY PayloadType, LenProperties
<1>2. <<InSync>> \in Seq(Bytes) /\ <<OK>> \in Seq(Bytes) /\ Len(<<InSync>>) = 1 /\ Len(<<OK>>) = 1
      /\ <<InSync>>[1] = InSync /\ <<OK>>[1] = OK
  BY BytesAreNumbers
<1> HIDE DEF n
<1>3. /\ a \in Seq(Bytes) /\ Len(a) = n + 1
      /\ \A i \in 1..(n + 1) : a[i] = IF i <= 1 THEN <<InSync>>[i] ELSE Payload(op)[i - 1]
  BY <1>1, <1>2, ConcatProperties
<1>4. /\ a \o <<OK>> \in Seq(Bytes) /\ Len(a \o <<OK>>) = n + 2
      /\ \A i \in 1..(n + 2) : (a \o <<OK>>)[i] = IF i <= n + 1 THEN a[i] ELSE <<OK>>[i - (n + 1)]
  BY <1>1, <1>2, <1>3, ConcatProperties
<1>5. WholeAnswer(op) = a \o <<OK>>
  BY DEF WholeAnswer
<1> HIDE DEF a
<1>6. (a \o <<OK>>)[1] = InSync /\ (a \o <<OK>>)[n + 2] = OK
  <2>1. (n + 2) - (n + 1) = 1 /\ 1 \in 1..(n + 2) /\ n + 2 \in 1..(n + 2) /\ ~(n + 2 <= n + 1)
        /\ 1 <= n + 1 /\ 1 \in 1..(n + 1)
    BY <1>1
  <2>2. (a \o <<OK>>)[1] = a[1] /\ a[1] = <<InSync>>[1]
    BY <2>1, <1>3, <1>4
  <2>3. (a \o <<OK>>)[n + 2] = <<OK>>[(n + 2) - (n + 1)]
    BY <2>1, <1>4
  <2>4. QED BY <2>1, <2>2, <2>3, <1>2
<1>7. ASSUME NEW i \in 1..n PROVE (a \o <<OK>>)[i + 1] = Payload(op)[i]
  BY <1>1, <1>3, <1>4
<1>8. QED BY <1>1, <1>4, <1>5, <1>6, <1>7 DEF n

LEMMA ProgrammedType ==
  ASSUME TypeOK, NEW bytes \in [1..PageSize -> Bytes]
  PROVE  Programmed(bytes) \in [Addresses -> Bytes]
<1>1. PageSize \in Nat /\ address \in Nat /\ Addresses \subseteq Nat
  BY FlasherAssumption DEF TypeOK, Addresses
<1>2. ASSUME NEW a \in Addresses, a >= address, a < address + PageSize
      PROVE  a - address + 1 \in 1..PageSize
  BY <1>1, <1>2
<1>3. QED BY <1>1, <1>2 DEF Programmed, TypeOK

-----------------------------------------------------------------------------
(* One step of each kind keeps the types and an image that fits.             *)

LEMMA ParsingType ==
  ASSUME TypeOK, ReadRecord \/ BadRecord \/ FileEnds
  PROVE  TypeOK' /\ Fits'
<1>1. CASE ReadRecord
  <2>1. line \in 1..Len(file) /\ file[line] \in Record
        /\ (file[line].kind \in {2, 4} => BaseOf(file[line]) \in Nat)
    BY <1>1, RecordType DEF ReadRecord
  <2>2. file[line].payload \in Seq(Bytes) /\ base + file[line].address \in Nat
    <3>1. file[line].payload \in Seq(Bytes) /\ file[line].address \in Nat
      BY <2>1 DEF Record
    <3>2. base \in Nat
      BY DEF TypeOK
    <3>3. QED BY <3>1, <3>2
  <2>3. image' \in Seq(Bytes)
    BY <1>1, <2>2, WriteAtProperties DEF ReadRecord, TypeOK
  <2>4. base' \in Nat
    BY <1>1, <2>1 DEF ReadRecord, TypeOK
  <2>5. line' \in 1..(Len(file) + 1) /\ pc' \in {"parse", "reset", "failed"}
    <3>1. Len(file) \in Nat
      BY LenProperties, FilesAssumption DEF TypeOK
    <3>2. QED BY <1>1, <2>1, <3>1 DEF ReadRecord, Parsed
  <2>6. pc' = "reset" => Len(image') <= FlashSize
    BY <1>1 DEF ReadRecord, Parsed
  <2>7. QED BY <1>1, <2>3, <2>4, <2>5, <2>6 DEF ReadRecord, TypeOK, Fits, board
<1>2. CASE BadRecord
  BY <1>2 DEF BadRecord, TypeOK, Fits, input, text, board
<1>3. CASE FileEnds
  BY <1>3 DEF FileEnds, Parsed, TypeOK, Fits, input, text, board
<1>4. QED BY <1>1, <1>2, <1>3

LEMMA ResetType ==
  ASSUME TypeOK, Fits, ResetBoard
  PROVE  TypeOK' /\ Fits'
<1>1. pc' \in Waiting /\ page' \in 0..FlashSize /\ commands' \in Seq(Commands)
  BY GoType, FlasherAssumption DEF ResetBoard, Waiting
<1>2. <<>> \in Seq(Bytes) /\ 1 \in 0..SyncAttempts
  BY EmptySeq, FlasherAssumption
<1>3. QED BY <1>1, <1>2 DEF ResetBoard, TypeOK, Fits, input, text

LEMMA SyncType ==
  ASSUME TypeOK, Fits, Synced \/ NotSynced
  PROVE  TypeOK' /\ Fits'
<1>1. 0 \in 0..FlashSize
  BY FlasherAssumption
<1>2. CASE Synced
  <2>1. pc' \in Waiting /\ page' \in 0..FlashSize /\ commands' \in Seq(Commands)
    BY <1>1, <1>2, GoType DEF Synced, Waiting
  <2>2. answers' \in Seq(Bytes)
    <3>1. Len(answers) \in Nat /\ 3 <= Len(answers) + 1
      BY <1>2, LenProperties DEF Synced, Arrived, TypeOK
    <3>2. QED BY <1>2, <3>1, SuffixProperties DEF Synced, TypeOK
  <2>3. QED BY <1>2, <2>1, <2>2 DEF Synced, TypeOK, Fits, input, text, board
<1>3. CASE NotSynced
  <2>1. pc' \in Waiting \union {"failed"} /\ page' \in 0..FlashSize /\ commands' \in Seq(Commands)
    BY <1>1, <1>3, GoType DEF NotSynced, Fail, Waiting, TypeOK
  <2>2. answers' \in Seq(Bytes)
    BY <1>3, EmptySeq DEF NotSynced
  <2>3. attempts' \in 0..SyncAttempts
    BY <1>3, FlasherAssumption DEF NotSynced, TypeOK
  <2>4. QED BY <1>3, <2>1, <2>2, <2>3 DEF NotSynced, TypeOK, Fits, input, text, board
<1>4. QED BY <1>2, <1>3

LEMMA AnswerLengthType == ASSUME NEW op PROVE AnswerLength(op) \in Nat
  BY FlasherAssumption DEF AnswerLength

LEMMA AnswerType ==
  ASSUME TypeOK, Fits, Answered \/ TooShort
  PROVE  TypeOK' /\ Fits'
<1>1. CASE Answered
  <2>1. pc' \in Waiting \union {"done", "failed"} /\ page' \in 0..FlashSize
        /\ commands' \in Seq(Commands)
    BY <1>1, ProceedType DEF Answered, Fail, TypeOK
  <2>2. answers' \in Seq(Bytes)
    <3> DEFINE n == AnswerLength(pc)
    <3>1. n \in Nat
      BY AnswerLengthType
    <3>2. answers' = SubSeq(answers, n + 3, Len(answers)) /\ Len(answers) >= n + 2
      BY <1>1 DEF Answered, Arrived
    <3> HIDE DEF n
    <3>3. Len(answers) \in Nat /\ n + 3 \in Nat \ {0} /\ n + 3 <= Len(answers) + 1
      BY <3>1, <3>2, LenProperties DEF TypeOK
    <3>4. QED BY <3>2, <3>3, SuffixProperties DEF TypeOK
  <2>3. pc \notin {"parse", "failed"}
    BY <1>1 DEF Answered, Waiting
  <2>4. QED BY <1>1, <2>1, <2>2, <2>3 DEF Answered, TypeOK, Fits, input, text, board
<1>2. CASE TooShort
  <2>1. answers' \in Seq(Bytes)
    BY <1>2, EmptySeq DEF TooShort
  <2>2. QED BY <1>2, <2>1 DEF TooShort, Fail, TypeOK, Fits, input, text, board
<1>3. QED BY <1>1, <1>2

LEMMA HeadCommand ==
  ASSUME TypeOK, commands # <<>>
  PROVE  /\ Head(commands) \in Commands /\ Tail(commands) \in Seq(Commands)
         /\ Len(commands) \in Nat \ {0} /\ Head(commands) = commands[1]
         /\ Len(Tail(commands)) = Len(commands) - 1
         /\ \A i \in 1..(Len(commands) - 1) : Tail(commands)[i] = commands[i + 1]
  BY HeadTailProperties, LenProperties DEF TypeOK

LEMMA CommandFields ==
  ASSUME NEW c \in Commands
  PROVE  /\ c.op = "load" => c.low \in Nat /\ c.high \in Nat
         /\ c.op = "write" => c.data \in [1..PageSize -> Bytes]
  BY DEF Commands

LEMMA BootloaderType ==
  ASSUME TypeOK, Fits, Handle \/ Misprogram \/ StartApp \/ Ignore \/ LoseByte
  PROVE  TypeOK' /\ Fits'
<1>1. CASE Handle
  <2>1. PICK c : c = Head(commands)
    OBVIOUS
  <2>2. c \in Commands /\ commands' \in Seq(Commands)
    BY <1>1, <2>1, HeadCommand DEF Handle
  <2>3. answers' = answers \o WholeAnswer(c.op)
    <3>1. answers' = answers \o <<InSync>> \o Payload(c.op) \o <<OK>>
      BY <1>1, <2>1 DEF Handle
    <3>2. answers \in Seq(Bytes) /\ <<InSync>> \in Seq(Bytes) /\ Payload(c.op) \in Seq(Bytes)
          /\ <<OK>> \in Seq(Bytes)
      BY BytesAreNumbers, PayloadType DEF TypeOK
    <3>3. QED BY <3>1, <3>2, ConcatAssociative DEF WholeAnswer
  <2>4. answers' \in Seq(Bytes)
    BY <2>3, WholeAnswerProperties, ConcatProperties DEF TypeOK
  <2>5. address' \in Nat
    <3>1. ASSUME NEW low \in Nat, NEW high \in Nat PROVE 2 * (low + ByteBase * high) \in Nat
      BY FlasherAssumption
    <3>2. address' = IF c.op = "load" THEN 2 * (c.low + ByteBase * c.high) ELSE address
      BY <1>1, <2>1 DEF Handle
    <3>3. QED BY <2>2, <3>1, <3>2, CommandFields DEF TypeOK
  <2>6. flash' \in [Addresses -> Bytes]
    BY <1>1, <2>1, <2>2, CommandFields, ProgrammedType DEF Handle, TypeOK
  <2>7. QED BY <1>1, <2>2, <2>4, <2>5, <2>6 DEF Handle, TypeOK, Fits, input, text, host
<1>2. CASE Misprogram
  <2>1. Head(commands) \in Commands /\ commands' \in Seq(Commands) /\ Head(commands).op = "write"
    BY <1>2, HeadCommand DEF Misprogram
  <2>2. Head(commands).data \in [1..PageSize -> Bytes] /\ Data \subseteq Bytes
    BY <2>1, CommandFields DEF Bytes
  <2>3. flash' \in [Addresses -> Bytes]
    <3>1. PICK i \in 1..PageSize, b \in Data : flash' = Programmed([Head(commands).data EXCEPT ![i] = b])
      BY <1>2 DEF Misprogram
    <3>2. [Head(commands).data EXCEPT ![i] = b] \in [1..PageSize -> Bytes]
      BY <2>2
    <3>3. QED BY <3>1, <3>2, ProgrammedType
  <2>4. answers' \in Seq(Bytes)
    <3>1. <<InSync, OK>> \in Seq(Bytes)
      BY BytesAreNumbers
    <3>2. QED BY <1>2, <3>1, ConcatProperties DEF Misprogram, TypeOK
  <2>5. faults' \in 0..MaxFaults
    BY <1>2, FlasherAssumption DEF Misprogram, TypeOK
  <2>6. QED BY <1>2, <2>1, <2>3, <2>4, <2>5 DEF Misprogram, TypeOK, Fits, input, text, host
<1>3. CASE StartApp
  <2>1. commands' \in Seq(Commands) /\ faults' \in 0..MaxFaults
    <3>1. CASE commands = <<>> /\ UNCHANGED <<commands, faults>>
      BY <3>1 DEF TypeOK
    <3>2. CASE commands # <<>> /\ commands' = Tail(commands)
               /\ faults < MaxFaults /\ faults' = faults + 1
      BY <3>2, HeadCommand, FlasherAssumption DEF TypeOK
    <3>3. QED BY <1>3, <3>1, <3>2 DEF StartApp
  <2>2. answers' \in Seq(Bytes)
    BY <1>3, BytesAreNumbers, AppendProperties DEF StartApp, TypeOK
  <2>3. QED BY <1>3, <2>1, <2>2 DEF StartApp, TypeOK, Fits, input, text, host
<1>4. CASE Ignore
  BY <1>4, HeadCommand DEF Ignore, TypeOK, Fits, input, text, host, board
<1>5. CASE LoseByte
  <2>1. answers' \in Seq(Bytes)
    BY <1>5, RemoveAtProperties DEF LoseByte, TypeOK
  <2>2. faults' \in 0..MaxFaults
    BY <1>5, FlasherAssumption DEF LoseByte, TypeOK
  <2>3. QED BY <1>5, <2>1, <2>2 DEF LoseByte, TypeOK, Fits, input, text, host, board
<1>6. QED BY <1>1, <1>2, <1>3, <1>4, <1>5

LEMMA TypeInit == ASSUME Init PROVE TypeOK /\ Fits
<1>1. line \in 1..(Len(file) + 1)
  BY LenProperties, FilesAssumption DEF Init
<1>2. image \in Seq(Bytes) /\ commands \in Seq(Commands) /\ answers \in Seq(Bytes)
  BY EmptySeq DEF Init
<1>3. [a \in Addresses |-> Filler] \in [Addresses -> Bytes]
  BY BytesAreNumbers
<1>4. QED BY <1>1, <1>2, <1>3, FlasherAssumption DEF Init, TypeOK, Fits

LEMMA TypeStep ==
  ASSUME TypeOK, Fits, [Next]_vars
  PROVE  TypeOK' /\ Fits'
<1>1. CASE UNCHANGED vars
  BY <1>1 DEF vars, input, text, host, board, TypeOK, Fits
<1>2. CASE Stopped
  BY <1>2, <1>1 DEF Stopped
<1>3. QED
  BY <1>1, <1>2, ParsingType, ResetType, SyncType, AnswerType, BootloaderType
  DEF Next, Programmer

\* The file, the image, the commands and answers under way and the flash keep their types, the
\* page stays in the flash and the attempts within their number.
THEOREM FlasherTypeOK == Spec => []TypeOK
<1>1. Init => TypeOK /\ Fits
  BY TypeInit
<1>2. TypeOK /\ Fits /\ [Next]_vars => TypeOK' /\ Fits'
  BY TypeStep
<1>3. QED BY <1>1, <1>2, PTL DEF Spec

-----------------------------------------------------------------------------
(* Reading a file.  At every record the base and the bytes read so far are  *)
(* what the records before it say.                                          *)

ReadSoFar ==
  /\ base = BaseAt(line)
  /\ \A i \in 1..line : BaseAt(i) \in Nat
  /\ \A i \in 1..(line - 1) : file[i].valid /\ file[i].kind # 1
  /\ \A a \in 0..(Len(image) - 1) : image[a + 1] = Word(line, a)
  /\ \A i \in 1..(line - 1) :
       file[i].kind = 0 => Start(i) + Len(file[i].payload) <= Len(image)

\* Where reading stopped.
ReadUntil ==
  pc # "parse" => \/ line = Len(file) + 1
                  \/ line <= Len(file) /\ file[line].kind = 1
                  \/ line <= Len(file) /\ ~ file[line].valid

LEMMA BaseAtFirst == BaseAt(1) = 0
  BY DEF BaseAt

LEMMA BaseAtNext ==
  ASSUME NEW n \in Nat \ {0}
  PROVE  BaseAt(n + 1) = IF file[n].kind \in {2, 4} THEN BaseOf(file[n]) ELSE BaseAt(n)
<1> DEFINE bases(i) == {j \in 1..(i - 1) : file[j].kind \in {2, 4}}
<1>1. \A i : BaseAt(i) = IF bases(i) = {} THEN 0
                         ELSE BaseOf(file[CHOOSE j \in bases(i) : \A k \in bases(i) : k <= j])
  BY DEF BaseAt
<1>2. CASE file[n].kind \in {2, 4}
  <2>1. n \in bases(n + 1) /\ \A k \in bases(n + 1) : k \in Nat /\ k <= n
    BY <1>2
  <2> HIDE DEF bases
  <2>2. (CHOOSE j \in bases(n + 1) : \A k \in bases(n + 1) : k <= j) = n
    <3>1. \A j \in bases(n + 1) : (\A k \in bases(n + 1) : k <= j) <=> j = n
      BY <2>1
    <3>2. QED BY <2>1, <3>1
  <2>3. QED BY <1>1, <1>2, <2>1, <2>2
<1>3. CASE file[n].kind \notin {2, 4}
  <2>1. bases(n + 1) = bases(n)
    BY <1>3
  <2> HIDE DEF bases
  <2>2. QED BY <1>1, <1>3, <2>1
<1>4. QED BY <1>2, <1>3

\* The record has a byte for the address.
HasByte(i, a) == file[i].kind = 0 /\ a - Start(i) \in 0..(Len(file[i].payload) - 1)

LEMMA WordNext ==
  ASSUME NEW n \in Nat \ {0}, NEW a
  PROVE  Word(n + 1, a) = IF HasByte(n, a) THEN file[n].payload[a - Start(n) + 1] ELSE Word(n, a)
<1>1. \A i : Writers(i, a) = {j \in 1..(i - 1) : HasByte(j, a)}
  BY DEF Writers, HasByte
<1>2. CASE HasByte(n, a)
  <2>1. n \in Writers(n + 1, a) /\ \A k \in Writers(n + 1, a) : k \in Nat /\ k <= n
    BY <1>1, <1>2
  <2>2. (CHOOSE j \in Writers(n + 1, a) : \A k \in Writers(n + 1, a) : k <= j) = n
    <3>1. \A j \in Writers(n + 1, a) : (\A k \in Writers(n + 1, a) : k <= j) <=> j = n
      BY <2>1
    <3>2. QED BY <2>1, <3>1
  <2>3. QED BY <1>2, <2>1, <2>2 DEF Word
<1>3. CASE ~ HasByte(n, a)
  <2>1. \A j : j \in 1..((n + 1) - 1) <=> j \in 1..(n - 1) \/ j = n
    OBVIOUS
  <2>2. Writers(n + 1, a) = Writers(n, a)
    BY <1>1, <1>3, <2>1
  <2> DEFINE word(S) == IF S = {} THEN Filler
                        ELSE LET i == CHOOSE i \in S : \A j \in S : j <= i IN
                               file[i].payload[a - Start(i) + 1]
  <2>3. \A i : Word(i, a) = word(Writers(i, a))
    BY DEF Word
  <2> HIDE DEF word
  <2>4. QED BY <1>3, <2>2, <2>3
<1>4. QED BY <1>2, <1>3

\* Where no record has a byte there is 0xff.
LEMMA WordOfNobody ==
  ASSUME NEW n, NEW a, \A i \in 1..(n - 1) : ~ HasByte(i, a)
  PROVE  Word(n, a) = Filler
<1>1. Writers(n, a) = {}
  BY DEF Writers, HasByte
<1>2. QED BY <1>1 DEF Word

LEMMA DataRecord ==
  ASSUME TypeOK, ReadSoFar, ReadRecord, file[line].kind = 0
  PROVE  /\ \A a \in 0..(Len(image') - 1) : image'[a + 1] = Word(line + 1, a)
         /\ Len(image) <= Len(image') /\ Start(line) + Len(file[line].payload) <= Len(image')
<1> DEFINE at == Start(line)
           payload == file[line].payload
<1>1. file[line] \in Record /\ line \in Nat \ {0}
  BY RecordType DEF ReadRecord, TypeOK
<1>2. at = base + file[line].address /\ at \in Nat /\ payload \in Seq(Bytes)
  <2>1. file[line].address \in Nat /\ payload \in Seq(Bytes)
    BY <1>1 DEF Record
  <2>2. base = BaseAt(line) /\ base \in Nat
    BY DEF ReadSoFar, TypeOK
  <2>3. QED BY <2>1, <2>2 DEF Start
<1>3. image' = WriteAt(image, at, payload)
  BY <1>2 DEF ReadRecord
<1>4. image \in Seq(Bytes)
  BY DEF TypeOK
<1> HIDE DEF at, payload
<1>5. Len(payload) \in Nat /\ Len(image) \in Nat /\ Len(image') \in Nat
  <2>1. image' \in Seq(Bytes)
    BY <1>2, <1>3, <1>4, WriteAtProperties
  <2>2. QED BY <1>2, <1>4, <2>1, LenProperties
<1>6. /\ Len(image') >= Len(image) /\ Len(image') >= at + Len(payload)
      /\ \A a \in 0..(Len(image') - 1) : image'[a + 1] = ByteAfter(image, at, payload, a)
  BY <1>2, <1>3, <1>4, WriteAtProperties
<1>7. ASSUME NEW a \in 0..(Len(image') - 1) PROVE image'[a + 1] = Word(line + 1, a)
  <2>1. Word(line + 1, a) = IF HasByte(line, a) THEN payload[a - at + 1] ELSE Word(line, a)
    BY <1>1, WordNext DEF at, payload
  <2>2. HasByte(line, a) <=> a - at \in 0..(Len(payload) - 1)
    BY DEF HasByte, at, payload
  <2>3. CASE HasByte(line, a)
    BY <1>6, <2>1, <2>2, <2>3 DEF ByteAfter
  <2>4. CASE ~ HasByte(line, a) /\ a < Len(image)
    <3>1. image[a + 1] = Word(line, a)
      BY <1>5, <2>4 DEF ReadSoFar
    <3>2. QED BY <1>6, <2>1, <2>2, <2>4, <3>1 DEF ByteAfter
  <2>5. CASE ~ HasByte(line, a) /\ ~ (a < Len(image))
    <3>1. ASSUME NEW i \in 1..(line - 1) PROVE ~ HasByte(i, a)
      <4>1. SUFFICES ASSUME HasByte(i, a) PROVE FALSE
        OBVIOUS
      <4>2. i \in 1..Len(file) /\ BaseAt(i) \in Nat
        BY LenProperties, FilesAssumption DEF TypeOK, ReadSoFar
      <4>3. file[i] \in Record
        BY <4>2, ElementOfSeq, FilesAssumption DEF TypeOK
      <4>4. Start(i) \in Nat /\ Len(file[i].payload) \in Nat
        BY <4>2, <4>3, LenProperties DEF Start, Record
      <4>5. Start(i) + Len(file[i].payload) <= Len(image)
        BY <4>1 DEF ReadSoFar, HasByte
      <4>6. a - Start(i) <= Len(file[i].payload) - 1
        BY <4>1 DEF HasByte
      <4>7. QED BY <1>5, <2>5, <4>4, <4>5, <4>6
    <3>2. Word(line, a) = Filler
      BY <3>1, WordOfNobody
    <3>3. QED BY <1>6, <2>1, <2>2, <2>5, <3>2 DEF ByteAfter
  <2>6. QED BY <2>3, <2>4, <2>5
<1>8. QED BY <1>5, <1>6, <1>7 DEF at, payload

\* A record that has no data changes nothing that the image has.
LEMMA OtherRecord ==
  ASSUME TypeOK, ReadSoFar, file[line].kind # 0, NEW a \in 0..(Len(image) - 1)
  PROVE  image[a + 1] = Word(line + 1, a)
<1>1. line \in Nat \ {0} /\ ~ HasByte(line, a)
  BY DEF TypeOK, HasByte
<1>2. Word(line + 1, a) = Word(line, a)
  BY <1>1, WordNext
<1>3. QED BY <1>2 DEF ReadSoFar

\* What a file says stays as long as the file does.
LEMMA FileStays ==
  ASSUME file' = file
  PROVE  /\ \A i : BaseAt(i)' = BaseAt(i)
         /\ \A i : Start(i)' = Start(i)
         /\ \A n, a : Word(n, a)' = Word(n, a)
<1>1. \A i : BaseAt(i)' = BaseAt(i)
  BY DEF BaseAt, BaseOf
<1>2. \A i : Start(i)' = Start(i)
  BY <1>1 DEF Start
<1>3. ASSUME NEW n, NEW a PROVE Word(n, a)' = Word(n, a)
  <2>1. Writers(n, a)' = Writers(n, a)
    BY <1>2 DEF Writers
  <2>2. QED BY <1>2, <2>1 DEF Word
<1>4. QED BY <1>1, <1>2, <1>3

LEMMA ReadStep ==
  ASSUME TypeOK, ReadSoFar, ReadRecord
  PROVE  ReadSoFar'
<1>0. line \in Nat \ {0} /\ file' = file /\ line \in 1..Len(file) /\ file[line].valid
      /\ (file[line].kind \in {2, 4} => BaseOf(file[line]) \in Nat)
  BY RecordType DEF ReadRecord, TypeOK
<1>a. (\A i : BaseAt(i)' = BaseAt(i)) /\ (\A i : Start(i)' = Start(i))
      /\ (\A n, a : Word(n, a)' = Word(n, a))
  BY <1>0, FileStays
<1>1. CASE file[line].kind = 1
  <2>1. line' = line /\ image' = image /\ base' = base
    BY <1>1 DEF ReadRecord
  <2>2. QED BY <1>0, <1>a, <2>1 DEF ReadSoFar
<1>2. CASE file[line].kind # 1
  <2>1. line' = line + 1
    BY <1>2 DEF ReadRecord
  <2>2. base' = BaseAt(line + 1)
    BY <1>0, BaseAtNext DEF ReadRecord, ReadSoFar
  <2>3. base' \in Nat
    BY <1>0 DEF ReadRecord, TypeOK
  <2>4. \A i \in 1..(line + 1) : BaseAt(i) \in Nat
    <3>1. \A i \in 1..(line + 1) : i \in 1..line \/ i = line + 1
      BY <1>0
    <3>2. QED BY <2>2, <2>3, <3>1 DEF ReadSoFar
  <2>5. \A i \in 1..line : file[i].valid /\ file[i].kind # 1
    <3>1. \A i \in 1..line : i \in 1..(line - 1) \/ i = line
      BY <1>0
    <3>2. QED BY <1>0, <1>2, <3>1 DEF ReadSoFar
  <2>6. \A a \in 0..(Len(image') - 1) : image'[a + 1] = Word(line + 1, a)
    <3>1. CASE file[line].kind = 0
      BY <3>1, DataRecord
    <3>2. CASE file[line].kind # 0
      <4>1. image' = image
        BY <3>2 DEF ReadRecord
      <4>2. QED BY <3>2, <4>1, OtherRecord
    <3>3. QED BY <3>1, <3>2
  <2>7. ASSUME NEW i \in 1..line, file[i].kind = 0
        PROVE  Start(i) + Len(file[i].payload) <= Len(image')
    <3>1. CASE i = line
      BY <2>7, <3>1, DataRecord
    <3>2. CASE i # line
      <4>1. i \in 1..(line - 1) /\ i \in 1..Len(file)
        BY <1>0, <3>2, LenProperties, FilesAssumption DEF TypeOK
      <4>2. Start(i) + Len(file[i].payload) <= Len(image)
        BY <2>7, <4>1 DEF ReadSoFar
      <4>3. file[i] \in Record /\ BaseAt(i) \in Nat
        BY <4>1, ElementOfSeq, FilesAssumption DEF TypeOK, ReadSoFar
      <4>4. Start(i) + Len(file[i].payload) \in Nat
        BY <4>3, LenProperties DEF Start, Record
      <4>5. CASE file[line].kind = 0
        <5>1. Len(image) <= Len(image')
          BY <4>5, DataRecord
        <5>2. Len(image) \in Nat /\ Len(image') \in Nat
          BY ParsingType, LenProperties DEF TypeOK
        <5>3. QED BY <4>2, <4>4, <5>1, <5>2
      <4>6. CASE file[line].kind # 0
        BY <4>2, <4>6 DEF ReadRecord
      <4>7. QED BY <4>5, <4>6
    <3>3. QED BY <3>1, <3>2
  <2>8. (line + 1) - 1 = line
    BY <1>0
  <2>9. QED BY <1>0, <1>a, <2>1, <2>2, <2>4, <2>5, <2>6, <2>7, <2>8 DEF ReadSoFar
<1>3. QED BY <1>1, <1>2

LEMMA FileAndImageStay ==
  ASSUME UNCHANGED <<file, line, base, image>>, ReadSoFar
  PROVE  ReadSoFar'
  BY FileStays DEF ReadSoFar

LEMMA ReadInit == ASSUME Init PROVE ReadSoFar /\ ReadUntil
<1>1. BaseAt(1) = 0 /\ line = 1 /\ base = 0 /\ image = <<>> /\ pc = "parse"
  BY BaseAtFirst DEF Init
<1>2. QED BY <1>1 DEF ReadSoFar, ReadUntil

LEMMA ReadInvariant ==
  ASSUME TypeOK, ReadSoFar, ReadUntil, [Next]_vars
  PROVE  ReadSoFar' /\ ReadUntil'
<1>1. CASE ReadRecord
  BY <1>1, ReadStep DEF ReadRecord, ReadUntil
<1>2. CASE BadRecord \/ FileEnds
  <2>1. UNCHANGED <<file, line, base, image>>
    BY <1>2 DEF BadRecord, FileEnds, input, text
  <2>2. ReadUntil'
    BY <1>2, <2>1, LenProperties, FilesAssumption DEF BadRecord, FileEnds, ReadUntil, TypeOK
  <2>3. QED BY <2>1, <2>2, FileAndImageStay
<1>3. CASE UNCHANGED vars \/ ~ (ReadRecord \/ BadRecord \/ FileEnds)
  <2>1. UNCHANGED <<file, line, base, image>> /\ (pc = "parse" => pc' = "parse")
    BY <1>3 DEF Next, Programmer, ResetBoard, Synced, NotSynced, Answered, TooShort, Waiting, Handle,
      Misprogram, StartApp, Ignore, LoseByte, Stopped, vars, input, text, host
  <2>2. QED BY <2>1, FileAndImageStay DEF ReadUntil
<1>4. QED BY <1>1, <1>2, <1>3

LEMMA ReadImageIsFile ==
  ASSUME TypeOK, ReadSoFar, ReadUntil
  PROVE  ImageIsFile
<1>1. SUFFICES ASSUME pc # "parse", NEW n \in 1..(Len(file) + 1), EndsAt(n),
                      \A i \in 1..(n - 1) : file[i].valid
               PROVE  n = line
  BY DEF ImageIsFile, ReadSoFar
<1>2. n \in Nat /\ line \in 1..(Len(file) + 1) /\ line \in Nat /\ Len(file) \in Nat
  BY LenProperties, FilesAssumption DEF TypeOK
<1>3. ~ (n < line)
  <2>1. n < line => n \in 1..(line - 1) /\ n <= Len(file)
    BY <1>2
  <2>2. QED BY <1>1, <2>1 DEF EndsAt, ReadSoFar
<1>4. ~ (line < n)
  <2>1. SUFFICES ASSUME line < n PROVE FALSE
    OBVIOUS
  <2>2. line \in 1..(n - 1) /\ line <= Len(file)
    BY <1>2, <2>1
  <2>3. file[line].valid /\ file[line].kind # 1 /\ line # Len(file) + 1
    BY <1>1, <1>2, <2>2 DEF EndsAt
  <2>4. QED BY <1>1, <2>3 DEF ReadUntil
<1>5. QED BY <1>2, <1>3, <1>4

\* The image that is flashed is what the HEX file says, whatever the order of its records, the gaps
\* and overlaps between them and the bases of their addresses.
THEOREM ImageFromFile == Spec => []ImageIsFile
<1> DEFINE I == TypeOK /\ Fits /\ ReadSoFar /\ ReadUntil
<1>1. Init => I
  BY TypeInit, ReadInit
<1>2. I /\ [Next]_vars => I'
  BY TypeStep, ReadInvariant
<1>3. I => ImageIsFile
  BY ReadImageIsFile
<1>4. QED BY <1>1, <1>2, <1>3, PTL DEF Spec

-----------------------------------------------------------------------------
(* The conversation with the bootloader.                                    *)

\* The steps after the signature was compared.
Turning == {"enter", "writeAt", "write", "readAt", "read", "leave"}

\* Nothing on the line but what the firmware said.
Quiet == answers = <<>> \/ (device = "app" /\ answers = <<Text>>)

\* Before the signature is compared, many answers may be under way.  Its middle byte is in none of
\* them until the last command was handled, and then what follows it is the end of that answer.
Greeting ==
  /\ pc \in {"parse", "reset"} => commands = <<>>
  /\ pc = "sync" =>
       /\ \A i \in 1..Len(commands) : commands[i].op = "sync"
       /\ \A i \in 1..Len(answers) : answers[i] # 149
  /\ pc = "sign" =>
       /\ \A i \in 1..Len(commands) :
            commands[i].op = IF i = Len(commands) THEN "sign" ELSE "sync"
       /\ \A i \in 1..Len(answers) : answers[i] = 149 =>
            /\ commands = <<>> /\ chip = Signature
            /\ \/ Len(answers) <= i + 2
               \/ device = "app" /\ Len(answers) = i + 3 /\ answers[i + 3] = Text

\* Afterwards there is one command, then its answer: the whole of it, or so little that it is
\* refused.
Turns ==
  pc \in Turning =>
    /\ chip = Signature
    /\ commands # <<>> => commands = <<Command(pc, page)>> /\ Quiet
    /\ commands = <<>> =>
         LET n == AnswerLength(pc) IN
           \/ Len(answers) < n + 2
           \/ answers = WholeAnswer(pc)
           \/ device = "app" /\ Len(answers) = n + 2 /\ answers[n + 2] = Text
           \/ device = "app" /\ answers = Append(WholeAnswer(pc), Text)

\* The bootloader has the address of the page, if it answered.
Loaded ==
  /\ pc \in {"writeAt", "write", "readAt", "read"} => page < Pages
  /\ pc \in {"write", "read"} => address = page * PageSize
  /\ pc \in {"writeAt", "readAt"} /\ commands = <<>> =>
       address = page * PageSize \/ (device = "app" /\ Quiet)

\* A page under way is one of the image, for the right chip, at the address of the page.
Writes ==
  \A i \in 1..Len(commands) : commands[i].op = "write" =>
    /\ chip = Signature /\ Len(commands) = 1 /\ pc \in {"write", "failed"}
    /\ address = page * PageSize /\ page < Pages

\* The flash holds the pages that were compared.
Verified ==
  /\ pc \in {"readAt", "read"} =>
       \A i \in 1..Len(image) : i <= page * PageSize => flash[i - 1] = image[i]
  /\ pc \in {"leave", "done"} => \A i \in 1..Len(image) : flash[i - 1] = image[i]
  /\ pc = "done" => commands = <<>>

Talk == Greeting /\ Turns /\ Loaded /\ Writes /\ Verified

IInv == TypeOK /\ Fits /\ Talk

\* The payload of an answer that is accepted is what the bootloader sent for this command, and
\* nothing of importance follows it.
LEMMA AnswerIsWhole ==
  ASSUME TypeOK, Turns, pc \in Turning, NEW n, n = AnswerLength(pc), Arrived(n + 2), WellFormed(n),
         answers' = SubSeq(answers, n + 3, Len(answers)), device' = device
  PROVE  /\ commands = <<>> /\ Len(answers) >= 2 /\ Quiet'
         /\ \A i \in 1..n : SubSeq(answers, 2, n + 1)[i] = Payload(pc)[i]
<1>1. n \in Nat /\ Len(answers) \in Nat /\ Len(answers) >= n + 2
      /\ (\A i \in 1..Len(answers) : answers[i] \in Bytes)
  BY AnswerLengthType, LenProperties, ElementOfSeq DEF Arrived, TypeOK
<1>2. commands = <<>>
  BY <1>1 DEF Turns, Quiet
<1>3. /\ WholeAnswer(pc) \in Seq(Bytes) /\ Len(WholeAnswer(pc)) = n + 2
      /\ \A i \in 1..n : WholeAnswer(pc)[i + 1] = Payload(pc)[i]
  BY WholeAnswerProperties
<1>4. Len(answers) = n + 2 => answers[n + 2] # Text
  BY DEF WellFormed, OK, Text
<1>5. answers = WholeAnswer(pc) \/ (device = "app" /\ answers = Append(WholeAnswer(pc), Text))
  BY <1>1, <1>2, <1>4 DEF Turns
<1>6. ASSUME NEW i \in 1..n PROVE answers[i + 1] = Payload(pc)[i]
  <2>1. i + 1 \in 1..(n + 2)
    BY <1>1
  <2>2. answers[i + 1] = WholeAnswer(pc)[i + 1]
    <3>1. CASE answers = WholeAnswer(pc)
      BY <3>1
    <3>2. CASE answers = Append(WholeAnswer(pc), Text)
      <4>1. Text \in Bytes
        BY BytesAreNumbers
      <4>2. \A j \in 1..Len(WholeAnswer(pc)) :
              Append(WholeAnswer(pc), Text)[j] = WholeAnswer(pc)[j]
        BY <1>3, <4>1, AppendProperties
      <4>3. QED BY <1>3, <2>1, <3>2, <4>2
    <3>3. QED BY <1>5, <3>1, <3>2
  <2>3. QED BY <1>3, <2>2
<1>7. \A i \in 1..n : SubSeq(answers, 2, n + 1)[i] = answers[i + 1]
  <2>1. 2 \in Int /\ n + 1 \in Int /\ \A i \in 2..(n + 1) : answers[i] \in Bytes
    BY <1>1
  <2>2. \A i \in 1..((n + 1) - 2 + 1) : SubSeq(answers, 2, n + 1)[i] = answers[2 + i - 1]
    BY <2>1, SubSeqProperties
  <2>3. (n + 1) - 2 + 1 = n /\ \A i \in 1..n : 2 + i - 1 = i + 1
    BY <1>1
  <2>4. QED BY <2>2, <2>3
<1>8. /\ answers' \in Seq(Bytes) /\ Len(answers') = Len(answers) - (n + 2)
      /\ Len(answers) - (n + 2) >= 1 => answers'[1] = answers[n + 3]
  <2>1. PICK m \in Nat \ {0} : m = n + 3
    BY <1>1
  <2>2. m <= Len(answers) + 1 /\ answers' = SubSeq(answers, m, Len(answers)) /\ answers \in Seq(Bytes)
    <3>1. answers \in Seq(Bytes)
      BY DEF TypeOK
    <3>2. m <= Len(answers) + 1
      BY <1>1, <2>1
    <3>3. QED BY <2>1, <3>1, <3>2
  <2>3. /\ answers' \in Seq(Bytes) /\ Len(answers') = Len(answers) - m + 1
        /\ \A i \in 1..(Len(answers) - m + 1) : answers'[i] = answers[m + i - 1]
    BY <2>1, <2>2, SuffixProperties
  <2>4. Len(answers) - m + 1 = Len(answers) - (n + 2) /\ m + 1 - 1 = m
    BY <1>1, <2>1
  <2>5. Len(answers) - (n + 2) >= 1 => 1 \in 1..(Len(answers) - m + 1)
    BY <1>1, <2>4
  <2>6. QED BY <2>1, <2>3, <2>4, <2>5
<1>9. Quiet'
  <2>1. CASE answers = WholeAnswer(pc)
    <3>1. Len(answers') = 0
      BY <1>1, <1>3, <1>8, <2>1
    <3>2. QED BY <1>8, <3>1, EmptySeq DEF Quiet
  <2>2. CASE device = "app" /\ answers = Append(WholeAnswer(pc), Text)
    <3>1. Len(answers) = n + 3 /\ answers[n + 3] = Text
      <4>1. Len(answers) = (n + 2) + 1 /\ answers[(n + 2) + 1] = Text
        BY <1>3, <2>2, BytesAreNumbers, AppendProperties
      <4>2. (n + 2) + 1 = n + 3
        BY <1>1
      <4>3. QED BY <4>1, <4>2
    <3>2. Len(answers') = 1 /\ answers'[1] = Text
      <4>1. Len(answers) - (n + 2) = 1
        BY <1>1, <3>1
      <4>2. QED BY <1>8, <3>1, <4>1
    <3>3. answers' = <<Text>>
      BY <1>8, <3>2, OneElement
    <3>4. QED BY <2>2, <3>3 DEF Quiet
  <2>3. QED BY <1>5, <2>1, <2>2
<1>10. QED BY <1>1, <1>2, <1>6, <1>7, <1>9

\* A signature that is accepted is the chip's.
LEMMA SignatureIsWhole ==
  ASSUME TypeOK, Greeting, pc = "sign", Arrived(5), SubSeq(answers, 2, 4) = Signature,
         answers' = SubSeq(answers, 6, Len(answers)), device' = device
  PROVE  commands = <<>> /\ chip = Signature /\ Quiet'
<1>1. Len(answers) \in Nat /\ Len(answers) >= 5
      /\ (\A i \in 1..Len(answers) : answers[i] \in Bytes)
  BY LenProperties, ElementOfSeq DEF Arrived, TypeOK
<1>2. answers[3] = 149
  <2>1. 2 \in Int /\ 4 \in Int /\ \A i \in 2..4 : answers[i] \in Bytes
    BY <1>1
  <2>2. SubSeq(answers, 2, 4)[2] = answers[3]
    <3>1. \A i \in 1..(4 - 2 + 1) : SubSeq(answers, 2, 4)[i] = answers[2 + i - 1]
      BY <2>1, SubSeqProperties
    <3>2. 2 \in 1..(4 - 2 + 1) /\ 2 + 2 - 1 = 3
      OBVIOUS
    <3>3. QED BY <3>1, <3>2
  <2>3. Signature[2] = 149
    BY DEF Signature
  <2>4. QED BY <2>2, <2>3
<1>3. /\ commands = <<>> /\ chip = Signature
      /\ \/ Len(answers) <= 5
         \/ device = "app" /\ Len(answers) = 6 /\ answers[6] = Text
  <2>1. 3 \in 1..Len(answers) /\ 3 + 2 = 5 /\ 3 + 3 = 6
    BY <1>1
  <2>2. /\ commands = <<>> /\ chip = Signature
        /\ \/ Len(answers) <= 3 + 2
           \/ device = "app" /\ Len(answers) = 3 + 3 /\ answers[3 + 3] = Text
    BY <1>2, <2>1 DEF Greeting
  <2>3. QED BY <2>1, <2>2
<1>4. /\ answers' \in Seq(Bytes) /\ Len(answers') = Len(answers) - 6 + 1
      /\ \A i \in 1..(Len(answers) - 6 + 1) : answers'[i] = answers[6 + i - 1]
  <2>1. 6 \in Nat \ {0} /\ 6 <= Len(answers) + 1
    BY <1>1
  <2>2. answers \in Seq(Bytes)
    BY DEF TypeOK
  <2>3. PICK m \in Nat \ {0} : m = 6
    OBVIOUS
  <2>4. m <= Len(answers) + 1 /\ answers' = SubSeq(answers, m, Len(answers))
    BY <2>1, <2>3
  <2>5. /\ answers' \in Seq(Bytes) /\ Len(answers') = Len(answers) - m + 1
        /\ \A i \in 1..(Len(answers) - m + 1) : answers'[i] = answers[m + i - 1]
    <3>1. /\ SubSeq(answers, m, Len(answers)) \in Seq(Bytes)
          /\ Len(SubSeq(answers, m, Len(answers))) = Len(answers) - m + 1
          /\ \A i \in 1..(Len(answers) - m + 1) :
               SubSeq(answers, m, Len(answers))[i] = answers[m + i - 1]
      BY <2>2, <2>4, SuffixProperties
    <3>2. QED BY ONLY <2>4, <3>1
  <2>6. QED BY <2>3, <2>5
<1>5. CASE Len(answers) <= 5
  <2>1. Len(answers') = 0
    BY <1>1, <1>4, <1>5
  <2>2. QED BY <1>3, <1>4, <2>1, EmptySeq DEF Quiet
<1>6. CASE device = "app" /\ Len(answers) = 6 /\ answers[6] = Text
  <2>1. Len(answers') = 1 /\ answers'[1] = answers[6]
    BY <1>4, <1>6
  <2>2. answers' = <<Text>>
    BY <1>4, <1>6, <2>1, OneElement
  <2>3. QED BY <1>3, <1>6, <2>2 DEF Quiet
<1>7. QED BY <1>3, <1>5, <1>6

-----------------------------------------------------------------------------
(* The programmer keeps the conversation in order.                           *)

\* After a failure only what is under way matters, and nothing is sent any more.
LEMMA Failed ==
  ASSUME Talk, pc' = "failed", UNCHANGED <<page, commands, address, chip, image>>
  PROVE  Talk'
<1>1. Pages' = Pages
  BY DEF Pages
<1>2. Writes'
  BY <1>1 DEF Talk, Writes
<1>3. QED BY <1>2 DEF Talk, Greeting, Turns, Turning, Loaded, Verified

LEMMA ParsingTalk ==
  ASSUME Talk, ReadRecord \/ BadRecord \/ FileEnds
  PROVE  Talk'
<1>1. pc = "parse" /\ pc' \in {"parse", "reset", "failed"} /\ commands' = commands
  BY DEF ReadRecord, BadRecord, FileEnds, Parsed
<1>2. commands = <<>>
  BY <1>1 DEF Talk, Greeting
<1>3. QED BY <1>1, <1>2 DEF Talk, Greeting, Turns, Turning, Loaded, Writes, Verified

\* A command after which no other is under way.
LEMMA OneCommand ==
  ASSUME TypeOK, commands = <<>>, NEW p \in Nat, NEW step \in Waiting, Go(step, p),
         image' = image
  PROVE  commands' = <<Command(step, p)>> /\ commands' = <<Command(pc, page)'>>
<1>1. commands' = <<Command(step, p)>>
  BY DEF Go
<1>2. Command(pc, page)' = Command(step, p)
  <2>1. PageOf(page)' = PageOf(p) /\ LoadPage(page)' = LoadPage(p)
    BY DEF Go, PageOf, LoadPage
  <2>2. QED BY <2>1 DEF Go, Command
<1>3. QED BY <1>1, <1>2

LEMMA CommandOp ==
  ASSUME NEW step \in Waiting, NEW p
  PROVE  /\ Command(step, p).op = IF step \in {"writeAt", "readAt"} THEN "load" ELSE step
         /\ step \in {"writeAt", "readAt"} => Command(step, p) = LoadPage(p)
         /\ step = "write" => Command(step, p).data = PageOf(p)
<1>1. CASE step \in {"writeAt", "readAt"}
  BY <1>1 DEF Command, LoadPage
<1>2. CASE step = "write"
  BY <1>2 DEF Command
<1>3. CASE step \notin {"writeAt", "readAt", "write"}
  BY <1>3 DEF Command
<1>4. QED BY <1>1, <1>2, <1>3

LEMMA ResetTalk ==
  ASSUME TypeOK, Talk, ResetBoard
  PROVE  Talk'
<1>1. commands = <<>> /\ pc' = "sync" /\ answers' = <<>> /\ image' = image
  BY DEF ResetBoard, Talk, Greeting, Go, input
<1>2. commands' = <<Command("sync", 0)>> /\ Command("sync", 0).op = "sync"
  BY <1>1, OneCommand, CommandOp DEF ResetBoard, Waiting
<1>3. QED BY <1>1, <1>2 DEF Talk, Greeting, Turns, Turning, Loaded, Writes, Verified

LEMMA SyncTalk ==
  ASSUME TypeOK, Talk, Synced \/ NotSynced
  PROVE  Talk'
<1>1. /\ \A i \in 1..Len(commands) : commands[i].op = "sync"
      /\ \A i \in 1..Len(answers) : answers[i] # 149
      /\ pc = "sync"
  BY DEF Synced, NotSynced, Talk, Greeting
<1>2. Len(commands) \in Nat /\ Len(answers) \in Nat
  BY LenProperties DEF TypeOK
<1>3. ASSUME NEW c \in Commands
      PROVE  /\ Len(Append(commands, c)) = Len(commands) + 1
             /\ \A i \in 1..Len(commands) : Append(commands, c)[i] = commands[i]
             /\ Append(commands, c)[Len(commands) + 1] = c
  BY AppendProperties DEF TypeOK
<1>4. \A step \in {"sync", "sign"} : Command(step, 0) \in Commands /\ Command(step, 0).op = step
  BY CommandType, CommandOp DEF TypeOK, Waiting
<1>5. CASE Synced
  <2>1. commands' = Append(commands, Command("sign", 0)) /\ pc' = "sign"
    BY <1>5 DEF Synced, Go
  <2>2. \A i \in 1..Len(commands') :
          commands'[i].op = IF i = Len(commands') THEN "sign" ELSE "sync"
    <3>1. \A i \in 1..Len(commands') : i \in 1..Len(commands) \/ i = Len(commands')
      BY <1>2, <1>3, <1>4, <2>1
    <3>2. Len(commands') \notin 1..Len(commands)
      BY <1>2, <1>3, <1>4, <2>1
    <3>3. QED BY <1>1, <1>3, <1>4, <2>1, <3>1, <3>2
  <2>3. \A i \in 1..Len(answers') : answers'[i] # 149
    <3>1. Len(answers) >= 2 /\ answers' = SubSeq(answers, 3, Len(answers))
      BY <1>5 DEF Synced, Arrived
    <3>2. 3 \in Nat \ {0} /\ 3 <= Len(answers) + 1 /\ answers \in Seq(Bytes)
      BY <1>2, <3>1 DEF TypeOK
    <3>3. /\ Len(answers') = Len(answers) - 3 + 1
          /\ \A i \in 1..(Len(answers) - 3 + 1) : answers'[i] = answers[3 + i - 1]
      BY <3>1, <3>2, SuffixProperties
    <3>4. \A i \in 1..(Len(answers) - 3 + 1) : 3 + i - 1 \in 1..Len(answers)
      BY <1>2
    <3>5. QED BY <1>1, <3>3, <3>4
  <2>4. QED BY <1>5, <2>1, <2>2, <2>3 DEF Talk, Greeting, Turns, Turning, Loaded, Writes, Verified
<1>6. CASE NotSynced /\ attempts = SyncAttempts
  BY <1>6, Failed DEF NotSynced, Fail, board, input
<1>7. CASE NotSynced /\ attempts # SyncAttempts
  <2>1. commands' = Append(commands, Command("sync", 0)) /\ pc' = "sync" /\ answers' = <<>>
    BY <1>7 DEF NotSynced, Go
  <2>2. \A i \in 1..Len(commands') : commands'[i].op = "sync"
    <3>1. \A i \in 1..Len(commands') : i \in 1..Len(commands) \/ i = Len(commands) + 1
      BY <1>2, <1>3, <1>4, <2>1
    <3>2. QED BY <1>1, <1>3, <1>4, <2>1, <3>1
  <2>3. QED BY <2>1, <2>2 DEF Talk, Greeting, Turns, Turning, Loaded, Writes, Verified
<1>8. QED BY <1>5, <1>6, <1>7

LEMMA TooShortTalk == ASSUME Talk, TooShort PROVE Talk'
  BY Failed DEF TooShort, Fail, board, input

\* What follows an answer that was accepted: the next command is the only one under way.
LEMMA TurnTaken ==
  ASSUME TypeOK, commands = <<>>, Quiet', chip = Signature, UNCHANGED <<chip, image, flash, address>>,
         NEW step \in Turning, NEW p \in Nat, Go(step, p)
  PROVE  Greeting' /\ Turns' /\ pc' = step /\ page' = p /\ commands' # <<>> /\ Pages' = Pages
         /\ (step = "write" /\ p < Pages /\ address = p * PageSize => Writes')
         /\ (step # "write" => Writes')
<1>1. pc' = step /\ page' = p /\ Pages' = Pages
  BY DEF Go, Pages
<1>2. step \in Waiting
  BY DEF Turning, Waiting
<1>3. commands' = <<Command(step, p)>> /\ commands' = <<Command(pc, page)'>>
  BY <1>2, OneCommand
<1>4. commands' # <<>> /\ Len(commands') = 1 /\ commands'[1] = Command(step, p)
  BY <1>3
<1>5. Turns'
  BY <1>3, <1>4 DEF Turns
<1>6. Greeting'
  BY <1>1 DEF Greeting, Turning
<1>7. step = "write" /\ p < Pages /\ address = p * PageSize => Writes'
  BY <1>1, <1>4 DEF Writes
<1>8. step # "write" => Writes'
  BY <1>2, <1>4, CommandOp DEF Writes
<1>9. QED BY <1>1, <1>4, <1>5, <1>6, <1>7, <1>8

\* A page that was read back and is the image's is in the flash.
LEMMA PageCompared ==
  ASSUME TypeOK, Fits, Talk, pc = "read",
         \A i \in 1..PageSize : Stored[i] = PageOf(page)[i]
  PROVE  \A i \in 1..Len(image) : i <= (page + 1) * PageSize => flash[i - 1] = image[i]
<1>1. SUFFICES ASSUME NEW i \in 1..Len(image), i <= (page + 1) * PageSize
               PROVE  flash[i - 1] = image[i]
  OBVIOUS
<1>2. PICK at \in Nat : at = page * PageSize
  BY FlasherAssumption DEF TypeOK
<1>3. PageSize \in Nat /\ (page + 1) * PageSize = at + PageSize /\ i \in Nat /\ Len(image) \in Nat
      /\ FlashSize \in Nat
  BY <1>2, FlasherAssumption, LenProperties DEF TypeOK
<1>4. address = at /\ Len(image) <= FlashSize
      /\ \A k \in 1..Len(image) : k <= at => flash[k - 1] = image[k]
  BY <1>2 DEF Talk, Loaded, Verified, Fits
<1>5. CASE i <= at
  BY <1>4, <1>5
<1>6. CASE ~ (i <= at)
  <2>1. PICK k \in 1..PageSize : k = i - at
    BY <1>1, <1>2, <1>3, <1>6
  <2>2. at + k = i /\ at + k - 1 = i - 1 /\ i - 1 \in Addresses
    BY <1>1, <1>2, <1>3, <1>4, <2>1 DEF Addresses
  <2>3. Stored[k] = flash[i - 1]
    BY <1>4, <2>2 DEF Stored
  <2>4. PageOf(page)[k] = image[i]
    BY <1>2, <1>3, <2>2 DEF PageOf
  <2>5. QED BY <2>3, <2>4
<1>7. QED BY <1>5, <1>6

\* The last page reaches to the end of the image.
LEMMA LastPage ==
  ASSUME TypeOK, NEW n \in Nat, ~ (n < Pages)
  PROVE  \A i \in 1..Len(image) : i <= n * PageSize
<1>1. Len(image) \in Nat /\ PageSize \in Nat \ {0} /\ n * PageSize \in Nat
  BY LenProperties, FlasherAssumption DEF TypeOK
<1>2. ~ (n * PageSize < Len(image))
  BY <1>1, PagesCover DEF Pages
<1>3. QED BY <1>1, <1>2

LEMMA QuietIsShort == ASSUME Quiet PROVE ~ (Len(answers) >= 2)
<1>1. CASE answers = <<>>
  BY <1>1
<1>2. CASE answers = <<Text>>
  BY <1>2
<1>3. QED BY <1>1, <1>2 DEF Quiet

LEMMA AnsweredTalk ==
  ASSUME TypeOK, Fits, Talk, Answered
  PROVE  Talk'
<1> DEFINE n == AnswerLength(pc)
           accepted == WellFormed(n) /\ Expected(SubSeq(answers, 2, n + 1))
<1>1. /\ pc \in Waiting \ {"sync"} /\ Arrived(n + 2)
      /\ answers' = SubSeq(answers, n + 3, Len(answers))
      /\ UNCHANGED <<image, chip, device, address, flash>>
      /\ IF accepted THEN Proceed ELSE Fail
  BY DEF Answered, input, board
<1>2. CASE ~ accepted
  BY <1>1, <1>2, Failed DEF Fail
<1>3. CASE accepted /\ pc = "sign"
  <2>1. n = 3
    BY <1>3 DEF AnswerLength
  <2>2. Arrived(5) /\ SubSeq(answers, 2, 4) = Signature /\ answers' = SubSeq(answers, 6, Len(answers))
    <3>1. 3 + 2 = 5 /\ 3 + 1 = 4 /\ 3 + 3 = 6
      OBVIOUS
    <3> HIDE DEF n
    <3>2. QED BY <1>1, <1>3, <2>1, <3>1 DEF Expected
  <2>3. commands = <<>> /\ chip = Signature /\ Quiet'
    BY <1>1, <1>3, <2>2, SignatureIsWhole DEF Talk
  <2>4. Go("enter", 0)
    BY <1>1, <1>3 DEF Proceed
  <2>5. Greeting' /\ Turns' /\ Writes' /\ pc' = "enter"
    BY <1>1, <2>3, <2>4, TurnTaken DEF Turning
  <2>6. QED BY <2>5 DEF Talk, Loaded, Verified
<1>4. CASE accepted /\ pc \in Turning
  <2>1. /\ commands = <<>> /\ Quiet' /\ chip = Signature /\ Len(answers) >= 2
        /\ \A i \in 1..n : SubSeq(answers, 2, n + 1)[i] = Payload(pc)[i]
    BY <1>1, <1>4, AnswerIsWhole DEF Talk, Turns
  <2>2. page \in Nat /\ page + 1 \in Nat /\ 0 \in Nat /\ PageSize \in Nat /\ Pages \in Nat
    <3>1. Len(image) \in Nat /\ PageSize \in Nat \ {0} /\ page \in Nat
      BY LenProperties, FlasherAssumption DEF TypeOK
    <3>2. QED BY <3>1, PagesCover DEF Pages
  <2>3. CASE pc = "enter"
    <3>1. IF Pages = 0 THEN Go("leave", 0) ELSE Go("writeAt", 0)
      BY <1>1, <1>4, <2>3 DEF Proceed
    <3>2. CASE Pages = 0
      <4>1. Greeting' /\ Turns' /\ Writes' /\ pc' = "leave"
        BY <1>1, <2>1, <3>1, <3>2, TurnTaken DEF Turning
      <4>2. \A i \in 1..Len(image) : i <= 0 * PageSize
        BY <3>2, LastPage
      <4>3. \A i \in 1..Len(image) : FALSE
        BY <2>2, <4>2
      <4>4. QED BY <1>1, <4>1, <4>3 DEF Talk, Loaded, Verified
    <3>3. CASE Pages # 0
      <4>1. Greeting' /\ Turns' /\ Writes' /\ pc' = "writeAt" /\ page' = 0 /\ commands' # <<>>
            /\ Pages' = Pages
        BY <1>1, <2>1, <3>1, <3>3, TurnTaken DEF Turning
      <4>2. QED BY <2>2, <3>3, <4>1 DEF Talk, Loaded, Verified
    <3>4. QED BY <3>2, <3>3
  <2>4. CASE pc = "writeAt"
    <3>1. Go("write", page)
      BY <1>1, <1>4, <2>4 DEF Proceed
    <3>2. page < Pages /\ address = page * PageSize
      BY <2>1, <2>4, QuietIsShort DEF Talk, Loaded
    <3>3. Greeting' /\ Turns' /\ Writes' /\ pc' = "write" /\ page' = page /\ Pages' = Pages
      BY <1>1, <2>1, <2>2, <3>1, <3>2, TurnTaken DEF Turning
    <3>4. QED BY <1>1, <3>2, <3>3 DEF Talk, Loaded, Verified
  <2>5. CASE pc = "write"
    <3>1. IF page + 1 < Pages THEN Go("writeAt", page + 1) ELSE Go("readAt", 0)
      BY <1>1, <1>4, <2>5 DEF Proceed
    <3>2. CASE page + 1 < Pages
      <4>1. Greeting' /\ Turns' /\ Writes' /\ pc' = "writeAt" /\ page' = page + 1
            /\ commands' # <<>> /\ Pages' = Pages
        BY <1>1, <2>1, <2>2, <3>1, <3>2, TurnTaken DEF Turning
      <4>2. QED BY <3>2, <4>1 DEF Talk, Loaded, Verified
    <3>3. CASE ~ (page + 1 < Pages)
      <4>1. Greeting' /\ Turns' /\ Writes' /\ pc' = "readAt" /\ page' = 0
            /\ commands' # <<>> /\ Pages' = Pages
        BY <1>1, <2>1, <2>2, <3>1, <3>3, TurnTaken DEF Turning
      <4>2. page < Pages
        BY <2>5 DEF Talk, Loaded
      <4>3. 0 < Pages /\ \A i \in 1..Len(image) : ~ (i <= 0 * PageSize)
        BY <2>2, <4>2
      <4>4. QED BY <1>1, <4>1, <4>3 DEF Talk, Loaded, Verified
    <3>4. QED BY <3>2, <3>3
  <2>6. CASE pc = "readAt"
    <3>1. Go("read", page)
      BY <1>1, <1>4, <2>6 DEF Proceed
    <3>2. page < Pages /\ address = page * PageSize
      BY <2>1, <2>6, QuietIsShort DEF Talk, Loaded
    <3>3. Greeting' /\ Turns' /\ Writes' /\ pc' = "read" /\ page' = page /\ Pages' = Pages
      BY <1>1, <2>1, <2>2, <3>1, TurnTaken DEF Turning
    <3>4. QED BY <1>1, <2>6, <3>2, <3>3 DEF Talk, Loaded, Verified
  <2>7. CASE pc = "read"
    <3>1. IF page + 1 < Pages THEN Go("readAt", page + 1) ELSE Go("leave", 0)
      BY <1>1, <1>4, <2>7 DEF Proceed
    <3>2. \A i \in 1..PageSize : Stored[i] = PageOf(page)[i]
      <4>1. n = PageSize /\ Payload(pc) = Stored
        BY <2>7 DEF AnswerLength, Payload
      <4>2. SubSeq(answers, 2, n + 1) = PageOf(page)
        BY <1>4, <2>7 DEF Expected
      <4> HIDE DEF n
      <4>3. QED BY <2>1, <4>1, <4>2
    <3>3. \A i \in 1..Len(image) : i <= (page + 1) * PageSize => flash[i - 1] = image[i]
      BY <2>7, <3>2, PageCompared
    <3>4. CASE page + 1 < Pages
      <4>1. Greeting' /\ Turns' /\ Writes' /\ pc' = "readAt" /\ page' = page + 1
            /\ commands' # <<>> /\ Pages' = Pages
        BY <1>1, <2>1, <2>2, <3>1, <3>4, TurnTaken DEF Turning
      <4>2. QED BY <1>1, <3>3, <3>4, <4>1 DEF Talk, Loaded, Verified
    <3>5. CASE ~ (page + 1 < Pages)
      <4>1. Greeting' /\ Turns' /\ Writes' /\ pc' = "leave"
        BY <1>1, <2>1, <2>2, <3>1, <3>5, TurnTaken DEF Turning
      <4>2. \A i \in 1..Len(image) : flash[i - 1] = image[i]
        BY <2>2, <3>3, <3>5, LastPage
      <4>3. QED BY <1>1, <4>1, <4>2 DEF Talk, Loaded, Verified
    <3>6. QED BY <3>4, <3>5
  <2>8. CASE pc = "leave"
    <3>1. pc' = "done" /\ commands' = <<>>
      BY <1>1, <1>4, <2>1, <2>8 DEF Proceed
    <3>2. QED BY <1>1, <2>8, <3>1 DEF Talk, Greeting, Turns, Turning, Loaded, Writes, Verified
  <2>9. QED BY <1>4, <2>3, <2>4, <2>5, <2>6, <2>7, <2>8 DEF Turning
<1>5. QED BY <1>1, <1>2, <1>3, <1>4 DEF Waiting, Turning

-----------------------------------------------------------------------------
(* So do the bootloader, the firmware and the line.                          *)

\* A command that was taken from the line: whatever is left is no page.
LEMMA TakenWrites ==
  ASSUME TypeOK, Talk, commands # <<>>, commands' = Tail(commands)
  PROVE  Writes'
<1>1. \A i \in 1..Len(commands') : commands'[i] = commands[i + 1] /\ i + 1 \in 1..Len(commands)
                                   /\ Len(commands) # 1
  BY HeadCommand
<1>2. \A i \in 1..Len(commands') : commands'[i].op # "write"
  BY <1>1 DEF Talk, Writes
<1>3. QED BY <1>2 DEF Writes

\* Before the signature is compared, a command is taken: what is left of them.
LEMMA TakenGreeting ==
  ASSUME TypeOK, Talk, commands # <<>>, commands' = Tail(commands), pc' = pc
  PROVE  /\ pc = "sync" => \A i \in 1..Len(commands') : commands'[i].op = "sync"
         /\ pc = "sign" => \A i \in 1..Len(commands') :
                              commands'[i].op = IF i = Len(commands') THEN "sign" ELSE "sync"
         /\ pc = "sync" => Head(commands).op = "sync"
         /\ pc = "sign" => Head(commands).op \in {"sync", "sign"}
         /\ pc = "sign" /\ Head(commands).op = "sign" => commands' = <<>>
         /\ pc = "sign" => \A i \in 1..Len(answers) : answers[i] # 149
         /\ pc \notin {"parse", "reset", "done"}
<1>1. /\ Len(commands) \in Nat \ {0} /\ Head(commands) = commands[1] /\ commands' \in Seq(Commands)
      /\ Len(commands') = Len(commands) - 1
      /\ \A i \in 1..Len(commands') : commands'[i] = commands[i + 1] /\ i + 1 \in 1..Len(commands)
                                      /\ (i = Len(commands') <=> i + 1 = Len(commands))
  BY HeadCommand
<1>2. 1 \in 1..Len(commands)
  BY <1>1
<1>3. ASSUME pc = "sign", Head(commands).op = "sign" PROVE commands' = <<>>
  <2>1. Len(commands) = 1
    BY <1>1, <1>2, <1>3 DEF Talk, Greeting
  <2>2. QED BY <1>1, <2>1, EmptySeq
<1>4. CASE pc = "sync"
  <2>1. \A i \in 1..Len(commands) : commands[i].op = "sync"
    BY <1>4 DEF Talk, Greeting
  <2>2. QED BY <1>1, <1>2, <1>4, <2>1
<1>5. CASE pc = "sign"
  <2>1. /\ \A i \in 1..Len(commands) : commands[i].op = IF i = Len(commands) THEN "sign" ELSE "sync"
        /\ \A i \in 1..Len(answers) : answers[i] # 149
    BY <1>5 DEF Talk, Greeting
  <2>2. \A i \in 1..Len(commands') :
          commands'[i].op = IF i = Len(commands') THEN "sign" ELSE "sync"
    <3>1. ASSUME NEW i \in 1..Len(commands')
          PROVE  commands'[i].op = IF i = Len(commands') THEN "sign" ELSE "sync"
      <4>1. /\ commands'[i] = commands[i + 1] /\ i + 1 \in 1..Len(commands)
            /\ (i = Len(commands') <=> i + 1 = Len(commands))
        BY <1>1
      <4>2. commands[i + 1].op = IF i + 1 = Len(commands) THEN "sign" ELSE "sync"
        BY <2>1, <4>1
      <4>3. QED BY <4>1, <4>2
    <3>2. QED BY <3>1
  <2>3. Head(commands).op \in {"sync", "sign"}
    <3>1. commands[1].op = IF 1 = Len(commands) THEN "sign" ELSE "sync"
      BY <1>2, <2>1
    <3>2. QED BY <1>1, <3>1
  <2>4. QED BY <1>3, <1>5, <2>1, <2>2, <2>3
<1>6. pc \notin {"parse", "reset", "done"}
  BY DEF Talk, Greeting, Verified
<1>7. QED BY <1>4, <1>5, <1>6

\* In a turn, the command that is taken is the one that was sent.
LEMMA TakenTurn ==
  ASSUME TypeOK, Talk, pc \in Turning, commands # <<>>
  PROVE  /\ Head(commands) = Command(pc, page) /\ Tail(commands) = <<>> /\ Quiet
         /\ device = "boot" => answers = <<>>
<1>1. commands = <<Command(pc, page)>> /\ Quiet
  BY DEF Talk, Turns
<1>2. Head(commands) = Command(pc, page) /\ Tail(commands) = <<>>
  BY <1>1
<1>3. QED BY <1>1, <1>2 DEF Quiet

LEMMA HandleTalk ==
  ASSUME TypeOK, Talk, Handle
  PROVE  Talk'
<1>1. PICK c : c = Head(commands)
  OBVIOUS
<1>2. /\ device = "boot" /\ commands # <<>> /\ commands' = Tail(commands)
      /\ address' = IF c.op = "load" THEN 2 * (c.low + ByteBase * c.high) ELSE address
      /\ flash' = IF c.op = "write" THEN Programmed(c.data) ELSE flash
      /\ UNCHANGED <<pc, page, image, chip>>
  BY <1>1 DEF Handle, host, input
<1>3. answers' = answers \o WholeAnswer(c.op)
  <2>1. answers' = answers \o <<InSync>> \o Payload(c.op) \o <<OK>>
    BY <1>1 DEF Handle
  <2>2. answers \in Seq(Bytes) /\ <<InSync>> \in Seq(Bytes) /\ Payload(c.op) \in Seq(Bytes)
        /\ <<OK>> \in Seq(Bytes)
    BY BytesAreNumbers, PayloadType DEF TypeOK
  <2>3. QED BY <2>1, <2>2, ConcatAssociative DEF WholeAnswer
<1>4. Writes' /\ Pages' = Pages
  BY <1>2, TakenWrites DEF Pages
<1>5. CASE pc \in {"sync", "sign"}
  <2>1. PICK n \in Nat : n = Len(answers)
    BY LenProperties DEF TypeOK
  <2>2. \A i \in 1..n : answers[i] # 149
    BY <1>2, <1>5, <2>1, TakenGreeting DEF Talk, Greeting
  <2>3. PICK w \in Seq(Bytes) : w = WholeAnswer(c.op)
    BY WholeAnswerProperties
  <2>4. /\ Len(answers') = n + Len(w) /\ Len(w) \in Nat
        /\ \A i \in 1..(n + Len(w)) : answers'[i] = IF i <= n THEN answers[i] ELSE w[i - n]
    BY <1>3, <2>1, <2>3, ConcatProperties, LenProperties DEF TypeOK
  <2>5. CASE c.op = "sync"
    <3>1. Len(w) = 2 /\ w[1] = InSync /\ w[2] = OK
      <4>1. AnswerLength(c.op) = 0 /\ 0 + 2 = 2
        BY <2>5 DEF AnswerLength
      <4>2. QED BY <2>3, <4>1, WholeAnswerProperties
    <3>2. \A i \in 1..Len(answers') : answers'[i] # 149
      <4>1. \A i \in 1..(n + 2) : i <= n \/ i - n = 1 \/ i - n = 2
        OBVIOUS
      <4>2. QED BY <2>2, <2>4, <3>1, <4>1 DEF InSync, OK
    <3>3. Greeting'
      BY <1>2, <1>5, <3>2, TakenGreeting DEF Greeting
    <3>4. QED BY <1>2, <1>4, <1>5, <3>3 DEF Talk, Turns, Turning, Loaded, Verified
  <2>6. CASE c.op = "sign"
    <3>1. pc = "sign" /\ commands' = <<>>
      BY <1>1, <1>2, <1>5, <2>6, TakenGreeting
    <3>2. Len(w) = 5 /\ w[1] = InSync /\ w[5] = OK /\ w[2] = chip[1] /\ w[3] = chip[2] /\ w[4] = chip[3]
      <4>1. AnswerLength(c.op) = 3 /\ Payload(c.op) = chip
        BY <2>6 DEF AnswerLength, Payload
      <4>2. 3 + 2 = 5 /\ 1 + 1 = 2 /\ 2 + 1 = 3 /\ 3 + 1 = 4 /\ 1 \in 1..3 /\ 2 \in 1..3 /\ 3 \in 1..3
        OBVIOUS
      <4>3. /\ Len(w) = 3 + 2 /\ w[1] = InSync /\ w[3 + 2] = OK
            /\ \A i \in 1..3 : w[i + 1] = chip[i]
        BY <2>3, <4>1, WholeAnswerProperties
      <4>4. QED BY <4>2, <4>3
    <3>3. /\ w[1] # 149 /\ w[2] # 149 /\ w[4] # 149 /\ w[5] # 149
          /\ w[3] = 149 => chip = Signature
      <4>1. w[1] = 20 /\ w[5] = 16
        BY <3>2 DEF InSync, OK
      <4>2. CASE chip = Signature
        <5>1. chip[1] = 30 /\ chip[2] = 149 /\ chip[3] = 15
          BY <4>2 DEF Signature
        <5>2. QED BY <3>2, <4>1, <4>2, <5>1
      <4>3. CASE chip = Foreign
        <5>1. chip[1] = 30 /\ chip[2] = 147 /\ chip[3] = 11
          BY <4>3 DEF Foreign
        <5>2. QED BY <3>2, <4>1, <5>1
      <4>4. QED BY <4>2, <4>3 DEF TypeOK
    <3>4. ASSUME NEW i \in 1..Len(answers'), answers'[i] = 149
          PROVE  chip' = Signature /\ Len(answers') <= i + 2
      <4>1. i <= n \/ i - n = 1 \/ i - n = 2 \/ i - n = 3 \/ i - n = 4 \/ i - n = 5
        BY <2>4, <3>2
      <4>2. i - n = 3 /\ w[3] = 149
        BY <2>2, <2>4, <3>2, <3>3, <3>4, <4>1
      <4>3. QED BY <1>2, <2>4, <3>2, <3>3, <4>2
    <3>5. Greeting'
      <4>1. \A i \in 1..Len(commands') : FALSE
        BY <3>1
      <4>2. QED BY <1>2, <3>1, <3>4, <4>1 DEF Greeting
    <3>6. QED BY <1>2, <1>4, <3>1, <3>5 DEF Talk, Turns, Turning, Loaded, Verified
  <2>7. QED BY <1>1, <1>2, <1>5, <2>5, <2>6, TakenGreeting
<1>6. CASE pc \in Turning
  <2>1. c = Command(pc, page) /\ commands' = <<>> /\ answers = <<>> /\ chip = Signature
    BY <1>1, <1>2, <1>6, TakenTurn DEF Talk, Turns
  <2>2. c.op = IF pc \in {"writeAt", "readAt"} THEN "load" ELSE pc
    BY <1>6, <2>1, CommandOp DEF Turning, Waiting
  <2>3. answers' = WholeAnswer(c.op)
    BY <1>3, <2>1, WholeAnswerProperties
  <2>4. WholeAnswer(c.op) = WholeAnswer(pc)
    BY <2>2 DEF WholeAnswer, Payload
  <2>5. WholeAnswer(pc)' = WholeAnswer(pc)
    <3>1. pc = "read" => Stored' = Stored
      BY <1>2, <2>2 DEF Stored
    <3>2. QED BY <1>2, <3>1 DEF WholeAnswer, Payload
  <2>6. Turns'
    BY <1>2, <2>1, <2>3, <2>4, <2>5 DEF Turns
  <2>7. pc \in {"writeAt", "readAt"} => address' = page * PageSize
    <3>1. SUFFICES ASSUME pc \in {"writeAt", "readAt"} PROVE address' = page * PageSize
      OBVIOUS
    <3>2. c = LoadPage(page) /\ c.op = "load"
      BY <2>1, <2>2, <3>1, CommandOp DEF Waiting
    <3>3. address' = 2 * (c.low + ByteBase * c.high)
      BY <1>2, <3>2
    <3>4. c.low = ((page * PageSize) \div 2) % ByteBase /\ c.high = ((page * PageSize) \div 2) \div ByteBase
      BY <3>2 DEF LoadPage
    <3>5. page \in Nat
      BY DEF TypeOK
    <3>6. QED BY <3>3, <3>4, <3>5, WordAddress
  <2>8. Loaded'
    BY <1>2, <1>4, <2>2, <2>7 DEF Talk, Loaded
  <2>9. Verified'
    <3>1. pc \in {"readAt", "read", "leave"} => flash' = flash
      BY <1>2, <2>2
    <3>2. QED BY <1>2, <1>6, <3>1 DEF Talk, Verified, Turning
  <2>10. QED BY <1>2, <1>4, <1>6, <2>6, <2>8, <2>9 DEF Talk, Greeting, Turning
<1>7. CASE pc = "failed"
  BY <1>2, <1>4, <1>7 DEF Talk, Greeting, Turns, Turning, Loaded, Verified
<1>8. QED BY <1>2, <1>5, <1>6, <1>7, TakenGreeting DEF TypeOK, Waiting, Turning

LEMMA MisprogramTalk ==
  ASSUME TypeOK, Talk, Misprogram
  PROVE  Talk'
<1>1. /\ device = "boot" /\ commands # <<>> /\ commands' = Tail(commands)
      /\ Head(commands).op = "write" /\ answers' = answers \o <<InSync, OK>>
      /\ UNCHANGED <<pc, page, image, chip, address, device>>
  BY DEF Misprogram, host, input
<1>2. Writes' /\ Pages' = Pages
  BY <1>1, TakenWrites DEF Pages
<1>3. pc \in {"write", "failed"}
  <2>1. 1 \in 1..Len(commands) /\ commands[1].op = "write"
    BY <1>1, HeadCommand
  <2>2. QED BY <2>1 DEF Talk, Writes
<1>4. CASE pc = "write"
  <2>1. answers = <<>> /\ commands' = <<>> /\ chip = Signature
    BY <1>1, <1>4, TakenTurn DEF Turning, Talk, Turns
  <2>2. WholeAnswer(pc)' = <<InSync, OK>>
    <3>1. WholeAnswer(pc)' = <<InSync>> \o <<>> \o <<OK>>
      BY <1>1, <1>4 DEF WholeAnswer, Payload
    <3>2. <<InSync>> \o <<>> \o <<OK>> = <<InSync, OK>>
      BY ShortSequences
    <3>3. QED BY <3>1, <3>2
  <2>3. answers' = <<InSync, OK>>
    BY <1>1, <2>1
  <2>4. Turns'
    BY <1>1, <2>1, <2>2, <2>3 DEF Turns
  <2>5. QED BY <1>1, <1>2, <1>4, <2>4 DEF Talk, Greeting, Loaded, Verified
<1>5. CASE pc = "failed"
  BY <1>1, <1>2, <1>5 DEF Talk, Greeting, Turns, Turning, Loaded, Verified
<1>6. QED BY <1>3, <1>4, <1>5

\* A command that nobody answers: the bootloader gave up on it or is gone.
LEMMA DroppedTalk ==
  ASSUME TypeOK, Talk, commands # <<>>, commands' = Tail(commands), device' = "app",
         answers' = answers \/ (device = "boot" /\ answers' = Append(answers, Text)),
         device = "app" \/ answers' # answers,
         UNCHANGED <<pc, page, image, chip, address, flash>>
  PROVE  Talk'
<1>1. Writes' /\ Pages' = Pages
  BY TakenWrites DEF Pages
<1>2. CASE pc \in {"sync", "sign"}
  <2>1. PICK n \in Nat : n = Len(answers)
    BY LenProperties DEF TypeOK
  <2>2. \A i \in 1..n : answers[i] # 149
    BY <1>2, <2>1, TakenGreeting DEF Talk, Greeting
  <2>3. \A i \in 1..Len(answers') : answers'[i] # 149
    <3>1. CASE answers' = answers
      BY <2>1, <2>2, <3>1
    <3>2. CASE answers' = Append(answers, Text)
      <4>1. /\ Len(answers') = n + 1 /\ answers'[n + 1] = Text
            /\ \A i \in 1..n : answers'[i] = answers[i]
        BY <2>1, <3>2, BytesAreNumbers, AppendProperties DEF TypeOK
      <4>2. QED BY <2>2, <4>1 DEF Text
    <3>3. QED BY <3>1, <3>2
  <2>4. Greeting'
    BY <1>2, <2>3, TakenGreeting DEF Greeting
  <2>5. QED BY <1>1, <1>2, <2>4 DEF Talk, Turns, Turning, Loaded, Verified
<1>3. CASE pc \in Turning
  <2>1. commands' = <<>> /\ Quiet /\ (device = "boot" => answers = <<>>) /\ chip = Signature
    BY <1>3, TakenTurn DEF Talk, Turns
  <2>2. answers' = <<>> \/ answers' = <<Text>>
    <3>1. Append(<<>>, Text) = <<Text>>
      BY ShortSequences
    <3>2. QED BY <2>1, <3>1 DEF Quiet
  <2>3. Quiet'
    BY <2>2 DEF Quiet
  <2>4. Len(answers') < AnswerLength(pc) + 2
    <3>1. Len(answers') \in {0, 1}
      <4>1. Len(<<Text>>) = 1 /\ Len(<<>>) = 0
        BY ShortSequences
      <4>2. QED BY <2>2, <4>1
    <3>2. PICK m \in Nat : m = AnswerLength(pc)
      BY AnswerLengthType
    <3>3. 0 < m + 2 /\ 1 < m + 2
      BY <3>2
    <3>4. QED BY <3>1, <3>2, <3>3
  <2>5. Turns'
    BY <1>3, <2>1, <2>4 DEF Turns
  <2>6. QED BY <1>1, <1>3, <2>3, <2>5 DEF Talk, Greeting, Turning, Loaded, Verified
<1>4. CASE pc = "failed"
  BY <1>1, <1>4 DEF Talk, Greeting, Turns, Turning, Loaded, Verified
<1>5. QED BY <1>2, <1>3, <1>4, TakenGreeting DEF TypeOK, Waiting, Turning

\* The bootloader starts the firmware with nothing to handle.
LEMMA StartedTalk ==
  ASSUME TypeOK, Talk, commands = <<>>, commands' = <<>>, device = "boot", device' = "app",
         answers' = Append(answers, Text),
         UNCHANGED <<pc, page, image, chip, address, flash>>
  PROVE  Talk'
<1>1. Pages' = Pages
  BY DEF Pages
<1>2. Writes'
  BY DEF Writes
<1>3. PICK n \in Nat : n = Len(answers)
  BY LenProperties DEF TypeOK
<1>4. /\ Len(answers') = n + 1 /\ answers'[n + 1] = Text
      /\ \A i \in 1..n : answers'[i] = answers[i]
  BY <1>3, BytesAreNumbers, AppendProperties DEF TypeOK
<1>5. Greeting'
  <2>1. \A i \in 1..(n + 1) : i \in 1..n \/ i = n + 1
    OBVIOUS
  <2>2. ASSUME NEW i \in 1..Len(answers'), answers'[i] = 149
        PROVE  i \in 1..n /\ answers[i] = 149
    BY <1>4, <2>1, <2>2 DEF Text
  <2>3. pc = "sign" => \A i \in 1..n : answers[i] = 149 => n <= i + 2 /\ chip = Signature
    BY <1>3 DEF Talk, Greeting
  <2>4. ASSUME pc = "sign", NEW i \in 1..Len(answers'), answers'[i] = 149
        PROVE  /\ chip = Signature
               /\ \/ Len(answers') <= i + 2
                  \/ Len(answers') = i + 3 /\ answers'[i + 3] = Text
    <3>1. i \in 1..n /\ n <= i + 2 /\ chip = Signature
      BY <2>2, <2>3, <2>4
    <3>2. n + 1 <= i + 2 \/ n + 1 = i + 3
      BY <3>1
    <3>3. QED BY <1>4, <3>1, <3>2
  <2>5. pc = "sync" => \A i \in 1..Len(answers') : answers'[i] # 149
    BY <1>3, <2>2 DEF Talk, Greeting
  <2>6. QED BY <2>4, <2>5 DEF Talk, Greeting
<1>6. Turns'
  <2>1. SUFFICES ASSUME pc \in Turning PROVE Turns'
    BY DEF Turns
  <2>2. PICK m \in Nat : m = AnswerLength(pc)
    BY AnswerLengthType
  <2>3. WholeAnswer(pc)' = WholeAnswer(pc)
    BY DEF WholeAnswer, Payload, Stored
  <2>4. chip = Signature /\ (n < m + 2 \/ answers = WholeAnswer(pc))
    BY <1>3, <2>1, <2>2 DEF Talk, Turns
  <2>5. CASE n < m + 2
    <3>1. n + 1 < m + 2 \/ n + 1 = m + 2
      BY <2>5
    <3>2. QED BY <1>4, <2>2, <2>4, <3>1 DEF Turns
  <2>6. CASE answers = WholeAnswer(pc)
    BY <2>3, <2>4, <2>6 DEF Turns
  <2>7. QED BY <2>4, <2>5, <2>6
<1>7. Loaded'
  BY <1>1 DEF Talk, Loaded
<1>8. QED BY <1>2, <1>5, <1>6, <1>7 DEF Talk, Verified

LEMMA LoseTalk ==
  ASSUME TypeOK, Talk, LoseByte
  PROVE  Talk'
<1>1. PICK k \in 1..Len(answers) : answers' = RemoveAt(answers, k)
  BY DEF LoseByte
<1>2. UNCHANGED <<pc, page, image, chip, address, flash, device, commands>>
  BY DEF LoseByte, input, host, board
<1>3. PICK n \in Nat \ {0} : n = Len(answers)
  BY <1>1, LenProperties DEF TypeOK
<1>4. /\ Len(answers') = n - 1 /\ k \in 1..n
      /\ \A i \in 1..(n - 1) : answers'[i] = IF i < k THEN answers[i] ELSE answers[i + 1]
  BY <1>1, <1>3, RemoveAtProperties DEF TypeOK
<1>5. Pages' = Pages /\ Writes' /\ Verified'
  BY <1>2 DEF Talk, Pages, Writes, Verified
<1>6. Greeting'
  <2>1. ASSUME pc = "sync", NEW i \in 1..Len(answers') PROVE answers'[i] # 149
    BY <1>3, <1>4, <2>1 DEF Talk, Greeting
  <2>2. ASSUME pc = "sign", NEW i \in 1..Len(answers'), answers'[i] = 149
        PROVE  /\ commands = <<>> /\ chip = Signature
               /\ \/ Len(answers') <= i + 2
                  \/ device = "app" /\ Len(answers') = i + 3 /\ answers'[i + 3] = Text
    <3>1. PICK j \in 1..n : answers[j] = 149 /\ j = IF i < k THEN i ELSE i + 1
      BY <1>4, <2>2
    <3>2. /\ commands = <<>> /\ chip = Signature
          /\ n <= j + 2 \/ (device = "app" /\ n = j + 3 /\ answers[j + 3] = Text)
      BY <1>3, <2>2, <3>1 DEF Talk, Greeting
    <3>3. CASE n <= j + 2
      <4>1. n - 1 <= i + 2
        BY <1>4, <3>1, <3>3
      <4>2. QED BY <1>4, <3>2, <4>1
    <3>4. CASE device = "app" /\ n = j + 3 /\ answers[j + 3] = Text
      <4>1. CASE i < k
        <5>1. n - 1 <= i + 2
          BY <3>1, <3>4, <4>1
        <5>2. QED BY <1>4, <3>2, <5>1
      <4>2. CASE ~ (i < k)
        <5>1. n - 1 = i + 3 /\ i + 3 \in 1..(n - 1) /\ ~ (i + 3 < k) /\ (i + 3) + 1 = j + 3
          BY <1>4, <3>1, <3>4, <4>2
        <5>2. answers'[i + 3] = answers[(i + 3) + 1]
          BY <1>4, <5>1
        <5>3. QED BY <1>4, <3>2, <3>4, <5>1, <5>2
      <4>3. QED BY <4>1, <4>2
    <3>5. QED BY <3>2, <3>3, <3>4
  <2>3. QED BY <1>2, <2>1, <2>2 DEF Talk, Greeting
<1>7. Quiet => Quiet'
  <2>1. SUFFICES ASSUME Quiet PROVE answers' = <<>>
    BY DEF Quiet
  <2>2. n = 1
    <3>1. n < 2
      <4>1. ~ (Len(answers) >= 2)
        BY <2>1, QuietIsShort
      <4>2. QED BY <1>3, <4>1
    <3>2. QED BY <3>1
  <2>3. answers' \in Seq(Bytes) /\ Len(answers') = 0
    BY <1>1, <1>4, <2>2, RemoveAtProperties DEF TypeOK
  <2>4. QED BY <2>3, EmptySeq
<1>8. Turns'
  <2>1. SUFFICES ASSUME pc \in Turning PROVE Turns'
    BY <1>2 DEF Turns
  <2>2. PICK m \in Nat : m = AnswerLength(pc)
    BY AnswerLengthType
  <2>3. chip = Signature /\ Command(pc, page)' = Command(pc, page)
    BY <1>2, <2>1 DEF Talk, Turns, Command, PageOf, LoadPage
  <2>4. CASE commands # <<>>
    <3>1. commands = <<Command(pc, page)>> /\ Quiet
      BY <2>1, <2>4 DEF Talk, Turns
    <3>2. QED BY <1>2, <1>7, <2>3, <2>4, <3>1 DEF Turns
  <2>5. CASE commands = <<>>
    <3>1. /\ WholeAnswer(pc) \in Seq(Bytes) /\ Len(WholeAnswer(pc)) = m + 2
      BY <2>2, WholeAnswerProperties
    <3>2. \/ n <= m + 2
          \/ device = "app" /\ answers = Append(WholeAnswer(pc), Text)
      BY <1>3, <2>1, <2>2, <2>5, <3>1 DEF Talk, Turns
    <3>3. CASE n <= m + 2
      <4>1. n - 1 < m + 2
        BY <3>3
      <4>2. QED BY <1>2, <1>4, <2>2, <2>3, <2>5, <4>1 DEF Turns
    <3>4. CASE device = "app" /\ answers = Append(WholeAnswer(pc), Text)
      <4>1. /\ n = m + 3 /\ answers[m + 3] = Text
            /\ \A i \in 1..(m + 2) : answers[i] = WholeAnswer(pc)[i]
        <5>1. /\ n = (m + 2) + 1 /\ answers[(m + 2) + 1] = Text
              /\ \A i \in 1..(m + 2) : answers[i] = WholeAnswer(pc)[i]
          BY <1>3, <3>1, <3>4, BytesAreNumbers, AppendProperties
        <5>2. (m + 2) + 1 = m + 3
          OBVIOUS
        <5>3. QED BY <5>1, <5>2
      <4>2. Len(answers') = m + 2 /\ m + 2 \in 1..(n - 1) /\ (m + 2) + 1 = m + 3
        BY <1>4, <4>1
      <4>3. CASE k = m + 3
        <5>1. \A i \in 1..(m + 2) : answers'[i] = WholeAnswer(pc)[i]
          BY <1>4, <4>1, <4>2, <4>3
        <5>2. answers' \in Seq(Bytes)
          BY <1>1, RemoveAtProperties DEF TypeOK
        <5>3. answers' = WholeAnswer(pc)
          BY <3>1, <4>2, <5>1, <5>2, SeqEqual
        <5>4. WholeAnswer(pc)' = WholeAnswer(pc)
          BY <1>2 DEF WholeAnswer, Payload, Stored
        <5>5. QED BY <1>2, <2>3, <2>5, <5>3, <5>4 DEF Turns
      <4>4. CASE k # m + 3
        <5>1. ~ (m + 2 < k)
          BY <1>4, <4>1, <4>4
        <5>2. answers'[m + 2] = answers[(m + 2) + 1]
          BY <1>4, <4>2, <5>1
        <5>3. answers'[m + 2] = Text
          BY <4>1, <4>2, <5>2
        <5>4. QED BY <1>2, <2>2, <2>3, <2>5, <3>4, <4>2, <5>3 DEF Turns
      <4>5. QED BY <4>3, <4>4
    <3>5. QED BY <3>2, <3>3, <3>4
  <2>6. QED BY <2>4, <2>5
<1>9. Loaded'
  BY <1>2, <1>5, <1>7 DEF Talk, Loaded
<1>10. QED BY <1>5, <1>6, <1>8, <1>9 DEF Talk

LEMMA TalkInit == ASSUME Init PROVE Talk
  BY DEF Init, Talk, Greeting, Turns, Turning, Loaded, Writes, Verified

LEMMA TalkStep ==
  ASSUME TypeOK, Fits, Talk, [Next]_vars
  PROVE  Talk'
<1>1. CASE UNCHANGED vars
  <2>1. UNCHANGED <<pc, page, commands, answers, device, chip, image, address, flash>>
    BY <1>1 DEF vars, input, host, board
  <2>2. Command(pc, page)' = Command(pc, page) /\ WholeAnswer(pc)' = WholeAnswer(pc)
        /\ Pages' = Pages /\ Quiet' = Quiet
    BY <2>1 DEF Command, PageOf, LoadPage, WholeAnswer, Payload, Stored, Pages, Quiet
  <2>3. Greeting'
    BY <2>1 DEF Talk, Greeting
  <2>4. Turns'
    BY <2>1, <2>2 DEF Talk, Turns
  <2>5. Loaded' /\ Writes' /\ Verified'
    BY <2>1, <2>2 DEF Talk, Loaded, Writes, Verified
  <2>6. QED BY <2>3, <2>4, <2>5 DEF Talk
<1>2. CASE Stopped
  BY <1>1, <1>2 DEF Stopped
<1>3. CASE StartApp
  <2>1. /\ device = "boot" /\ device' = "app" /\ answers' = Append(answers, Text)
        /\ UNCHANGED <<pc, page, image, chip, address, flash>>
    BY <1>3 DEF StartApp, host, input
  <2>2. CASE commands = <<>>
    BY <1>3, <2>1, <2>2, StartedTalk DEF StartApp
  <2>3. CASE commands # <<>>
    <3>1. answers' # answers
      <4>1. Len(answers') # Len(answers)
        BY <2>1, BytesAreNumbers, AppendProperties, LenProperties DEF TypeOK
      <4>2. QED BY <4>1
    <3>2. commands' = Tail(commands)
      BY <1>3, <2>3 DEF StartApp
    <3>3. QED BY <2>1, <2>3, <3>1, <3>2, DroppedTalk
  <2>4. QED BY <2>2, <2>3
<1>4. CASE Ignore
  BY <1>4, DroppedTalk DEF Ignore, input, host, board
<1>5. QED
  BY <1>1, <1>2, <1>3, <1>4, ParsingTalk, ResetTalk, SyncTalk, AnsweredTalk, TooShortTalk,
     HandleTalk, MisprogramTalk, LoseTalk DEF Next, Programmer

-----------------------------------------------------------------------------
(* Flashing keeps its promise.                                               *)

LEMMA IInvInit == Init => IInv
  BY TypeInit, TalkInit DEF IInv

LEMMA IInvStep == IInv /\ [Next]_vars => IInv'
  BY TypeStep, TalkStep DEF IInv

\* The invariant the proofs rest on: what was read of the file, and that each answer the programmer
\* compares is the one to its own command.
THEOREM FlasherIInv == Spec => []IInv
  BY IInvInit, IInvStep, PTL DEF Spec

\* What is written is one page of the image.
LEMMA WriteCovered ==
  ASSUME TypeOK, Fits, address = page * PageSize, page < Pages, pc # "parse",
         NEW bytes \in [1..PageSize -> Bytes], NEW a \in Addresses \ Promise!Covered
  PROVE  Programmed(bytes)[a] = flash[a]
<1>1. PageSize \in Nat \ {0} /\ page \in Nat /\ a \in Nat /\ Len(image) \in Nat /\ a \in Addresses
  BY FlasherAssumption, LenProperties DEF TypeOK, Addresses
<1>2. ~ (a >= address /\ a < address + PageSize)
  <2>1. SUFFICES ASSUME a >= address, a < address + PageSize PROVE FALSE
    OBVIOUS
  <2>2. PICK at \in Nat : at = page * PageSize
    BY <1>1
  <2>3. at < Len(image)
    BY <1>1, <2>2, PagesCover DEF Pages
  <2>4. a \div PageSize = page
    <3>1. \A x \in Nat : x >= at /\ x < at + PageSize => x \div PageSize = page
      <4>1. SUFFICES ASSUME NEW x \in Nat, x >= at, x < at + PageSize PROVE x \div PageSize = page
        OBVIOUS
      <4>2. PICK q \in Nat, r \in 0..(PageSize - 1) : q = x \div PageSize /\ x = PageSize * q + r
        <5>1. /\ x \div PageSize \in Nat /\ x % PageSize \in 0..(PageSize - 1)
              /\ x = PageSize * (x \div PageSize) + (x % PageSize)
          BY <1>1, Division
        <5>2. QED BY <5>1, Zenon
      <4>3. ~ (q < page)
        <5>1. q < page => PageSize * q + PageSize <= page * PageSize
          BY <1>1, <4>2
        <5>2. QED BY <1>1, <2>2, <4>1, <4>2, <5>1
      <4>4. ~ (page < q)
        <5>1. page < q => page * PageSize + PageSize <= PageSize * q
          BY <1>1, <4>2
        <5>2. QED BY <1>1, <2>2, <4>1, <4>2, <5>1
      <4>5. QED BY <1>1, <4>2, <4>3, <4>4
    <3>2. QED BY <1>1, <2>1, <2>2, <3>1
  <2>5. at \div PageSize = page
    BY <1>1, <2>2
  <2>6. at + 1 \in 1..Len(image) /\ (at + 1) - 1 = at
    BY <1>1, <2>3
  <2>7. a \in Promise!Covered
    BY <1>1, <2>4, <2>5, <2>6 DEF Promise!Covered, Promise!Addresses, Addresses
  <2>8. QED BY <2>7
<1>3. QED BY <1>1, <1>2 DEF Programmed

\* A step of the bootloader changes the pages of the image on the right chip, if anything.
LEMMA PagesOnly ==
  ASSUME IInv, NEW bytes \in [1..PageSize -> Bytes], commands # <<>>,
         Head(commands).op = "write", flash' = Programmed(bytes),
         UNCHANGED <<image, chip, pc>>
  PROVE  Promise!Change
<1>1. 1 \in 1..Len(commands) /\ commands[1].op = "write"
  BY HeadCommand DEF IInv
<1>2. /\ chip = Signature /\ pc \in {"write", "failed"} /\ address = page * PageSize
      /\ page < Pages
  BY <1>1 DEF IInv, Talk, Writes
<1>3. flash' \in [Addresses -> Bytes]
  BY ProgrammedType DEF IInv
<1>4. \A a \in Addresses \ Promise!Covered : flash'[a] = flash[a]
  BY <1>2, WriteCovered DEF IInv
<1>5. State # "done" /\ State' = State
  BY <1>2 DEF State
<1>6. QED BY <1>2, <1>3, <1>4, <1>5 DEF Promise!Change, Promise!Addresses, Addresses

LEMMA PromiseStep ==
  ASSUME IInv, [Next]_vars
  PROVE  [Promise!Next]_(Promise!vars)
<1> USE DEF Promise!vars
<1>1. CASE ReadRecord \/ BadRecord \/ FileEnds
  <2>1. UNCHANGED <<chip, flash>> /\ pc = "parse" /\ pc' \in {"parse", "reset", "failed"}
    BY <1>1 DEF ReadRecord, BadRecord, FileEnds, Parsed, board, input
  <2>2. image' \in Seq(Bytes)
    BY <1>1, ParsingType DEF IInv, TypeOK
  <2>3. CASE pc' = "parse"
    BY <2>1, <2>3 DEF State
  <2>4. CASE pc' \in {"reset", "failed"}
    <3>1. State = "reading" /\ State' \in {"running", "failed"}
      BY <2>1, <2>4 DEF State
    <3>2. Promise!Read
      BY <2>1, <2>2, <2>4, <3>1 DEF Promise!Read
    <3>3. QED BY <3>2 DEF Promise!Next
  <2>5. QED BY <2>1, <2>3, <2>4
<1>2. CASE Programmer /\ ~ (ReadRecord \/ BadRecord \/ FileEnds)
  <2>1. /\ UNCHANGED <<chip, flash, image>> /\ pc \in {"reset"} \union Waiting
        /\ pc' \in Waiting \union {"failed", "done"} /\ (pc' = "done" => pc = "leave")
    BY <1>2 DEF Programmer, ResetBoard, Synced, NotSynced, Answered, TooShort, Fail, Go, Proceed,
      Waiting, board, input
  <2>2. CASE pc' \in Waiting
    BY <2>1, <2>2 DEF State, Waiting
  <2>3. CASE pc' = "failed"
    <3>1. Promise!GiveUp
      BY <2>1, <2>3 DEF Promise!GiveUp, State, Waiting
    <3>2. QED BY <3>1 DEF Promise!Next
  <2>4. CASE pc' = "done"
    <3>1. \A i \in 1..Len(image) : i <= FlashSize /\ flash[i - 1] = image[i]
      <4>1. Len(image) <= FlashSize /\ \A i \in 1..Len(image) : flash[i - 1] = image[i]
        BY <2>1, <2>4 DEF IInv, Fits, Talk, Verified
      <4>2. Len(image) \in Nat /\ FlashSize \in Nat
        BY LenProperties, FlasherAssumption DEF IInv, TypeOK
      <4>3. QED BY <4>1, <4>2
    <3>2. Promise!Succeed
      BY <2>1, <2>4, <3>1 DEF Promise!Succeed, Promise!Holds, State
    <3>3. QED BY <3>2 DEF Promise!Next
  <2>5. QED BY <2>1, <2>2, <2>3, <2>4
<1>3. CASE Handle
  <2>1. UNCHANGED <<image, chip, pc>> /\ commands # <<>>
    BY <1>3 DEF Handle, host, input
  <2>2. CASE Head(commands).op = "write"
    <3>1. flash' = Programmed(Head(commands).data)
      BY <1>3, <2>2 DEF Handle
    <3>2. Head(commands).data \in [1..PageSize -> Bytes]
      BY <2>1, <2>2, HeadCommand, CommandFields DEF IInv
    <3>3. QED BY <2>1, <2>2, <3>1, <3>2, PagesOnly DEF Promise!Next
  <2>3. CASE Head(commands).op # "write"
    BY <1>3, <2>1, <2>3 DEF Handle, State
  <2>4. QED BY <2>2, <2>3
<1>4. CASE Misprogram
  <2>1. UNCHANGED <<image, chip, pc>> /\ commands # <<>> /\ Head(commands).op = "write"
    BY <1>4 DEF Misprogram, host, input
  <2>2. PICK i \in 1..PageSize, b \in Data : flash' = Programmed([Head(commands).data EXCEPT ![i] = b])
    BY <1>4 DEF Misprogram
  <2>3. [Head(commands).data EXCEPT ![i] = b] \in [1..PageSize -> Bytes]
    <3>1. Head(commands).data \in [1..PageSize -> Bytes] /\ b \in Bytes
      BY <2>1, HeadCommand, CommandFields DEF IInv, Bytes
    <3>2. QED BY <3>1
  <2>4. QED BY <2>1, <2>2, <2>3, PagesOnly DEF Promise!Next
<1>5. CASE StartApp \/ Ignore \/ LoseByte \/ Stopped \/ UNCHANGED vars
  BY <1>5 DEF StartApp, Ignore, LoseByte, Stopped, vars, host, input, board, State
<1>6. QED BY <1>1, <1>2, <1>3, <1>4, <1>5 DEF Next

\* Flashing implements what Programming promises, step by step: with late, lost and stray answers,
\* an attempt writes only to the pages of the image and only on the right chip, and succeeds only
\* when the flash holds the image.  (That it ends is left to the run.)
THEOREM FlashingKeepsPromise == Spec => Promise!Init /\ [][Promise!Next]_(Promise!vars)
<1>1. Init => Promise!Init
  BY BytesAreNumbers DEF Init, Promise!Init, Promise!Addresses, Addresses, State
<1>2. IInv /\ [Next]_vars => [Promise!Next]_(Promise!vars)
  BY PromiseStep
<1>3. QED BY <1>1, <1>2, FlasherIInv, PTL DEF Spec

=============================================================================
