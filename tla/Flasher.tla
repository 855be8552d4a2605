------------------------------- MODULE Flasher -------------------------------
(***************************************************************************)
(* Reading an Intel HEX file and writing it through the bootloader         *)
(* (firmware.py): the programmer, the two directions of the serial line,   *)
(* and the bootloader as the programmer uses it.                           *)
(*                                                                         *)
(* The programmer sends a command and reads the number of bytes it expects *)
(* or, after a second, what has arrived.  Commands and answers may be      *)
(* handled late, bytes may get lost, a page may come out wrong, and the    *)
(* bootloader starts the old firmware when it hears nothing.               *)
(***************************************************************************)
EXTENDS Integers, Sequences, SequencesExt

CONSTANTS
  Data,           \* bytes that occur in files and in the flash
  Files,          \* HEX files: sequences of records
  FlashSize,      \* FLASH_SIZE
  PageSize,       \* PAGE_SIZE
  ByteBase,       \* values of a byte of an address
  Paragraph,      \* what the base of record kind 2 counts in
  Upper,          \* what the base of record kind 4 counts in
  SyncAttempts,   \* SYNC_ATTEMPTS
  MaxFaults       \* bound: bytes and commands lost, pages that come out wrong

OK == 16
InSync == 20
Filler == 255
Text == 94     \* a byte of what the firmware says when it starts
Signature == <<30, 149, 15>>
Foreign == <<30, 147, 11>>

Bytes == Data \union {OK, InSync, Filler, Text} \union ToSet(Signature) \union ToSet(Foreign)

\* Pages are whole words.
ASSUME FlasherAssumption ==
  /\ FlashSize \in Nat \ {0} /\ PageSize \in Nat \ {0} /\ PageSize % 2 = 0
  /\ ByteBase \in Nat \ {0} /\ Paragraph \in Nat /\ Upper \in Nat
  /\ SyncAttempts \in Nat \ {0} /\ MaxFaults \in Nat
  /\ Data \subseteq 0..255

\* A line of a file: one that is no record, or one that can be read.  A base has its byte.
Record == [kind : Nat, address : Nat, payload : Seq(Bytes), valid : BOOLEAN]

ASSUME FilesAssumption ==
  /\ Files \subseteq Seq(Record)
  /\ \A f \in Files : \A i \in 1..Len(f) : f[i].kind \in {2, 4} => f[i].payload # <<>>

VARIABLES
  file,      \* the HEX file
  line,      \* the record that parse_hex reads next
  base,      \* what the addresses of records are relative to
  image,     \* the bytes read so far, then those to be written
  pc,        \* parse, reset, the command whose answer the programmer waits for, done or failed
  page,      \* the page it is about, counted from 0
  attempts,  \* sync commands sent
  commands,  \* sent and not handled
  answers,   \* bytes that arrived or are on their way
  device,    \* boot: the bootloader runs; app: the firmware
  chip,      \* the signature of the chip
  address,   \* the address the bootloader was told
  flash,
  faults

host == <<pc, page, attempts>>
board == <<device, address, flash>>
text == <<file, line, base>>
input == <<text, image, chip>>
vars == <<input, host, commands, answers, board, faults>>

Addresses == 0..(FlashSize - 1)

-----------------------------------------------------------------------------
(* parse_hex.                                                               *)

\* Variant: a gap between two records is closed.
WriteNoGap(data, at, payload) == data \o payload

\* data.extend and the slice assignment: what a gap leaves is filled with 0xff.
WriteAt(data, at, payload) ==
  [i \in 1..(IF Len(data) > at + Len(payload) THEN Len(data) ELSE at + Len(payload)) |->
     IF i > at /\ i <= at + Len(payload) THEN payload[i - at]
     ELSE IF i <= Len(data) THEN data[i] ELSE Filler]

\* The base that a record of kind 2 or 4 sets.
BaseOf(record) == record.payload[1] * (IF record.kind = 2 THEN Paragraph ELSE Upper)

\* flash: an image that does not fit is refused.
Parsed == IF Len(image) <= FlashSize THEN "reset" ELSE "failed"

\* One record: data, the end, a base, or one that does not matter.
ReadRecord ==
  /\ pc = "parse" /\ line <= Len(file) /\ file[line].valid
  /\ LET record == file[line] IN
       /\ image' = IF record.kind = 0 THEN WriteAt(image, base + record.address, record.payload)
                                      ELSE image
       /\ base' = IF record.kind \in {2, 4} THEN BaseOf(record) ELSE base
       /\ pc' = IF record.kind = 1 THEN Parsed ELSE "parse"
       /\ line' = IF record.kind = 1 THEN line ELSE line + 1
  /\ UNCHANGED <<file, chip, page, attempts, commands, answers, board, faults>>

\* A line that is no record: its file is refused.
BadRecord ==
  /\ pc = "parse" /\ line <= Len(file) /\ ~ file[line].valid
  /\ pc' = "failed"
  /\ UNCHANGED <<input, page, attempts, commands, answers, board, faults>>

\* A file without an end record ends all the same.
FileEnds ==
  /\ pc = "parse" /\ line > Len(file)
  /\ pc' = Parsed
  /\ UNCHANGED <<input, page, attempts, commands, answers, board, faults>>

-----------------------------------------------------------------------------
(* The programmer's commands.                                               *)

Pages == (Len(image) + PageSize - 1) \div PageSize

\* A page of the image, the last one filled up.
PageOf(p) ==
  [i \in 1..PageSize |->
     IF p * PageSize + i <= Len(image) THEN image[p * PageSize + i] ELSE Filler]

\* load_address: a word address in two bytes.
LoadPage(p) ==
  [op |-> "load", low |-> ((p * PageSize) \div 2) % ByteBase,
   high |-> ((p * PageSize) \div 2) \div ByteBase]

Command(step, p) ==
  CASE step \in {"writeAt", "readAt"} -> LoadPage(p)
    [] step = "write" -> [op |-> step, data |-> PageOf(p)]
    [] OTHER -> [op |-> step]

\* The bytes of an answer between INSYNC and OK.
AnswerLength(step) ==
  CASE step = "sign" -> 3 [] step = "read" -> PageSize [] OTHER -> 0

Waiting == {"sync", "sign", "enter", "writeAt", "write", "readAt", "read", "leave"}

Commands ==
  [op : {"load"}, low : Nat, high : Nat] \union [op : {"write"}, data : [1..PageSize -> Bytes]]
    \union [op : {"sync", "sign", "enter", "read", "leave"}]

TypeOK ==
  /\ file \in Files /\ line \in 1..(Len(file) + 1) /\ base \in Nat /\ image \in Seq(Bytes)
  /\ pc \in {"parse", "reset", "done", "failed"} \union Waiting
  /\ page \in 0..FlashSize /\ attempts \in 0..SyncAttempts
  /\ commands \in Seq(Commands) /\ answers \in Seq(Bytes)
  /\ device \in {"boot", "app"} /\ chip \in {Signature, Foreign}
  /\ address \in Nat /\ flash \in [Addresses -> Bytes]
  /\ faults \in 0..MaxFaults

Init ==
  /\ file \in Files /\ line = 1 /\ base = 0 /\ image = <<>> /\ pc = "parse"
  /\ page = 0 /\ attempts = 0 /\ commands = <<>> /\ answers = <<>>
  /\ device = "app" /\ chip \in {Signature, Foreign} /\ address = 0
  /\ flash = [a \in Addresses |-> Filler] /\ faults = 0

Go(step, p) ==
  /\ pc' = step /\ page' = p
  /\ commands' = Append(commands, Command(step, p))

Fail == pc' = "failed" /\ UNCHANGED <<page, commands>>

\* reset and the first sync command.  Without control over the lines the firmware goes on.
ResetBoard ==
  /\ pc = "reset"
  /\ device' \in {"boot", "app"} /\ answers' = <<>>
  /\ Go("sync", 0) /\ attempts' = 1
  /\ UNCHANGED <<input, address, flash, faults>>

-----------------------------------------------------------------------------
(* Answers.  A read returns with the bytes it wants, or with fewer after a  *)
(* second.                                                                  *)

Received(n) == SubSeq(answers, 1, n)
Arrived(n) == Len(answers) >= n

Synced ==
  /\ pc = "sync" /\ Arrived(2) /\ Received(2) = <<InSync, OK>>
  /\ Go("sign", 0)
  /\ answers' = SubSeq(answers, 3, Len(answers))
  /\ UNCHANGED <<input, attempts, board, faults>>

\* Variant: the attempts are not counted out.
NotSyncedForever ==
  /\ pc = "sync" /\ ~ (Arrived(2) /\ Received(2) = <<InSync, OK>>)
  /\ answers' = <<>> /\ Go("sync", 0) /\ attempts' = attempts + 1
  /\ UNCHANGED <<input, board, faults>>

\* Anything else, and nothing: what arrived is dropped and the next attempt made.
NotSynced ==
  /\ pc = "sync" /\ ~ (Arrived(2) /\ Received(2) = <<InSync, OK>>)
  /\ answers' = <<>>
  /\ IF attempts = SyncAttempts THEN Fail /\ UNCHANGED attempts
                                ELSE Go("sync", 0) /\ attempts' = attempts + 1
  /\ UNCHANGED <<input, board, faults>>

WellFormed(n) == answers[1] = InSync /\ answers[n + 2] = OK

\* Variant: the signature is not compared.
AnyContent(payload) == pc = "read" => payload = PageOf(page)

\* What the payload of an answer must be.
Expected(payload) ==
  /\ pc = "sign" => payload = Signature
  /\ pc = "read" => payload = PageOf(page)

\* The loops over the pages, first to write, then to verify each.
Proceed ==
  CASE pc = "sign" -> Go("enter", 0)
    [] pc = "enter" -> IF Pages = 0 THEN Go("leave", 0) ELSE Go("writeAt", 0)
    [] pc = "writeAt" -> Go("write", page)
    [] pc = "write" -> IF page + 1 < Pages THEN Go("writeAt", page + 1) ELSE Go("readAt", 0)
    [] pc = "readAt" -> Go("read", page)
    [] pc = "read" -> IF page + 1 < Pages THEN Go("readAt", page + 1) ELSE Go("leave", 0)
    [] pc = "leave" -> pc' = "done" /\ UNCHANGED <<page, commands>>

\* command: the answer has its bytes.
Answered ==
  LET n == AnswerLength(pc) IN
    /\ pc \in Waiting \ {"sync"} /\ Arrived(n + 2)
    /\ IF WellFormed(n) /\ Expected(SubSeq(answers, 2, n + 1)) THEN Proceed ELSE Fail
    /\ answers' = SubSeq(answers, n + 3, Len(answers))
    /\ UNCHANGED <<input, attempts, board, faults>>

\* command: the answer is too short after a second.
TooShort ==
  /\ pc \in Waiting \ {"sync"} /\ ~ Arrived(AnswerLength(pc) + 2)
  /\ Fail /\ answers' = <<>>
  /\ UNCHANGED <<input, attempts, board, faults>>

-----------------------------------------------------------------------------
(* The bootloader.                                                          *)

Stored == [i \in 1..PageSize |->
             IF address + i - 1 \in Addresses THEN flash[address + i - 1] ELSE Filler]

Programmed(bytes) ==
  [a \in Addresses |-> IF a >= address /\ a < address + PageSize THEN bytes[a - address + 1]
                                                                 ELSE flash[a]]

Payload(op) == CASE op = "sign" -> chip [] op = "read" -> Stored [] OTHER -> <<>>

Handle ==
  /\ device = "boot" /\ commands # <<>>
  /\ LET c == Head(commands) IN
       /\ address' = IF c.op = "load" THEN 2 * (c.low + ByteBase * c.high) ELSE address
       /\ device' = IF c.op = "leave" THEN "app" ELSE "boot"
       /\ answers' = answers \o <<InSync>> \o Payload(c.op) \o <<OK>>
       /\ flash' = IF c.op = "write" THEN Programmed(c.data) ELSE flash
  /\ commands' = Tail(commands)
  /\ UNCHANGED <<input, host, faults>>

\* One byte of a page comes out wrong, on the line or in the flash.
Misprogram ==
  /\ device = "boot" /\ commands # <<>> /\ Head(commands).op = "write" /\ faults < MaxFaults
  /\ \E i \in 1..PageSize, b \in Data :
       flash' = Programmed([Head(commands).data EXCEPT ![i] = b])
  /\ answers' = answers \o <<InSync, OK>> /\ commands' = Tail(commands)
  /\ faults' = faults + 1
  /\ UNCHANGED <<input, host, device, address>>

\* A command that lost a byte, or a second without any: the watchdog starts the firmware, which
\* says so.
StartApp ==
  /\ device = "boot" /\ device' = "app"
  /\ \/ commands = <<>> /\ UNCHANGED <<commands, faults>>
     \/ commands # <<>> /\ commands' = Tail(commands) /\ faults < MaxFaults /\ faults' = faults + 1
  /\ answers' = Append(answers, Text)
  /\ UNCHANGED <<input, host, address, flash>>

\* The firmware takes the bytes of a command and answers none.
Ignore ==
  /\ device = "app" /\ commands # <<>> /\ commands' = Tail(commands)
  /\ UNCHANGED <<input, host, answers, board, faults>>

LoseByte ==
  /\ faults < MaxFaults /\ faults' = faults + 1
  /\ \E i \in 1..Len(answers) : answers' = RemoveAt(answers, i)
  /\ UNCHANGED <<input, host, commands, board>>

-----------------------------------------------------------------------------
Programmer ==
  \/ ReadRecord \/ BadRecord \/ FileEnds
  \/ ResetBoard \/ Synced \/ NotSynced \/ Answered \/ TooShort
Stopped == pc \in {"done", "failed"} /\ commands = <<>> /\ UNCHANGED vars

Next == Programmer \/ Handle \/ Misprogram \/ StartApp \/ Ignore \/ LoseByte \/ Stopped

\* A read returns after its timeout at the latest.
Spec == Init /\ [][Next]_vars /\ WF_vars(Programmer)

-----------------------------------------------------------------------------
(* Properties.                                                              *)

State == CASE pc = "parse" -> "reading" [] pc \in {"done", "failed"} -> pc [] OTHER -> "running"

Promise == INSTANCE Programming WITH
  state <- State, image <- IF pc = "parse" THEN <<>> ELSE image, Avr <- Signature

\* Flashing keeps its promise: with late, lost and stray answers, an attempt writes only to the
\* pages of the image and only on the right chip, succeeds only when the flash holds the image,
\* and ends.
KeepsPromise == Promise!Spec

\* The base of the addresses of record i.
BaseAt(i) ==
  LET bases == {j \in 1..(i - 1) : file[j].kind \in {2, 4}} IN
    IF bases = {} THEN 0 ELSE BaseOf(file[CHOOSE j \in bases : \A k \in bases : k <= j])

Start(i) == BaseAt(i) + file[i].address

\* The records before the n-th that have a byte for an address, and the byte of the last of
\* them, or 0xff.
Writers(n, a) ==
  {i \in 1..(n - 1) : file[i].kind = 0 /\ a - Start(i) \in 0..(Len(file[i].payload) - 1)}

Word(n, a) ==
  IF Writers(n, a) = {} THEN Filler
  ELSE LET i == CHOOSE i \in Writers(n, a) : \A j \in Writers(n, a) : j <= i IN
         file[i].payload[a - Start(i) + 1]

\* The first end record, or the end of the file.
EndsAt(n) ==
  /\ n <= Len(file) => file[n].kind = 1
  /\ \A i \in 1..(n - 1) : file[i].kind # 1

\* The image is what the file says, whatever the order of its records and the bases of their
\* addresses: every address has what the last record for it says, or 0xff, and no record before
\* the end is cut off (parse_hex).
ImageIsFile ==
  pc # "parse" =>
    \A n \in 1..(Len(file) + 1) :
      EndsAt(n) /\ (\A i \in 1..(n - 1) : file[i].valid) =>
        /\ \A a \in 0..(Len(image) - 1) : image[a + 1] = Word(n, a)
        /\ \A i \in 1..(n - 1) :
             file[i].kind = 0 => Start(i) + Len(file[i].payload) <= Len(image)
=============================================================================
