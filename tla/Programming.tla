----------------------------- MODULE Programming -----------------------------
(***************************************************************************)
(* What flashing promises, whatever the bootloader and the line do: only   *)
(* the pages of the image on the right chip are touched, a success means   *)
(* that the flash holds the image, and the attempt ends.                   *)
(***************************************************************************)
EXTENDS Naturals, Sequences

CONSTANTS
  Bytes,     \* values of a byte
  FlashSize, \* bytes of flash
  PageSize,  \* bytes of a page
  Avr        \* the chip the firmware is for

VARIABLES
  image,  \* the bytes to be written, from address 0; none while the file is read
  chip,   \* what is connected
  flash,  \* the contents of the chip, by address
  state   \* reading, running, done or failed

vars == <<image, chip, flash, state>>

Addresses == 0..(FlashSize - 1)

\* The addresses of the pages that the image covers.
Covered == {a \in Addresses : \E i \in 1..Len(image) : a \div PageSize = (i - 1) \div PageSize}

Holds == \A i \in 1..Len(image) : i <= FlashSize /\ flash[i - 1] = image[i]

Init == state = "reading" /\ image = <<>> /\ flash \in [Addresses -> Bytes]

\* A file that cannot be written is refused at once.
Read ==
  /\ state = "reading" /\ state' \in {"running", "failed"}
  /\ image' \in Seq(Bytes) /\ UNCHANGED <<chip, flash>>

\* A page may come out wrong, and may be written after the attempt was given up.
Change ==
  /\ state # "done" /\ chip = Avr
  /\ flash' \in [Addresses -> Bytes]
  /\ \A a \in Addresses \ Covered : flash'[a] = flash[a]
  /\ UNCHANGED <<image, chip, state>>

Succeed == state = "running" /\ Holds /\ state' = "done" /\ UNCHANGED <<image, chip, flash>>
GiveUp == state = "running" /\ state' = "failed" /\ UNCHANGED <<image, chip, flash>>

Next == Read \/ Change \/ Succeed \/ GiveUp

Ends == <>(state \in {"done", "failed"})

Spec == Init /\ [][Next]_vars /\ Ends
=============================================================================
