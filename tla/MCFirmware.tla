----------------------------- MODULE MCFirmware -----------------------------
(* The firmware on a small instance.  A frequency has two halves of two     *)
(* values; of the two mixtures of <<0, 0>> and <<1, 1>> one is valid.       *)
EXTENDS Firmware

Freq(h, l) == [high |-> h, low |-> l]
MCValid == {Freq(0, 0), Freq(1, 1), Freq(0, 1)}
MCDefaultFreq == Freq(1, 1)
=============================================================================
