------------------------------ MODULE MCFlasher ------------------------------
(* Flashing on a small chip: 12 bytes in pages of 4, addresses in digits to *)
(* the base 2.  The files have gaps, overlaps, both kinds of base, bytes    *)
(* that look like an answer's, a bad record, and one does not fit.          *)
EXTENDS Flasher

Rec(kind, at, payload) == [kind |-> kind, address |-> at, payload |-> payload, valid |-> TRUE]
End == Rec(1, 0, <<>>)

MCFiles == {
  <<Rec(0, 0, <<1, 2, 3, 4>>), Rec(0, 4, <<16, 20, 16>>), End>>,
  <<Rec(0, 2, <<1, 20, 16>>), Rec(2, 0, <<1>>), Rec(0, 2, <<2, 1, 2, 1>>), End, Rec(0, 0, <<3>>)>>,
  <<Rec(0, 0, <<20, 16, 20, 16, 3, 3>>), Rec(0, 1, <<1, 2>>), Rec(3, 0, <<>>), Rec(4, 0, <<1>>),
    Rec(0, 0, <<4>>)>>,
  <<Rec(0, 0, <<1>>), [Rec(0, 4, <<2>>) EXCEPT !.valid = FALSE], End>>,
  <<Rec(0, 9, <<1, 2, 3, 4>>), End>>,
  <<End>> }
=============================================================================
