------------------------------ MODULE InOrder ------------------------------
(***************************************************************************)
(* What a program whose processes pass a file, or a turn, from hand to     *)
(* hand promises: all of it comes out, in order, and then the program ends.*)
(***************************************************************************)
EXTENDS Sequences, Naturals

CONSTANT Whole   \* the bytes of the file, the numbers to print

VARIABLES
  out,     \* what has been written
  ended    \* the program has ended

vars == <<out, ended>>

Init == out = <<>> /\ ended = FALSE

\* Some of what is left.
Write ==
  /\ ~ended
  /\ \E n \in Len(out) + 1 .. Len(Whole) : out' = SubSeq(Whole, 1, n)
  /\ UNCHANGED ended

End ==
  /\ ~ended /\ out = Whole
  /\ ended' = TRUE
  /\ UNCHANGED out

Next == Write \/ End

\* The order alone, whether or not the program comes to its end.
Safe == Init /\ [][Next]_vars

Spec == Safe /\ WF_vars(Next)
===========================================================================
