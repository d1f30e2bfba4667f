---------------------------- MODULE MCTransport ----------------------------
(***************************************************************************)
(* Instances of Transport for TLC.                                         *)
(***************************************************************************)
EXTENDS Transport

\* A scheme whose result shows which values it was made of.
Mixed(left, below) == (2 * left + below + 1) % 3

Solved ==
  LET rows[j \in Row] ==
        [c \in 0 .. Nx |->
           IF j = 0 THEN One
           ELSE IF c = 0 THEN Zero
           ELSE Mixed(rows[j - 1][c - 1], rows[j - 1][c])]
  IN rows
===========================================================================
