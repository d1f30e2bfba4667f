----------------------------- MODULE MCNetCalc -----------------------------
(***************************************************************************)
(* Instances of NetCalc for TLC: two servers with one processor, one with  *)
(* two.  The pieces are as many as any recalculation divides evenly.       *)
(***************************************************************************)
EXTENDS NetCalc

Three == {"s1", "s2", "s3"}
TwoAlike == [s \in Server |-> IF s = "s3" THEN 2 ELSE 1]
===========================================================================
