----------------------------- MODULE MCShmSems -----------------------------
(***************************************************************************)
(* Instances of ShmSems for TLC.                                           *)
(***************************************************************************)
EXTENDS ShmSems

CONSTANTS w1, w2, r1

\* Two full blocks and a part; a single part.
LongAndShort == [w \in Writers |-> IF w = w1 THEN 3 ELSE 1]
===========================================================================
