----------------------------- MODULE MCSignals -----------------------------
(***************************************************************************)
(* Instances of Signals for TLC.                                           *)
(***************************************************************************)
EXTENDS Signals

\* Two bytes that differ in both ends and in the middle.
TwoBytes == <<{0, 1, 4}, {3, 5, 7}>>
===========================================================================
