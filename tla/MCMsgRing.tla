----------------------------- MODULE MCMsgRing -----------------------------
(***************************************************************************)
(* Instances of MsgRing for TLC.                                           *)
(***************************************************************************)
EXTENDS MsgRing
===========================================================================
