----------------------------- MODULE MCBinTree -----------------------------
(***************************************************************************)
(* Instances of BinTree for TLC.  Addresses are only compared, so that     *)
(* states which differ in the names of nodes alone are alike.              *)
(***************************************************************************)
EXTENDS BinTree, TLC

Alike == Permutations(Node)
===========================================================================
