---------------------------- MODULE MCPipeChain ----------------------------
(***************************************************************************)
(* Instances of PipeChain for TLC: every byte of the file is different.    *)
(***************************************************************************)
EXTENDS PipeChain

Seven == <<1, 2, 3, 4, 5, 6, 7>>
===========================================================================
