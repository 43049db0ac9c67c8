----------------------------- MODULE MCLoopTable -----------------------------
(***************************************************************************)
(* Instances of LoopTable for TLC.                                         *)
(***************************************************************************)
EXTENDS LoopTable
=============================================================================
