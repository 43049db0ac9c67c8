--------------------------- MODULE MCStreamBuffer ---------------------------
(***************************************************************************)
(* Instances of StreamBuffer for TLC.  Users are threads that call Write   *)
(* and Close; any of them may stand for the loop thread in a callback, and *)
(* all of them run the same code.                                          *)
(***************************************************************************)
EXTENDS StreamBuffer, TLC

UserSymmetry == Permutations(Users)
=============================================================================
