---------------------------- MODULE MCFilterChain ----------------------------
(***************************************************************************)
(* Instances of FilterChain for TLC.                                       *)
(***************************************************************************)
EXTENDS FilterChain
=============================================================================
