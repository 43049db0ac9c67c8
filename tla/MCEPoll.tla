------------------------------- MODULE MCEPoll -------------------------------
(***************************************************************************)
(* An instance of EPoll under its most general client, with at most        *)
(* MaxPending elements in the three vectors together: two events share a   *)
(* descriptor, one has none.                                               *)
(***************************************************************************)
EXTENDS EPoll

CONSTANTS f1, h1, h2, k1, MaxPending

MCHandle == [h \in {h1, h2, k1} |-> IF h = k1 THEN NoFd ELSE f1]

MCNext ==
  /\ EPollNext
  /\ Len(pending'["add"]) + Len(pending'["remove"]) + Len(pending'["ready"]) <= MaxPending

MCSpec == Init /\ [][MCNext]_epollVars
=============================================================================
