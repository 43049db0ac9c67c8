------------------------------ MODULE EventLife ------------------------------
(***************************************************************************)
(* What an event loop promises to the EventHandlers attached to it, without*)
(* any of its mechanism: one thread calls HandleEvents, one handler at a   *)
(* time, only between Attach and the end of the handler's Close; a handler *)
(* is closed once and for all; and a handler without a descriptor (a       *)
(* function given to ExecuteOnce) is called at most once.  Module EventLoop*)
(* implements it.                                                          *)
(***************************************************************************)
CONSTANTS
  Handlers,
  OneShot,  \* the handlers without a descriptor
  Nobody    \* not a handler

VARIABLES
  life,     \* "new", "attached", "closing" (Close was called), "closed"
  running,  \* the handler whose HandleEvents runs, or Nobody
  served    \* the handlers of OneShot that have been called

lifeVars == <<life, running, served>>

LifeInit ==
  /\ life = [h \in Handlers |-> "new"]
  /\ running = Nobody
  /\ served = {}

Attach(h) ==
  /\ life[h] = "new"
  /\ life' = [life EXCEPT ![h] = "attached"]
  /\ UNCHANGED <<running, served>>

Serve(h) ==
  /\ running = Nobody /\ life[h] \in {"attached", "closing"}
  /\ h \notin served
  /\ running' = h
  /\ served' = served \cup ({h} \cap OneShot)
  /\ UNCHANGED life

Return ==
  /\ running # Nobody
  /\ running' = Nobody
  /\ UNCHANGED <<life, served>>

Close(h) ==
  /\ life[h] = "attached"
  /\ life' = [life EXCEPT ![h] = "closing"]
  /\ UNCHANGED <<running, served>>

\* The end of a close never pulls a handler from under its running callback.
Forget(h) ==
  /\ life[h] = "closing" /\ running # h
  /\ life' = [life EXCEPT ![h] = "closed"]
  /\ UNCHANGED <<running, served>>

LifeNext ==
  \/ Return
  \/ \E h \in Handlers : Attach(h) \/ Serve(h) \/ Close(h) \/ Forget(h)

LifeSpec == LifeInit /\ [][LifeNext]_lifeVars
=============================================================================
