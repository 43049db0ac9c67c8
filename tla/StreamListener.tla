--------------------------- MODULE StreamListener ---------------------------
(***************************************************************************)
(* A listener (lib/stream_listener.cc): accept() in a loop on the loop     *)
(* thread, at most StarvationLimit times, on an edge-triggered descriptor. *)
(*                                                                         *)
(* One connection is watched: ahead says how many connections are in front *)
(* of it in the accept queue.  Module LoopThread runs HandleEvents.        *)
(***************************************************************************)
EXTENDS Naturals, EventMask

CONSTANTS
  StarvationLimit, \* listen_starvation_limit_ (config.cc: 50)
  Backlog,         \* listen_backlog_
  MaxNotes         \* bound: arrivals pause while so many ReadyEvents are queued

ASSUME ListenerAssumption ==
  StarvationLimit \in Nat \ {0} /\ Backlog \in Nat \ {0} /\ MaxNotes \in Nat \ {0}

VARIABLES
  queue,      \* connections that wait for accept()
  watched,    \* the watched connection is one of them
  ahead,      \* connections in front of it
  listenEdge, \* epoll has the listener to report
  listenReg,  \* "added", "registered", "removed"
  listening,  \* the StreamListener exists
  notes,      \* ReadyEvents of the listener that are queued
  listenAt,   \* where HandleEvents stands
  accepts,    \* i
  failed      \* std::system_error left the loop thread

acceptVars == <<queue, watched, ahead, listenEdge>>
lregVars   == <<listenReg, listening, notes>>
doVars     == <<listenAt, accepts, failed>>
listenVars == <<acceptVars, lregVars, doVars>>

\* Types of the listener; no more accepts than the limit.
ListenTypeOK ==
  /\ queue \in 0..Backlog /\ ahead \in 0..Backlog
  /\ watched => ahead < queue
  /\ watched \in BOOLEAN /\ listenEdge \in BOOLEAN
  /\ listening \in BOOLEAN /\ failed \in BOOLEAN
  /\ listenReg \in {"added", "registered", "removed"}
  /\ notes \in Nat
  /\ listenAt \in {"idle", "enter", "accept"}
  /\ accepts \in 0..StarvationLimit

\* Create and Attach have returned.
ListenInit ==
  /\ queue = 0 /\ watched = FALSE /\ ahead = 0 /\ listenEdge = FALSE
  /\ listenReg = "added" /\ listening = TRUE /\ notes = 0
  /\ listenAt = "idle" /\ accepts = 0 /\ failed = FALSE

-----------------------------------------------------------------------------
(* Connections arrive.                                                     *)

Arrive(watch) ==
  /\ queue < Backlog /\ notes < MaxNotes /\ listenReg # "removed"
  /\ queue' = queue + 1
  /\ IF watch THEN ~watched /\ watched' = TRUE /\ ahead' = queue ELSE UNCHANGED <<watched, ahead>>
  /\ listenEdge' = (listenEdge \/ listenReg = "registered")
  /\ UNCHANGED <<lregVars, doVars>>

\* The first connection leaves the queue.
Dequeue ==
  /\ queue > 0
  /\ queue' = queue - 1
  /\ watched' = (watched /\ ahead > 0)
  /\ ahead' = IF ahead > 0 THEN ahead - 1 ELSE 0
  /\ UNCHANGED listenEdge

-----------------------------------------------------------------------------
(* HandleEvents.                                                           *)

ListenEnter(events) ==
  /\ listenAt = "enter"
  /\ listenAt' = IF Has(events, Read) THEN "accept" ELSE "idle"
  /\ UNCHANGED <<acceptVars, lregVars, accepts, failed>>

\* Mutant: the loop runs once more than the limit.
MutantOneMore ==
  /\ listenAt = "accept" /\ accepts <= StarvationLimit
  /\ Dequeue
  /\ accepts' = accepts + 1
  /\ UNCHANGED <<lregVars, listenAt, failed>>

\* accept4() gives a connection, or fails for this one (ECONNABORTED and the like).
Accept ==
  /\ listenAt = "accept" /\ accepts < StarvationLimit
  /\ Dequeue
  /\ accepts' = accepts + 1
  /\ UNCHANGED <<lregVars, listenAt, failed>>

\* EMFILE, ENFILE, ENOBUFS, ENOMEM: whoever holds the descriptors.
AcceptThrow ==
  /\ listenAt = "accept" /\ accepts < StarvationLimit
  /\ queue > 0
  /\ failed' = TRUE
  /\ UNCHANGED <<acceptVars, lregVars, listenAt, accepts>>

Return == listenAt' = "idle" /\ accepts' = 0

\* EAGAIN
AcceptNone ==
  /\ listenAt = "accept" /\ accepts < StarvationLimit /\ queue = 0
  /\ Return
  /\ UNCHANGED <<acceptVars, lregVars, failed>>

\* Mutants: nothing brings the listener back after the limit; there is no limit.
MutantNoReady ==
  /\ listenAt = "accept" /\ accepts = StarvationLimit
  /\ Return
  /\ UNCHANGED <<acceptVars, lregVars, failed>>

MutantNoLimit ==
  /\ listenAt = "accept" /\ accepts = StarvationLimit
  /\ accepts' = 0
  /\ UNCHANGED <<acceptVars, lregVars, listenAt, failed>>

\* The limit is reached: ReadyEvent(Read).
AcceptLimit ==
  /\ listenAt = "accept" /\ accepts = StarvationLimit
  /\ Return
  /\ notes' = notes + 1
  /\ UNCHANGED <<acceptVars, listenReg, listening, failed>>

ListenStep == Accept \/ AcceptThrow \/ AcceptNone \/ AcceptLimit

\* The program lets go of the StreamListener.
DropListener ==
  /\ listening
  /\ listening' = FALSE
  /\ UNCHANGED <<acceptVars, listenReg, notes, doVars>>
=============================================================================
