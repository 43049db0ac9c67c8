-------------------------------- MODULE EPoll --------------------------------
(***************************************************************************)
(* The event demultiplexer of libael (lib/epoll.cc, the only AsyncIO).     *)
(*                                                                         *)
(* Add, Remove and Ready may be called by any thread: they append an Event *)
(* to one of three vectors under lock_ and, when the vector was empty,     *)
(* write to an eventfd.  The thread of the event loop alone runs           *)
(* Process(): one epoll_wait, then one pass over the reported descriptors, *)
(* the eventfd among them; for the eventfd the three vectors are swapped   *)
(* out and finalized, one after the other.                                 *)
(*                                                                         *)
(* An Event and its EventHandler carry the same id (event.cc:19), so one   *)
(* element of Handlers stands for both.  Handle[h] is the descriptor of h; *)
(* two handlers with the same descriptor model the reuse of a number that  *)
(* the kernel got back.  epoll's interest list is the map `events': both   *)
(* are always changed by the same step of the loop thread.                 *)
(***************************************************************************)
EXTENDS Naturals, Sequences, FiniteSets, SequencesExt

CONSTANTS
  Handlers,   \* ids of the EventHandlers, and of their Events
  Fds,        \* descriptors of sockets and timers
  Handle,     \* the descriptor of each handler, or NoFd
  NoFd,       \* Handle(): no descriptor (handle.h:20)
  PendingFd,  \* the eventfd pending_fd_
  NoHandler,  \* a null shared_ptr
  MaxEvents   \* MAX_EVENTS (epoll.cc:27)

ASSUME EPollAssumption ==
  /\ NoFd \notin Fds
  /\ PendingFd \notin Fds
  /\ NoHandler \notin Handlers
  /\ Handle \in [Handlers -> Fds \cup {NoFd}]
  /\ MaxEvents \in Nat \ {0}

VARIABLES
  pending,  \* events_pending_add_, events_pending_remove_, events_pending_ready_
  efd,      \* the counter of the eventfd is not zero
  ready,    \* epoll's ready list: edges reported since the last epoll_wait
  events,   \* EPoll::events_, descriptor -> Event, with epoll's interest list
  stage,    \* where the loop thread stands in Process()
  batch,    \* the epoll_events that are still to be looked at, each with the
            \* Event that owned the descriptor when the kernel reported it
  turn,     \* which of the three vectors is being handled
  work,     \* elements_container_swap
  pos,      \* the element of work that is next
  cur,      \* the handler whose HandleEvents is running, or NoHandler
  fault     \* the exception that left the loop thread, or "none"

queueVars == <<pending, efd>>
loopVars  == <<stage, batch, turn, work, pos, cur>>
epollVars == <<pending, efd, ready, events, stage, batch, turn, work, pos, cur, fault>>

Lists  == {"add", "remove", "ready"}
Stages == {"idle", "wait", "next", "drain", "swap", "elements"}
Faults == {"none", "AddFinalize", "RemoveFinalize", "Modify"}

\* Mutant: removals first.
MutantRemoveFirst == <<"remove", "add", "ready">>

\* Process() handles the vectors in this order (epoll.cc:154-156).
HandleOrder == <<"add", "remove", "ready">>
Current     == HandleOrder[turn]

Registered(h) == Handle[h] # NoFd /\ events[Handle[h]] = h

\* Every variable of EPoll and of a Process() in progress keeps its type; the
\* iteration over a swapped vector starts at its first element.
TypeOK ==
  /\ pending \in [Lists -> Seq(Handlers)]
  /\ efd \in BOOLEAN
  /\ ready \subseteq Fds \cup {PendingFd}
  /\ events \in [Fds -> Handlers \cup {NoHandler}]
  /\ stage \in Stages
  /\ batch \subseteq (Fds \cup {PendingFd}) \X (Handlers \cup {NoHandler})
  /\ turn \in 1..3
  /\ work \in Seq(Handlers)
  /\ pos \in Nat \ {0}
  /\ cur \in Handlers \cup {NoHandler}
  /\ fault \in Faults

Init ==
  /\ pending = [l \in Lists |-> <<>>]
  /\ efd = FALSE
  /\ ready = {}
  /\ events = [f \in Fds |-> NoHandler]
  /\ stage = "idle"
  /\ batch = {}
  /\ turn = 1
  /\ work = <<>>
  /\ pos = 1
  /\ cur = NoHandler
  /\ fault = "none"

\* Names that start with Mutant are faulty variants of the definition after them;
\* a property that is worth checking fails when one takes its place.

-----------------------------------------------------------------------------
(* Operations that any thread may call.                                    *)

\* eventfd_write: the counter becomes positive and epoll sees an edge.
Wakeup ==
  /\ efd' = TRUE
  /\ ready' = ready \cup {PendingFd}

\* Mutants: size() == 1 tested before the push_back; the newest element first.
MutantTestBeforePush(l, h) ==
  /\ pending' = [pending EXCEPT ![l] = Append(@, h)]
  /\ IF Len(pending[l]) = 1 THEN Wakeup ELSE UNCHANGED <<efd, ready>>
  /\ UNCHANGED <<events, loopVars, fault>>

MutantPushFront(l, h) ==
  /\ pending' = [pending EXCEPT ![l] = <<h>> \o @]
  /\ IF pending[l] = <<>> THEN Wakeup ELSE UNCHANGED <<efd, ready>>
  /\ UNCHANGED <<events, loopVars, fault>>

\* One critical section of lock_, the wakeup included.
AddElement(l, h) ==
  /\ pending' = [pending EXCEPT ![l] = Append(@, h)]
  /\ IF pending[l] = <<>> THEN Wakeup ELSE UNCHANGED <<efd, ready>>
  /\ UNCHANGED <<events, loopVars, fault>>

WakeupOnly == Wakeup /\ UNCHANGED <<pending, events, loopVars, fault>>

\* The kernel finds a registered descriptor ready: an edge, at any time.
KernelReady(f) ==
  /\ events[f] # NoHandler
  /\ f \notin ready
  /\ ready' = ready \cup {f}
  /\ UNCHANGED <<queueVars, events, loopVars, fault>>

-----------------------------------------------------------------------------
(* Process(), run by the loop thread while no callback is running.         *)

EnterProcess ==
  /\ stage = "idle"
  /\ stage' = "wait"
  /\ UNCHANGED <<queueVars, ready, events, batch, turn, work, pos, cur, fault>>

Reported(f) == <<f, IF f = PendingFd THEN NoHandler ELSE events[f]>>

\* epoll_wait blocks until something is ready and returns at most MAX_EVENTS;
\* every descriptor is edge triggered, so what is returned leaves the list.
EpollWait ==
  /\ stage = "wait"
  /\ \E S \in SUBSET ready \ {{}} :
       /\ S = ready \/ Cardinality(S) = MaxEvents
       /\ Cardinality(S) <= MaxEvents
       /\ batch' = {Reported(f) : f \in S}
       /\ ready' = ready \ S
  /\ stage' = "next"
  /\ UNCHANGED <<queueVars, events, turn, work, pos, cur, fault>>

\* HandleEvents is called on the handler if its weak pointer can be locked.
Call(h, alive) == cur' = IF alive THEN h ELSE NoHandler

TakeFd(b, alive) ==
  /\ stage = "next" /\ cur = NoHandler
  /\ b \in batch /\ b[1] # PendingFd
  /\ batch' = batch \ {b}
  /\ IF events[b[1]] = NoHandler
       THEN UNCHANGED cur
       ELSE Call(events[b[1]], alive)
  /\ UNCHANGED <<queueVars, ready, events, stage, turn, work, pos, fault>>

TakePending ==
  /\ stage = "next" /\ cur = NoHandler
  /\ \E b \in batch : b[1] = PendingFd /\ batch' = batch \ {b}
  /\ stage' = "drain"
  /\ UNCHANGED <<queueVars, ready, events, turn, work, pos, cur, fault>>

\* The reads zero the counter; epoll drops the eventfd from its ready list when
\* it next looks at it and finds nothing to read.
Drain ==
  /\ stage = "drain"
  /\ efd' = FALSE
  /\ ready' = ready \ {PendingFd}
  /\ stage' = "swap"
  /\ turn' = 1
  /\ UNCHANGED <<pending, events, batch, work, pos, cur, fault>>

\* Mutants: the iteration starts one before the first element; the vector is
\* copied and not emptied.
MutantFromZero ==
  /\ stage = "swap"
  /\ work' = pending[Current]
  /\ pos' = 0
  /\ pending' = [pending EXCEPT ![Current] = <<>>]
  /\ stage' = "elements"
  /\ UNCHANGED <<efd, ready, events, batch, turn, cur, fault>>

MutantCopy ==
  /\ stage = "swap"
  /\ work' = pending[Current]
  /\ pos' = 1
  /\ stage' = "elements"
  /\ UNCHANGED <<queueVars, ready, events, batch, turn, cur, fault>>

\* HandleElements takes the whole vector under lock_ ...
Swap ==
  /\ stage = "swap"
  /\ work' = pending[Current]
  /\ pos' = 1
  /\ pending' = [pending EXCEPT ![Current] = <<>>]
  /\ stage' = "elements"
  /\ UNCHANGED <<efd, ready, events, batch, turn, cur, fault>>

\* ... and finalizes its elements in order, outside the lock.
Element(l, h) ==
  /\ stage = "elements" /\ cur = NoHandler /\ Current = l
  /\ pos <= Len(work) /\ h = work[pos]
  /\ pos' = pos + 1

AddFinalize(h, alive) ==
  /\ Element("add", h)
  /\ IF Handle[h] = NoFd
       THEN Call(h, alive) /\ UNCHANGED <<events, fault>>
       ELSE /\ events' = [events EXCEPT ![Handle[h]] = h]
            /\ fault' = IF events[Handle[h]] = NoHandler THEN fault ELSE "AddFinalize"
            /\ UNCHANGED cur
  /\ UNCHANGED <<queueVars, ready, stage, batch, turn, work>>

\* `throw "event not found"' when events_ has no entry for the descriptor.
RemoveFinalize(h) ==
  /\ Element("remove", h)
  /\ IF Handle[h] = NoFd
       THEN UNCHANGED <<events, ready, fault>>
       ELSE /\ events' = [events EXCEPT ![Handle[h]] = NoHandler]
            /\ ready' = ready \ {Handle[h]}
            /\ fault' = IF events[Handle[h]] = NoHandler THEN "RemoveFinalize" ELSE fault
  /\ UNCHANGED <<queueVars, stage, batch, turn, work, cur>>

\* Mutant: no look at events_.
MutantReadyUnchecked(h, alive) ==
  /\ Element("ready", h)
  /\ Call(h, alive)
  /\ UNCHANGED <<queueVars, ready, events, stage, batch, turn, work, fault>>

\* Ignored unless the descriptor is registered, and by the same event.
ReadyFinalize(h, alive) ==
  /\ Element("ready", h)
  /\ IF Registered(h) THEN Call(h, alive) ELSE UNCHANGED cur
  /\ UNCHANGED <<queueVars, ready, events, stage, batch, turn, work, fault>>

\* Mutants: the eventfd is emptied after the swaps; the third vector is forgotten.
MutantDrainAfter ==
  /\ stage = "elements" /\ cur = NoHandler
  /\ pos > Len(work)
  /\ work' = <<>>
  /\ pos' = 1
  /\ IF turn = Len(HandleOrder)
       THEN stage' = "next" /\ efd' = FALSE /\ ready' = ready \ {PendingFd} /\ UNCHANGED turn
       ELSE stage' = "swap" /\ turn' = turn + 1 /\ UNCHANGED <<efd, ready>>
  /\ UNCHANGED <<pending, events, batch, cur, fault>>

MutantNoReady ==
  /\ stage = "elements" /\ cur = NoHandler
  /\ pos > Len(work)
  /\ work' = <<>>
  /\ pos' = 1
  /\ IF turn = 2
       THEN stage' = "next" /\ UNCHANGED turn
       ELSE stage' = "swap" /\ turn' = turn + 1
  /\ UNCHANGED <<queueVars, ready, events, batch, cur, fault>>

EndElements ==
  /\ stage = "elements" /\ cur = NoHandler
  /\ pos > Len(work)
  /\ work' = <<>>
  /\ pos' = 1
  /\ IF turn = Len(HandleOrder)
       THEN stage' = "next" /\ UNCHANGED turn
       ELSE stage' = "swap" /\ turn' = turn + 1
  /\ UNCHANGED <<queueVars, ready, events, batch, cur, fault>>

LeaveProcess ==
  /\ stage = "next" /\ cur = NoHandler
  /\ batch = {}
  /\ stage' = "idle"
  /\ UNCHANGED <<queueVars, ready, events, batch, turn, work, pos, cur, fault>>

(* What a running callback may do to the demultiplexer besides the posts.  *)

\* epoll_ctl(EPOLL_CTL_MOD) fails for a descriptor that is not registered.
Modify(h) ==
  /\ cur = h
  /\ fault' = IF Registered(h) THEN fault ELSE "Modify"
  /\ UNCHANGED <<queueVars, ready, events, loopVars>>

Return ==
  /\ cur # NoHandler
  /\ cur' = NoHandler
  /\ UNCHANGED <<queueVars, ready, events, stage, batch, turn, work, pos, fault>>

-----------------------------------------------------------------------------
(* EPoll under its most general client: any Event may be posted to any     *)
(* vector at any time, and any weak pointer may be expired.                *)

LoopStep ==
  \/ EnterProcess \/ EpollWait \/ TakePending \/ Drain \/ Swap
  \/ EndElements \/ LeaveProcess \/ Return
  \/ \E b \in batch, alive \in BOOLEAN : TakeFd(b, alive)
  \/ \E h \in Handlers :
       \/ \E alive \in BOOLEAN : AddFinalize(h, alive) \/ ReadyFinalize(h, alive)
       \/ RemoveFinalize(h)
       \/ Modify(h)

EPollNext ==
  /\ fault = "none"
  /\ \/ LoopStep
     \/ \E l \in Lists, h \in Handlers : AddElement(l, h)
     \/ WakeupOnly
     \/ \E f \in Fds : KernelReady(f)

EPollSpec == Init /\ [][EPollNext]_epollVars
-----------------------------------------------------------------------------
(* Properties.                                                             *)

\* What has been posted to a vector and not been swapped out is announced: the
\* loop thread never blocks in epoll_wait with an element left in a vector
\* (AddElement writes to the eventfd only for the first element of a vector, and
\* Process() empties the eventfd before it swaps the vectors).
NoLostWakeup ==
  stage = "wait" /\ (\E l \in Lists : pending[l] # <<>>) => PendingFd \in ready

\* The strengthening that is inductive: a counter that is not zero has an edge
\* that is still to be seen, and a vector that is not empty has a counter that is
\* not zero or is about to be swapped in this pass.
Announced == efd => PendingFd \in ready \/ <<PendingFd, NoHandler>> \in batch
                    \/ stage = "drain"
Awaited(l) ==
  \/ stage = "swap" /\ \E i \in turn..3 : HandleOrder[i] = l
  \/ stage = "elements" /\ \E i \in (turn + 1)..3 : HandleOrder[i] = l
Covered == \A l \in Lists : pending[l] # <<>> => efd \/ Awaited(l)
BatchShape ==
  /\ \A b \in batch : b[1] = PendingFd => b = <<PendingFd, NoHandler>>
  /\ stage \in {"idle", "wait"} => batch = {}
  /\ stage \in {"drain", "swap", "elements"} => <<PendingFd, NoHandler>> \notin batch

\* The three together: the invariant that keeps Process() from losing an element.
WakeupInv == Announced /\ Covered /\ BatchShape

\* HandleEvents of a handler with a descriptor runs only while epoll watches the
\* descriptor for this very Event (epoll.cc:163-177, 275-284).
CalledWhileRegistered ==
  cur # NoHandler /\ Handle[cur] # NoFd => Registered(cur)

\* What makes it inductive: an Event is filed under its own descriptor.
FiledByHandle == \A f \in Fds : events[f] # NoHandler => Handle[events[f]] = f
=============================================================================
