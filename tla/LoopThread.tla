----------------------------- MODULE LoopThread -----------------------------
(***************************************************************************)
(* One loop thread that serves a timer and a listener: Process() takes     *)
(* what epoll reports, the eventfd among it, and handles one entry after   *)
(* the other.                                                              *)
(*                                                                         *)
(* Of the demultiplexer only what module EPoll proves is kept: whatever is *)
(* posted is announced (EPollNoLostWakeup), and HandleEvents runs only     *)
(* while the Event is registered (EPollCalledWhileRegistered).  The race   *)
(* of run loop_race is left out: the vectors are finalized in one step.    *)
(***************************************************************************)
EXTENDS TimerHandler, StreamListener

VARIABLES
  batch, \* entries of the array that are still to be looked at
  work   \* ReadyEvents of the swapped-out vector that are still to be finalized

threadVars == <<timerVars, listenVars, batch, work>>

Entries == {"timer", "listener", "pending"}

\* Types of the whole thread; one callback runs at a time.
ThreadTypeOK ==
  /\ TimerTypeOK /\ ListenTypeOK
  /\ batch \subseteq Entries /\ work \in Nat
  /\ timerAt = "idle" \/ listenAt = "idle"

ThreadInit == TimerInit /\ ListenInit /\ batch = {} /\ work = 0

InProcess == timerAt = "idle" /\ listenAt = "idle"

\* Something was posted that the thread has not taken over.
Posted ==
  \/ notes > 0 \/ timerReg = "added" \/ listenReg = "added"
  \/ timerReg = "registered" /\ timerClosed
  \/ listenReg = "registered" /\ ~listening

EpollWait ==
  /\ InProcess /\ batch = {} /\ work = 0
  /\ batch' = {e \in Entries : \/ e = "timer" /\ timerEdge
                               \/ e = "listener" /\ listenEdge
                               \/ e = "pending" /\ Posted}
  /\ batch' # {}
  /\ timerEdge' = FALSE /\ listenEdge' = FALSE
  /\ UNCHANGED <<interval, execute_in, fired, ticks, regVars, handleVars, cancelVars, instance,
                 queue, watched, ahead, lregVars, doVars, work>>

\* What the mask of GetEvents() lets through of a readable descriptor.
Reported(wanted) ==
  GetEventsFromEpollEvents({"EPOLLIN"} \cap GetEPollEventsFromEvents(wanted))

\* Mutant: the handlers ask for the wrong event.
MutantGetEvents == Write

\* TimerHandler::GetEvents and StreamListener::GetEvents.
GetEvents == Read

\* The timer is one of the loop's internal handlers, which keep it alive.
CallTimer ==
  /\ InProcess /\ work = 0 /\ "timer" \in batch
  /\ batch' = batch \ {"timer"}
  /\ timerAt' = IF timerReg = "registered" THEN "enter" ELSE "idle"
  /\ UNCHANGED <<fdVars, regVars, occurrences, overrun, cancelVars, instance, listenVars, work>>

CallListener ==
  /\ InProcess /\ work = 0 /\ "listener" \in batch
  /\ batch' = batch \ {"listener"}
  /\ listenAt' = IF listenReg = "registered" /\ listening THEN "enter" ELSE "idle"
  /\ UNCHANGED <<timerVars, acceptVars, lregVars, accepts, failed, work>>

\* AddFinalize and RemoveFinalize; a descriptor that is ready when it is added is
\* reported.
Finalized(reg, closed) == IF closed THEN "removed" ELSE IF reg = "added" THEN "registered" ELSE reg

TakePending ==
  /\ InProcess /\ work = 0 /\ "pending" \in batch
  /\ batch' = batch \ {"pending"}
  /\ timerReg' = Finalized(timerReg, timerClosed)
  /\ listenReg' = Finalized(listenReg, ~listening)
  /\ timerEdge' = (timerReg' = "registered" /\ (timerEdge \/ (timerReg = "added" /\ ticks > 0)))
  /\ listenEdge' = (listenReg' = "registered" /\ (listenEdge \/ (listenReg = "added" /\ queue > 0)))
  /\ work' = notes
  /\ notes' = 0
  /\ UNCHANGED <<interval, execute_in, fired, ticks, timerClosed, handleVars, cancelVars, instance,
                 queue, watched, ahead, listening, doVars>>

\* ReadyFinalize
CallReady ==
  /\ InProcess /\ work > 0
  /\ work' = work - 1
  /\ listenAt' = IF listenReg = "registered" /\ listening THEN "enter" ELSE "idle"
  /\ UNCHANGED <<timerVars, acceptVars, lregVars, accepts, failed, batch>>

ThreadStep ==
  \/ EpollWait \/ CallTimer \/ CallListener \/ TakePending \/ CallReady
  \/ (TimerEnter(Reported(GetEvents)) \/ TimerStep) /\ UNCHANGED <<listenVars, batch, work>>
  \/ (ListenEnter(Reported(GetEvents)) \/ ListenStep) /\ UNCHANGED <<timerVars, batch, work>>

TimerOther(step) == step /\ UNCHANGED <<listenVars, batch, work>>
ListenOther(step) == step /\ UNCHANGED <<timerVars, batch, work>>

ThreadNext ==
  /\ ~failed
  /\ \/ ThreadStep
     \/ TimerOther(Expire \/ DropInstance \/ \E c \in Cancellers : SetCanceled(c) \/ Cancel(c))
     \/ ListenOther(DropListener \/ \E w \in BOOLEAN : Arrive(w))

ThreadSpec == ThreadInit /\ [][ThreadNext]_threadVars

\* The loop thread is scheduled and callbacks return; time passes; a thread that has
\* called Cancel goes on.
FairThreadSpec ==
  /\ ThreadSpec
  /\ WF_threadVars(~failed /\ ThreadStep)
  /\ WF_threadVars(~failed /\ TimerOther(Expire))
  /\ \A c \in Cancellers : WF_threadVars(~failed /\ TimerOther(Cancel(c)))

-----------------------------------------------------------------------------
(* Properties.                                                             *)

\* On an edge-triggered descriptor nothing is reported twice: connections that wait
\* while nobody is accepting have an edge, a place in the batch, or a ReadyEvent, also
\* after the limit was reached in the middle of the queue (stream_listener.cc:92).
QueueAnnounced ==
  queue > 0 /\ listenReg = "registered" /\ listening /\ listenAt = "idle"
    => listenEdge \/ "listener" \in batch \/ notes > 0 \/ work > 0

\* The same for expirations that were not read.
TicksAnnounced ==
  ticks > 0 /\ timerReg = "registered" /\ timerAt \in {"idle", "lock", "call"} /\ ~canceled
    => timerEdge \/ "timer" \in batch

\* A connection is accepted (or found aborted), however many more arrive, as long as
\* there are a listener and descriptors.
ConnectionsAccepted == watched ~> ~watched \/ ~listening \/ failed

\* A listener that always has connections to accept does not keep the thread from its
\* timers: the function runs again and again, one that runs once until its timer has
\* cancelled itself, unless the timer was cancelled or its instance is gone.
TimerServed == []<>(timerAt = "call" \/ canceled \/ ~instance \/ failed)
=============================================================================
