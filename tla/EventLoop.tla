------------------------------ MODULE EventLoop ------------------------------
(***************************************************************************)
(* One event loop of libael with its threads: the life of EventHandlers    *)
(* and Events (include/event.h, lib/event.cc), the operations of EventLoop *)
(* (lib/event_loop.cc), and the loop thread's Run(), over the demultiplexer*)
(* of module EPoll.                                                        *)
(*                                                                         *)
(* Every library call is cut where it gives up a lock, so that the calls   *)
(* of user threads, of callbacks and of Run() interleave as in the code.   *)
(* An Event dies, and closes its descriptor, with the last shared_ptr to   *)
(* it: EventHeld collects the places that keep one.  HandleEvents of a     *)
(* stream or a timer is any sequence of library calls here; the handlers   *)
(* themselves have modules of their own.                                   *)
(***************************************************************************)
EXTENDS EPoll

CONSTANTS
  Streams,  \* user-owned handlers with a descriptor: StreamBuffer, StreamListener
  Timers,   \* TimerHandlers: a descriptor, and a reference in the loop
  Tasks,    \* ExecuteHandlers: no descriptor, and a reference in the loop
  Threads,  \* user threads
  Loop,     \* the loop thread
  MaxReady  \* bound: ready notifications that may be queued

Internal == Timers \cup Tasks
Callers  == Threads \cup {Loop}

ASSUME EventLoopAssumption ==
  /\ Handlers = Streams \cup Timers \cup Tasks
  /\ Streams \cap Internal = {} /\ Timers \cap Tasks = {}
  /\ \A h \in Handlers : Handle[h] = NoFd <=> h \in Tasks
  /\ Loop \notin Threads
  /\ MaxReady \in Nat

VARIABLES
  obj,       \* the handler object: not made, held by the user, only held by
             \* the library, destroyed
  evt,       \* EventHandler::event_: no Event, Event made, event_ assigned
  once,      \* Event::close_flag_
  table,     \* EventLoop::events_
  internal,  \* EventLoop::internal_event_handlers_
  frame,     \* the library call each thread is in
  run,       \* where the loop thread stands in Run(), outside Process()
  body,      \* the running callback is in user code (FALSE: after it)
  stop,      \* EventLoop::stop_
  closing,   \* events_to_close
  toClose,   \* the part of it that is still to be closed
  thrown,    \* the exception that left a call of EventLoop, or "none"
  posted,    \* history: tasks in the order in which they were posted
  ran        \* history: tasks in the order in which they were handled

handlerVars == <<obj, evt, once, table, internal, frame>>
runVars     == <<run, body, stop, closing, toClose, thrown>>
history     == <<posted, ran>>
vars        == <<epollVars, handlerVars, runVars, history>>

Idle == [pc |-> "idle", h |-> NoHandler]
Frames == [pc : {"idle", "signal", "join"}, h : {NoHandler}] \cup
          [pc : {"create", "assign", "add", "once", "post"}, h : Handlers]

\* Types of the loop, of its handlers and of the library calls in progress.
LoopTypeOK ==
  /\ TypeOK
  /\ obj \in [Handlers -> {"unborn", "owned", "released", "dead"}]
  /\ evt \in [Handlers -> {"none", "created", "assigned"}]
  /\ once \in [Handlers -> {"open", "running", "done"}]
  /\ table \subseteq Handlers
  /\ internal \subseteq Internal
  /\ frame \in [Callers -> Frames]
  /\ run \in {"check", "process", "collect", "close", "woken", "last", "done"}
  /\ body \in BOOLEAN
  /\ stop \in BOOLEAN
  /\ closing \subseteq Handlers
  /\ toClose \subseteq Handlers
  /\ thrown \in {"none", "Remove", "RemoveInternal"}
  /\ posted \in Seq(Tasks)
  /\ ran \in Seq(Tasks)

LoopInit ==
  /\ Init
  /\ obj = [h \in Handlers |-> "unborn"]
  /\ evt = [h \in Handlers |-> "none"]
  /\ once = [h \in Handlers |-> "open"]
  /\ table = {}
  /\ internal = {}
  /\ frame = [c \in Callers |-> Idle]
  /\ run = "check"
  /\ body = FALSE
  /\ stop = FALSE
  /\ closing = {}
  /\ toClose = {}
  /\ thrown = "none"
  /\ posted = <<>>
  /\ ran = <<>>

-----------------------------------------------------------------------------
(* Object lifetimes.                                                       *)

Alive(h) == obj[h] \in {"owned", "released"}

\* The destructor of a handler runs as a close call: its frame counts.
InFrame(h) == \E c \in Callers : frame[c].h = h

\* A call is using the user's own reference: not the callback of h itself, and
\* not Run(), which closes Events.
InUse(h) == \E c \in Callers :
              frame[c].h = h /\ ~(c = Loop /\ (cur = h \/ run = "close"))

\* Attach has put the Event into the table and not yet posted it.
Attaching(h) == \E c \in Callers : frame[c].h = h /\ frame[c].pc \in {"assign", "add"}

\* Mutant: the vectors keep no reference.
MutantNotHeld(h) ==
  h \in table \cup closing \/ Registered(h) \/ InFrame(h) \/ (evt[h] = "assigned" /\ Alive(h))

EventHeld(h) ==
  \/ h \in table \cup closing
  \/ h \in ToSet(work) \cup UNION {ToSet(pending[l]) : l \in Lists}
  \/ Registered(h)
  \/ InFrame(h)
  \/ evt[h] = "assigned" /\ Alive(h)

\* ~Event closes the descriptor; ~EventHandler does if there never was an Event.
Open(h) == IF evt[h] = "none" THEN Alive(h) ELSE EventHeld(h)

FdFree(f) == \A h \in Handlers : Handle[h] = f => ~Open(h)

-----------------------------------------------------------------------------
(* Library calls.  User threads make them, and so does the loop thread     *)
(* from inside a callback.                                                 *)

CanCall(c) == frame[c] = Idle /\ (c = Loop => cur # NoHandler /\ body)

SetFrame(c, pc, h) == frame' = [frame EXCEPT ![c] = [pc |-> pc, h |-> h]]
ClearFrame(c)      == frame' = [frame EXCEPT ![c] = Idle]

\* A StreamBuffer or a StreamListener is constructed on a fresh descriptor.
New(c, h) ==
  /\ CanCall(c)
  /\ h \in Streams /\ obj[h] = "unborn" /\ FdFree(Handle[h])
  /\ obj' = [obj EXCEPT ![h] = "owned"]
  /\ UNCHANGED <<epollVars, evt, once, table, internal, frame, runVars, history>>

\* Attach throws "event handler already attached" unless event_ is null.
Attach(c, h) ==
  /\ CanCall(c)
  /\ h \in Streams /\ obj[h] = "owned" /\ evt[h] = "none" /\ ~InUse(h)
  /\ SetFrame(c, "create", h)
  /\ UNCHANGED <<epollVars, obj, evt, once, table, internal, runVars, history>>

\* ExecuteOnce, ExecuteOnceIn, ExecuteInterval(In): a handler is made and
\* AttachInternal first stores a reference to it in the loop.
Execute(c, h) ==
  /\ CanCall(c)
  /\ h \in Internal /\ obj[h] = "unborn"
  /\ h \in Timers => FdFree(Handle[h])
  /\ obj' = [obj EXCEPT ![h] = "owned"]
  /\ internal' = internal \cup {h}
  /\ SetFrame(c, "create", h)
  /\ UNCHANGED <<epollVars, evt, once, table, runVars, history>>

\* CreateEvent: the Event is in the table before event_ is assigned.
CreateEvent(c) ==
  LET h == frame[c].h IN
  /\ frame[c].pc = "create"
  /\ evt' = [evt EXCEPT ![h] = "created"]
  /\ table' = table \cup {h}
  /\ SetFrame(c, "assign", h)
  /\ UNCHANGED <<epollVars, obj, once, internal, runVars, history>>

AssignEvent(c) ==
  LET h == frame[c].h IN
  /\ frame[c].pc = "assign"
  /\ evt' = [evt EXCEPT ![h] = "assigned"]
  /\ SetFrame(c, "add", h)
  /\ UNCHANGED <<epollVars, obj, once, table, internal, runVars, history>>

Add(c) ==
  LET h == frame[c].h IN
  /\ frame[c].pc = "add"
  /\ AddElement("add", h)
  /\ ClearFrame(c)
  /\ posted' = IF h \in Tasks THEN Append(posted, h) ELSE posted
  /\ UNCHANGED <<obj, evt, once, table, internal, runVars, ran>>

\* ReadyEvent, from StreamBuffer::Write and Close and from a listener: nothing
\* happens while event_ is null.
ReadyEvent(c, h) ==
  /\ CanCall(c)
  /\ h \in Streams /\ evt[h] = "assigned"
  /\ obj[h] = "owned" \/ (c = Loop /\ cur = h)
  /\ Len(pending["ready"]) < MaxReady
  /\ AddElement("ready", h)
  /\ UNCHANGED <<handlerVars, runVars, history>>

\* CloseEvent: a stream, a listener or a timer closes itself in its callback.
CloseEvent(c, h) ==
  /\ CanCall(c)
  /\ evt[h] = "assigned" /\ Alive(h)
  /\ c = Loop /\ cur = h /\ h \notin Tasks
  /\ SetFrame(c, "once", h)
  /\ UNCHANGED <<epollVars, obj, evt, once, table, internal, runVars, history>>

\* Anybody who holds a timer may cancel it, on any thread, and several may at
\* once.  Nobody holds it before Execute...In has returned, after Add.
Cancel(c, h) ==
  /\ CanCall(c)
  /\ h \in Timers /\ obj[h] = "owned" /\ evt[h] = "assigned" /\ ~Attaching(h)
  /\ SetFrame(c, "once", h)
  /\ UNCHANGED <<epollVars, obj, evt, once, table, internal, runVars, history>>

\* Mutant: the destructor of a handler does not close its Event.
MutantDropOnly(c, h) ==
  /\ CanCall(c)
  /\ obj[h] = "owned" /\ ~InUse(h)
  /\ obj' = [obj EXCEPT ![h] = IF h \in internal \/ cur = h THEN "released" ELSE "dead"]
  /\ UNCHANGED <<epollVars, evt, once, table, internal, frame, runVars, history>>

\* The user lets go of the last reference it has.  Without any other one the
\* handler is destroyed here, and its destructor closes the Event.
Drop(c, h) ==
  /\ CanCall(c)
  /\ obj[h] = "owned" /\ ~InUse(h)
  /\ IF h \in internal \/ cur = h
       THEN /\ obj' = [obj EXCEPT ![h] = "released"]
            /\ UNCHANGED frame
       ELSE /\ obj' = [obj EXCEPT ![h] = "dead"]
            /\ IF evt[h] = "assigned" THEN SetFrame(c, "once", h) ELSE UNCHANGED frame
  /\ UNCHANGED <<epollVars, evt, once, table, internal, runVars, history>>

\* Mutant: no call_once.
MutantNoOnce(c) ==
  LET h == frame[c].h IN
  /\ frame[c].pc = "once"
  /\ once' = [once EXCEPT ![h] = "running"]
  /\ table' = table \ {h}
  /\ thrown' = IF h \in table THEN thrown ELSE "Remove"
  /\ SetFrame(c, "post", h)
  /\ UNCHANGED <<epollVars, obj, evt, internal, run, body, stop, closing, toClose, history>>

\* Event::Close: call_once runs EventLoop::Remove for the first caller; later
\* callers wait until it has returned.  Remove throws with lock_ held if the
\* table has no such Event.
CloseOnce(c) ==
  LET h == frame[c].h IN
  /\ frame[c].pc = "once"
  /\ \/ /\ once[h] = "open"
        /\ once' = [once EXCEPT ![h] = "running"]
        /\ table' = table \ {h}
        /\ thrown' = IF h \in table THEN thrown ELSE "Remove"
        /\ SetFrame(c, "post", h)
     \/ /\ once[h] = "done"
        /\ ClearFrame(c)
        /\ UNCHANGED <<once, table, thrown>>
  /\ UNCHANGED <<epollVars, obj, evt, internal, run, body, stop, closing, toClose, history>>

PostRemove(c) ==
  LET h == frame[c].h IN
  /\ frame[c].pc = "post"
  /\ AddElement("remove", h)
  /\ once' = [once EXCEPT ![h] = "done"]
  /\ ClearFrame(c)
  /\ UNCHANGED <<obj, evt, table, internal, runVars, history>>

\* Stop(), from the one DestroyAll that takes the loop out of the global table:
\* stop_ is set, then the loop is woken, then joined.
Stop(c) ==
  /\ c \in Threads /\ frame[c] = Idle
  /\ ~stop
  /\ stop' = TRUE
  /\ SetFrame(c, "signal", NoHandler)
  /\ UNCHANGED <<epollVars, obj, evt, once, table, internal, run, body, closing, toClose, thrown, history>>

\* Mutant: stop_ is set and nobody is told.
MutantSilentStop(c) ==
  /\ frame[c].pc = "signal"
  /\ SetFrame(c, "join", NoHandler)
  /\ UNCHANGED <<epollVars, obj, evt, once, table, internal, runVars, history>>

StopWakeup(c) ==
  /\ frame[c].pc = "signal"
  /\ WakeupOnly
  /\ SetFrame(c, "join", NoHandler)
  /\ UNCHANGED <<obj, evt, once, table, internal, runVars, history>>

Join(c) ==
  /\ frame[c].pc = "join" /\ run = "done"
  /\ ClearFrame(c)
  /\ UNCHANGED <<epollVars, obj, evt, once, table, internal, runVars, history>>

-----------------------------------------------------------------------------
(* The loop thread.                                                        *)

LoopFree == cur = NoHandler /\ frame[Loop] = Idle

\* while (!stop_) Process();
CheckStop ==
  /\ run = "check"
  /\ IF stop
       THEN run' = "collect" /\ UNCHANGED epollVars
       ELSE run' = "process" /\ EnterProcess
  /\ UNCHANGED <<handlerVars, body, stop, closing, toClose, thrown, history>>

EndProcess ==
  /\ LoopFree
  /\ LeaveProcess
  /\ IF run = "last"
       THEN run' = "done" /\ closing' = {}
       ELSE run' = "check" /\ UNCHANGED closing
  /\ UNCHANGED <<handlerVars, body, stop, toClose, thrown, history>>

\* The table is copied under lock_; the copy keeps the Events to the end of Run.
CollectEvents ==
  /\ run = "collect"
  /\ closing' = table
  /\ toClose' = table
  /\ run' = "close"
  /\ UNCHANGED <<epollVars, handlerVars, body, stop, thrown, history>>

CloseCollected(h) ==
  /\ run = "close" /\ frame[Loop] = Idle
  /\ h \in toClose
  /\ toClose' = toClose \ {h}
  /\ SetFrame(Loop, "once", h)
  /\ UNCHANGED <<epollVars, obj, evt, once, table, internal, run, body, stop, closing, thrown, history>>

\* Everything is closed: wake up once more, then the last Process().
LastWakeup ==
  /\ run = "close" /\ frame[Loop] = Idle
  /\ toClose = {}
  /\ run' = "woken"
  /\ WakeupOnly
  /\ UNCHANGED <<handlerVars, body, stop, closing, toClose, thrown, history>>

LastProcess ==
  /\ run = "woken"
  /\ run' = "last"
  /\ EnterProcess
  /\ UNCHANGED <<handlerVars, body, stop, closing, toClose, thrown, history>>

\* The steps of Process() that can start a callback.
Callback ==
  /\ LoopFree
  /\ \/ \E b \in batch : TakeFd(b, Alive(events[b[1]]))
     \/ \E h \in Handlers : AddFinalize(h, Alive(h)) \/ ReadyFinalize(h, Alive(h))
  /\ body' = (cur' # NoHandler)
  /\ ran' = IF cur' \in Tasks THEN Append(ran, cur') ELSE ran
  /\ UNCHANGED <<handlerVars, run, stop, closing, toClose, thrown, posted>>

Quiet ==
  /\ LoopFree
  /\ \/ EpollWait \/ TakePending \/ Drain \/ Swap \/ EndElements
     \/ \E h \in Handlers : RemoveFinalize(h)
  /\ UNCHANGED <<handlerVars, runVars, history>>

\* Mutant: EventLoop::Modify does not insist on the thread of the loop.
MutantModifyAnywhere ==
  /\ \E h \in Streams :
       /\ evt[h] = "assigned" /\ Alive(h)
       /\ fault' = IF Registered(h) THEN fault ELSE "Modify"
  /\ UNCHANGED <<queueVars, ready, events, loopVars, handlerVars, runVars, history>>

\* Event::Modify, from a stream's own callback; elsewhere EventLoop::Modify throws.
ModifyEvent ==
  /\ frame[Loop] = Idle /\ body
  /\ cur \in Streams
  /\ Modify(cur)
  /\ UNCHANGED <<handlerVars, runVars, history>>

\* The lock on the weak pointer is released; if it was the last reference the
\* handler is destroyed by the loop thread.
Release(h, kept) ==
  /\ Return
  /\ body' = FALSE
  /\ IF obj[h] = "released" /\ h \notin kept
       THEN obj' = [obj EXCEPT ![h] = "dead"] /\ SetFrame(Loop, "once", h)
       ELSE UNCHANGED <<obj, frame>>
  /\ internal' = kept

EndCallback ==
  /\ frame[Loop] = Idle /\ body
  /\ cur \in Streams \cup Timers
  /\ Release(cur, internal)
  /\ UNCHANGED <<evt, once, table, run, stop, closing, toClose, thrown, history>>

\* ExecuteHandler::HandleEvents: after func_ the Event is closed, and then the
\* loop forgets the handler (RemoveInternal, which throws if it is not there).
TaskClose ==
  /\ frame[Loop] = Idle /\ body
  /\ cur \in Tasks
  /\ body' = FALSE
  /\ SetFrame(Loop, "once", cur)
  /\ UNCHANGED <<epollVars, obj, evt, once, table, internal, run, stop, closing, toClose, thrown, history>>

EndTask ==
  /\ frame[Loop] = Idle /\ ~body
  /\ cur \in Tasks
  /\ IF cur \in internal
       THEN Release(cur, internal \ {cur}) /\ UNCHANGED thrown
       ELSE thrown' = "RemoveInternal" /\ UNCHANGED <<epollVars, obj, frame, internal, body>>
  /\ UNCHANGED <<evt, once, table, run, stop, closing, toClose, history>>

-----------------------------------------------------------------------------
CallStep(c) ==
  \/ CreateEvent(c) \/ AssignEvent(c) \/ Add(c)
  \/ CloseOnce(c) \/ PostRemove(c)
  \/ StopWakeup(c) \/ Join(c)

CallStart(c) ==
  \/ Stop(c)
  \/ \E h \in Handlers :
       \/ New(c, h) \/ Attach(c, h) \/ Execute(c, h)
       \/ ReadyEvent(c, h) \/ CloseEvent(c, h) \/ Cancel(c, h) \/ Drop(c, h)

RunStep ==
  \/ CheckStop \/ EndProcess \/ CollectEvents \/ LastWakeup \/ LastProcess
  \/ \E h \in Handlers : CloseCollected(h)
  \/ Callback \/ Quiet
  \/ EndCallback \/ TaskClose \/ EndTask

Kernel(f) == run # "done" /\ KernelReady(f) /\ UNCHANGED <<handlerVars, runVars, history>>

\* An exception in the loop thread ends the process (std::terminate).
Crashed == fault # "none" \/ thrown # "none"

LoopNext ==
  /\ ~Crashed
  /\ \/ RunStep
     \/ ModifyEvent
     \/ \E c \in Callers : CallStep(c) \/ CallStart(c)
     \/ \E f \in Fds : Kernel(f)

LoopSpec == LoopInit /\ [][LoopNext]_vars
-----------------------------------------------------------------------------
(* Fairness: threads are scheduled, the callbacks of handlers return, and  *)
(* epoll's FIFO ready list reports the eventfd sooner or later even when   *)
(* more than MAX_EVENTS descriptors are ready.                             *)

ReportPending ==
  /\ LoopFree
  /\ EpollWait /\ <<PendingFd, NoHandler>> \in batch'
  /\ UNCHANGED <<handlerVars, runVars, history>>

LoopFairness ==
  /\ WF_vars(~Crashed /\ RunStep)
  /\ SF_vars(~Crashed /\ (EndCallback \/ TaskClose))
  /\ SF_vars(~Crashed /\ ReportPending)
  /\ \A c \in Callers : WF_vars(~Crashed /\ CallStep(c))

FairLoopSpec == LoopSpec /\ LoopFairness

-----------------------------------------------------------------------------
(* Properties.                                                             *)

\* The elements of a vector that are still to be finalized.
Due(l) ==
  ToSet(pending[l]) \cup
  (IF stage = "elements" /\ Current = l THEN ToSet(SubSeq(work, pos, Len(work))) ELSE {})

\* The one exception that can leave the loop is `event not found' of
\* RemoveFinalize (epoll.cc:260), and only for an Event whose own registration is
\* still on its way: an Event is never registered twice, no descriptor is added
\* while another Event still owns it, call_once keeps EventLoop::Remove and
\* RemoveInternal from missing their entries.
OnlyAttachRaceThrows ==
  Crashed =>
    /\ thrown = "none" /\ fault = "RemoveFinalize"
    /\ \E h \in Handlers :
         /\ once[h] # "open" /\ ~Registered(h)
         /\ h \in Due("add") \/ Attaching(h)

\* What a program that attaches handlers, cancels timers and lets go of streams
\* relies on while its loop runs: the loop finds every Event it is told to remove
\* (epoll.cc:259-261).
RemoveFindsEvent == ~stop => fault # "RemoveFinalize"

\* Events that epoll reported are handled by the handler they were reported
\* for: a descriptor that is closed and opened again while the report is in the
\* array does not reach its new owner.
NoStaleDelivery ==
  \A b \in batch : b[1] # PendingFd /\ events[b[1]] # NoHandler => events[b[1]] = b[2]

\* Functions given to ExecuteOnce run in the order of the calls, each once.
TasksInOrder == IsPrefix(ran, posted)

\* Every attached handler is registered, and every function is run, unless the
\* loop stops.
AttachCompletes ==
  \A h \in Handlers : h \in Due("add") ~> h \notin Due("add") \/ run = "done" \/ Crashed

\* ReadyEvent is not lost: the handler runs after it, if it still is registered
\* (StreamBuffer::Write and Close depend on it).
NotificationArrives ==
  \A h \in Streams :
    h \in Due("ready") /\ Registered(h) ~> cur = h \/ ~Registered(h) \/ run = "done" \/ Crashed

\* A handler that nobody holds any more gives its descriptor back.
DescriptorsReturned ==
  \A h \in Handlers : obj[h] = "dead" ~> ~Open(h) \/ run = "done" \/ Crashed

\* Stop() ends the thread (the wakeup follows the flag).
StopEnds == stop ~> run = "done" \/ Crashed

-----------------------------------------------------------------------------
(* The loop implements EventLife.                                          *)

Leaving(h) ==
  \/ Registered(h) \/ cur = h \/ once[h] = "running"
  \/ h \in Due("add") \cup Due("remove")
  \/ Attaching(h)

lifeOf == [h \in Handlers |->
  CASE evt[h] = "none" -> "new"
    [] evt[h] # "none" /\ once[h] = "open" -> "attached"
    [] evt[h] # "none" /\ once[h] # "open" /\ Leaving(h) -> "closing"
    [] OTHER -> "closed"]

Life == INSTANCE EventLife WITH
  OneShot <- Tasks, Nobody <- NoHandler,
  life <- lifeOf, running <- cur, served <- ToSet(ran)

\* HandleEvents runs between Attach and the end of Close, one at a time, and once
\* for a function given to ExecuteOnce.
ImplementsLife == Life!LifeSpec

\* The calls of the loop are calls that EPoll allows: its properties hold here.
ImplementsEPoll == EPollSpec
=============================================================================
