---------------------------- MODULE TimerHandler ----------------------------
(***************************************************************************)
(* A timer of an event loop (EventLoop::TimerHandler, lib/event_loop.cc,   *)
(* and Handle::CreateTimerHandle, lib/handle.cc): its timerfd, its         *)
(* HandleEvents on the loop thread, and Cancel on any thread, the loop     *)
(* thread in the middle of the timer's own function included.              *)
(*                                                                         *)
(* A step ends before every system call, every look at canceled_ or at the *)
(* instance, and every call of the function.  Module LoopThread runs it.   *)
(***************************************************************************)
EXTENDS Naturals, EventMask

CONSTANTS
  Cancellers,       \* threads that may call Cancel, each once
  Durations,        \* values of interval and execute_in, in nanoseconds
  Second,           \* nanoseconds in a second
  OccurrencesLimit, \* interval_occurrences_limit_ (config.cc: 10)
  MaxTicks          \* bound: no more expires while so many expirations are unread

ASSUME TimerAssumption ==
  /\ Durations \subseteq Nat
  /\ Second \in Nat \ {0} /\ OccurrencesLimit \in Nat \ {0} /\ MaxTicks \in Nat \ {0}

VARIABLES
  interval, execute_in, \* what the timer was made with
  fired,       \* the first expiration was
  ticks,       \* counter of the timerfd
  timerEdge,   \* epoll has the timerfd to report
  timerReg,    \* "added", "registered", "removed"
  timerClosed, \* Event::Close was called
  canceled,    \* canceled_
  instance,    \* the instance that func_ is bound to exists
  timerAt,     \* where HandleEvents stands
  occurrences, \* expirations it has read, then calls of func_ it still has to make
  frame,       \* where each canceller stands
  overrun      \* history: calls of func_ since a Cancel() has returned

fdVars     == <<interval, execute_in, fired, ticks, timerEdge>>
regVars    == <<timerReg, timerClosed>>
handleVars == <<timerAt, occurrences, overrun>>
cancelVars == <<canceled, frame>>
timerVars  == <<fdVars, regVars, handleVars, cancelVars, instance>>

\* Types of the timer.
TimerTypeOK ==
  /\ interval \in Durations /\ execute_in \in Durations
  /\ ticks \in Nat /\ occurrences \in Nat /\ overrun \in Nat
  /\ fired \in BOOLEAN /\ timerEdge \in BOOLEAN /\ timerClosed \in BOOLEAN
  /\ canceled \in BOOLEAN /\ instance \in BOOLEAN
  /\ timerReg \in {"added", "registered", "removed"}
  /\ timerAt \in {"idle", "enter", "read", "lock", "call"}
  /\ frame \in [Cancellers -> {"idle", "close", "done"}]

-----------------------------------------------------------------------------
(* The timerfd.                                                            *)

ToTimeSpec(tm) == [tv_sec |-> tm \div Second, tv_nsec |-> tm % Second]

Zero == ToTimeSpec(0)

\* Mutant: a zero it_value is handed to the kernel.
MutantItValue(tm) == ToTimeSpec(tm)

\* A zero it_value would disarm the timer: it starts in a nanosecond instead.
ItValue(tm) == IF ToTimeSpec(tm) = Zero THEN [Zero EXCEPT !.tv_nsec = 1] ELSE ToTimeSpec(tm)

run_once == interval = 0

\* ExecuteOnceIn, ExecuteInterval, ExecuteIntervalIn: CreateTimerHandle throws when
\* both durations are zero, and AttachInternal has posted the Event.
TimerInit ==
  /\ interval \in Durations /\ execute_in \in Durations
  /\ ~(interval = 0 /\ execute_in = 0)
  /\ fired = FALSE /\ ticks = 0 /\ timerEdge = FALSE
  /\ timerReg = "added" /\ timerClosed = FALSE
  /\ canceled = FALSE /\ instance = TRUE
  /\ timerAt = "idle" /\ occurrences = 0
  /\ frame = [c \in Cancellers |-> "idle"]
  /\ overrun = 0

\* The kernel: the first expiration if it_value is not zero, more if it_interval is not.
Expire ==
  /\ ticks < MaxTicks /\ timerReg # "removed"
  /\ ItValue(execute_in) # Zero
  /\ fired => ToTimeSpec(interval) # Zero
  /\ fired' = TRUE
  /\ ticks' = ticks + 1
  /\ timerEdge' = (timerEdge \/ timerReg = "registered")
  /\ UNCHANGED <<interval, execute_in, regVars, handleVars, cancelVars, instance>>

-----------------------------------------------------------------------------
(* HandleEvents.                                                           *)

CloseTimer == timerClosed' = TRUE

\* Mutant: canceled_ is not looked at.
MutantIgnoreCancel(events) ==
  /\ timerAt = "enter"
  /\ timerAt' = IF Has(events, Read) THEN "read" ELSE "idle"
  /\ UNCHANGED <<fdVars, regVars, occurrences, overrun, cancelVars, instance>>

\* The only look at canceled_.
TimerEnter(events) ==
  /\ timerAt = "enter"
  /\ timerAt' = IF ~canceled /\ Has(events, Read) THEN "read" ELSE "idle"
  /\ UNCHANGED <<fdVars, regVars, occurrences, overrun, cancelVars, instance>>

\* read() takes the whole counter, or fails with EAGAIN.
TimerRead ==
  /\ timerAt = "read"
  /\ timerAt' = IF ticks = 0 THEN "idle" ELSE "lock"
  /\ occurrences' = ticks
  /\ ticks' = 0
  /\ UNCHANGED <<interval, execute_in, fired, timerEdge, regVars, overrun, cancelVars, instance>>

Stacked == IF occurrences > OccurrencesLimit THEN OccurrencesLimit ELSE occurrences

TimerLock ==
  /\ timerAt = "lock"
  /\ timerAt' = IF instance THEN "call" ELSE "idle"
  /\ occurrences' = IF instance THEN Stacked ELSE 0
  /\ IF instance THEN UNCHANGED timerClosed ELSE CloseTimer
  /\ UNCHANGED <<fdVars, timerReg, overrun, cancelVars, instance>>

TimerCall ==
  /\ timerAt = "call" /\ occurrences > 0
  /\ occurrences' = occurrences - 1
  /\ overrun' = IF \E c \in Cancellers : frame[c] = "done" THEN overrun + 1 ELSE overrun
  /\ UNCHANGED <<fdVars, regVars, timerAt, cancelVars, instance>>

\* Mutant: a timer that has run is left alone.
MutantKeepOnce ==
  /\ timerAt = "call" /\ occurrences = 0
  /\ timerAt' = "idle"
  /\ UNCHANGED <<fdVars, regVars, occurrences, overrun, cancelVars, instance>>

\* A timer that runs once cancels itself.
TimerEnd ==
  /\ timerAt = "call" /\ occurrences = 0
  /\ timerAt' = "idle"
  /\ IF run_once THEN canceled' = TRUE /\ CloseTimer ELSE UNCHANGED <<canceled, timerClosed>>
  /\ UNCHANGED <<fdVars, timerReg, occurrences, overrun, frame, instance>>

TimerStep == TimerRead \/ TimerLock \/ TimerCall \/ TimerEnd

-----------------------------------------------------------------------------
(* Other threads.                                                          *)

\* Cancel: canceled_ first, then the Event.
SetCanceled(c) ==
  /\ frame[c] = "idle"
  /\ canceled' = TRUE
  /\ frame' = [frame EXCEPT ![c] = "close"]
  /\ UNCHANGED <<fdVars, regVars, handleVars, instance>>

Cancel(c) ==
  /\ frame[c] = "close"
  /\ CloseTimer
  /\ frame' = [frame EXCEPT ![c] = "done"]
  /\ UNCHANGED <<fdVars, timerReg, handleVars, canceled, instance>>

\* HandleEvents keeps the instance from line 196 on.
DropInstance ==
  /\ instance
  /\ instance' = FALSE
  /\ UNCHANGED <<fdVars, regVars, handleVars, cancelVars>>

-----------------------------------------------------------------------------
(* Properties.                                                             *)

\* Cancel does not wait for HandleEvents, which has looked at canceled_ already: the
\* function may run after Cancel() has returned, but only in that HandleEvents, and so
\* no more often than the limit, although more expirations may have stacked up
\* (event_loop.cc:172, 203, 208).
OverrunBounded == overrun <= OccurrencesLimit

\* A function that is to be executed once leaves nothing behind: when its expiration has
\* been read and HandleEvents has returned, the Event is closed, whether the function
\* ran, the instance was gone or a Cancel came in between (event_loop.cc:199, 213).
OnceCloses == run_once /\ fired /\ ticks = 0 /\ timerAt = "idle" => timerClosed
=============================================================================
