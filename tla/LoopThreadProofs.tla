-------------------------- MODULE LoopThreadProofs --------------------------
(***************************************************************************)
(* Proofs about a timer and a listener on one loop thread, for any number  *)
(* of threads that cancel, any durations, limits and bounds.               *)
(***************************************************************************)
EXTENDS LoopThread, TLAPS

\* A HandleEvents that runs after Cancel has looked at canceled_ before.
OverrunInv ==
  /\ \A c \in Cancellers : frame[c] # "idle" => canceled
  /\ overrun > 0 => canceled
  /\ timerAt \in {"read", "lock"} => overrun = 0
  /\ timerAt = "call" => overrun + occurrences <= OccurrencesLimit
  /\ OverrunBounded

\* A timer that runs once is closed when its expiration has been served, also while
\* another report of it is looked at.
OnceInv ==
  run_once /\ fired /\ ticks = 0 /\ timerAt \in {"idle", "enter", "read"} => timerClosed

TimerInv  == TimerTypeOK /\ OverrunInv /\ OnceInv /\ TicksAnnounced
ListenInv == ListenTypeOK /\ QueueAnnounced

ThreadInv == ThreadTypeOK /\ TimerInv /\ ListenInv

-----------------------------------------------------------------------------
(* Lemmas.                                                                 *)

\* A readable descriptor is reported as readable to a handler that asks for Read.
LEMMA ReadReported == Has(Reported(GetEvents), Read)
  <1>1. GetEPollEventsFromEvents(Read) = {"EPOLLIN"}
    BY DEF GetEPollEventsFromEvents, Has, Read, Write, Close, Stream
  <1>2. 0 \in GetEventsFromEpollEvents({"EPOLLIN"} \cap {"EPOLLIN"})
    BY DEF GetEventsFromEpollEvents, Read
  <1> QED BY <1>1, <1>2 DEF Reported, GetEvents, Has, Read

\* A duration of zero is the zero of the timerfd.
LEMMA OnceZero == run_once => ToTimeSpec(interval) = Zero
  BY DEF run_once, Zero

\* What does not touch the timer keeps its part of the invariant.
LEMMA TimerKept == ASSUME TimerInv, UNCHANGED <<timerVars, batch>> PROVE TimerInv'
  BY DEF TimerInv, TimerTypeOK, OverrunInv, OverrunBounded, OnceInv, run_once, TicksAnnounced,
     timerVars, fdVars, regVars, handleVars, cancelVars

\* The same for the listener.
LEMMA ListenKept == ASSUME ListenInv, UNCHANGED <<listenVars, batch, work>> PROVE ListenInv'
  BY DEF ListenInv, ListenTypeOK, QueueAnnounced, listenVars, acceptVars, lregVars, doVars

\* At first nothing has expired or arrived.
LEMMA ThreadInitInv == ASSUME ThreadInit PROVE ThreadInv
  <1> USE TimerAssumption, ListenerAssumption 
      DEF ThreadInit, TimerInit, ListenInit
  <1>1. TimerTypeOK
    BY DEF TimerTypeOK
  <1>2. ListenTypeOK
    <2>1. queue \in 0..Backlog /\ ahead \in 0..Backlog /\ accepts \in 0..StarvationLimit
      OBVIOUS
    <2>2. watched => ahead < queue
      OBVIOUS
    <2> QED BY <2>1, <2>2 DEF ListenTypeOK
  <1>3. OverrunInv
    BY DEF OverrunInv, OverrunBounded
  <1>4. OnceInv /\ TicksAnnounced /\ QueueAnnounced
    BY DEF OnceInv, TicksAnnounced, QueueAnnounced
  <1> QED BY <1>1, <1>2, <1>3, <1>4 DEF ThreadInv, TimerInv, ListenInv, ThreadTypeOK

-----------------------------------------------------------------------------
(* One lemma per action.                                                   *)

\* epoll_wait: what had an edge is in the batch.
LEMMA EpollWaitInv ==
  ASSUME ThreadInv, EpollWait
  PROVE  ThreadInv'
  <1> USE TimerAssumption, ListenerAssumption
      DEF EpollWait, Entries, InProcess, Posted, ThreadInv, TimerInv, ListenInv,
          ThreadTypeOK, TimerTypeOK, ListenTypeOK, timerVars, fdVars, regVars, handleVars,
          cancelVars, listenVars, acceptVars, lregVars, doVars
  <1>1. (TimerTypeOK /\ ListenTypeOK)'
    OBVIOUS
  <1>2. (OverrunInv /\ OnceInv)'
    BY DEF OverrunInv, OverrunBounded, OnceInv, run_once
  <1>3. (QueueAnnounced /\ TicksAnnounced)'
    BY DEF QueueAnnounced, TicksAnnounced
  <1> QED BY <1>1, <1>2, <1>3

\* The timer is called.
LEMMA CallTimerInv ==
  ASSUME ThreadInv, CallTimer
  PROVE  ThreadInv'
  <1> USE TimerAssumption, ListenerAssumption
      DEF CallTimer, InProcess, ThreadInv, TimerInv, ListenInv, ThreadTypeOK, TimerTypeOK,
          ListenTypeOK, timerVars, fdVars, regVars, handleVars, cancelVars, listenVars,
          acceptVars, lregVars, doVars
  <1>1. (TimerTypeOK /\ ListenTypeOK)'
    OBVIOUS
  <1>2. (OverrunInv /\ OnceInv)'
    BY DEF OverrunInv, OverrunBounded, OnceInv, run_once
  <1>3. (QueueAnnounced /\ TicksAnnounced)'
    BY DEF QueueAnnounced, TicksAnnounced
  <1> QED BY <1>1, <1>2, <1>3

\* The listener is called.
LEMMA CallListenerInv ==
  ASSUME ThreadInv, CallListener
  PROVE  ThreadInv'
  <1> USE TimerAssumption, ListenerAssumption
      DEF CallListener, InProcess, ThreadInv, TimerInv, ListenInv, ThreadTypeOK,
          TimerTypeOK, ListenTypeOK, timerVars, fdVars, regVars, handleVars, cancelVars,
          listenVars, acceptVars, lregVars, doVars
  <1>1. (TimerTypeOK /\ ListenTypeOK)'
    OBVIOUS
  <1>2. (OverrunInv /\ OnceInv)'
    BY DEF OverrunInv, OverrunBounded, OnceInv, run_once
  <1>3. (QueueAnnounced /\ TicksAnnounced)'
    BY DEF QueueAnnounced, TicksAnnounced
  <1> QED BY <1>1, <1>2, <1>3

\* The eventfd: what is ready when it is added has an edge.
LEMMA TakePendingInv ==
  ASSUME ThreadInv, TakePending
  PROVE  ThreadInv'
  <1> USE TimerAssumption, ListenerAssumption
      DEF TakePending, InProcess, Finalized, ThreadInv, TimerInv, ListenInv, ThreadTypeOK,
          TimerTypeOK, ListenTypeOK, timerVars, fdVars, regVars, handleVars, cancelVars,
          listenVars, acceptVars, lregVars, doVars
  <1>1. (TimerTypeOK /\ ListenTypeOK)'
    OBVIOUS
  <1>2. (OverrunInv /\ OnceInv)'
    BY DEF OverrunInv, OverrunBounded, OnceInv, run_once
  <1>3. QueueAnnounced'
    BY DEF QueueAnnounced
  <1>4. TicksAnnounced'
    BY DEF TicksAnnounced
  <1> QED BY <1>1, <1>2, <1>3, <1>4

\* A ReadyEvent of the listener.
LEMMA CallReadyInv ==
  ASSUME ThreadInv, CallReady
  PROVE  ThreadInv'
  <1> USE ListenerAssumption
      DEF CallReady, InProcess, ThreadInv, TimerInv, ListenInv, ThreadTypeOK, ListenTypeOK,
          listenVars, acceptVars, lregVars, doVars, timerVars, handleVars
  <1>1. TimerInv'
    BY TimerKept
  <1>2. ListenTypeOK'
    OBVIOUS
  <1>3. QueueAnnounced'
    BY DEF QueueAnnounced
  <1> QED BY <1>1, <1>2, <1>3

\* canceled_ is looked at.
LEMMA TimerEnterInv ==
  ASSUME ThreadInv, TimerEnter(Reported(GetEvents)), UNCHANGED <<listenVars, batch, work>>
  PROVE  ThreadInv'
  <1> USE ReadReported, TimerAssumption
      DEF TimerEnter, ThreadInv, TimerInv, ListenInv, ThreadTypeOK, TimerTypeOK, timerVars,
          fdVars, regVars, handleVars, cancelVars, listenVars, doVars
  <1>1. ListenInv'
    BY ListenKept
  <1>2. TimerTypeOK'
    OBVIOUS
  <1>3. OverrunInv'
    BY DEF OverrunInv, OverrunBounded
  <1>4. (OnceInv /\ TicksAnnounced)'
    BY DEF OnceInv, run_once, TicksAnnounced
  <1> QED BY <1>1, <1>2, <1>3, <1>4

\* read() takes all expirations.
LEMMA TimerReadInv ==
  ASSUME ThreadInv, TimerRead, UNCHANGED <<listenVars, batch, work>>
  PROVE  ThreadInv'
  <1> USE TimerAssumption
      DEF TimerRead, ThreadInv, TimerInv, ListenInv, ThreadTypeOK, TimerTypeOK, timerVars,
          fdVars, regVars, handleVars, cancelVars, listenVars, doVars
  <1>1. ListenInv'
    BY ListenKept
  <1>2. TimerTypeOK'
    OBVIOUS
  <1>3. OverrunInv'
    BY DEF OverrunInv, OverrunBounded
  <1>4. (OnceInv /\ TicksAnnounced)'
    BY DEF OnceInv, run_once, TicksAnnounced
  <1> QED BY <1>1, <1>2, <1>3, <1>4

\* The limit is applied, or the instance is gone.
LEMMA TimerLockInv ==
  ASSUME ThreadInv, TimerLock, UNCHANGED <<listenVars, batch, work>>
  PROVE  ThreadInv'
  <1> USE TimerAssumption
      DEF TimerLock, Stacked, CloseTimer, ThreadInv, TimerInv, ListenInv, ThreadTypeOK,
          TimerTypeOK, timerVars, fdVars, regVars, handleVars, cancelVars, listenVars,
          doVars
  <1>1. ListenInv'
    BY ListenKept
  <1>2. TimerTypeOK'
    OBVIOUS
  <1>3. OverrunInv'
    BY DEF OverrunInv, OverrunBounded
  <1>4. (OnceInv /\ TicksAnnounced)'
    BY DEF OnceInv, run_once, TicksAnnounced
  <1> QED BY <1>1, <1>2, <1>3, <1>4

\* The function runs.
LEMMA TimerCallInv ==
  ASSUME ThreadInv, TimerCall, UNCHANGED <<listenVars, batch, work>>
  PROVE  ThreadInv'
  <1> USE TimerAssumption
      DEF TimerCall, ThreadInv, TimerInv, ListenInv, ThreadTypeOK, TimerTypeOK, timerVars,
          fdVars, regVars, handleVars, cancelVars, listenVars, doVars
  <1>1. ListenInv'
    BY ListenKept
  <1>2. TimerTypeOK'
    OBVIOUS
  <1>3. OverrunInv'
    BY DEF OverrunInv, OverrunBounded
  <1>4. (OnceInv /\ TicksAnnounced)'
    BY DEF OnceInv, run_once, TicksAnnounced
  <1> QED BY <1>1, <1>2, <1>3, <1>4

\* HandleEvents returns.
LEMMA TimerEndInv ==
  ASSUME ThreadInv, TimerEnd, UNCHANGED <<listenVars, batch, work>>
  PROVE  ThreadInv'
  <1> USE TimerAssumption
      DEF TimerEnd, run_once, CloseTimer, ThreadInv, TimerInv, ListenInv, ThreadTypeOK,
          TimerTypeOK, timerVars, fdVars, regVars, handleVars, cancelVars, listenVars,
          doVars
  <1>1. ListenInv'
    BY ListenKept
  <1>2. TimerTypeOK'
    OBVIOUS
  <1>3. OverrunInv'
    BY DEF OverrunInv, OverrunBounded
  <1>4. (OnceInv /\ TicksAnnounced)'
    BY DEF OnceInv, run_once, TicksAnnounced
  <1> QED BY <1>1, <1>2, <1>3, <1>4

\* The mask is looked at.
LEMMA ListenEnterInv ==
  ASSUME ThreadInv, ListenEnter(Reported(GetEvents)), UNCHANGED <<timerVars, batch, work>>
  PROVE  ThreadInv'
  <1> USE ReadReported, ListenerAssumption
      DEF ListenEnter, ThreadInv, TimerInv, ListenInv, ThreadTypeOK, ListenTypeOK,
          listenVars, acceptVars, lregVars, doVars, timerVars, handleVars
  <1>1. TimerInv'
    BY TimerKept
  <1>2. ListenTypeOK'
    OBVIOUS
  <1>3. QueueAnnounced'
    BY DEF QueueAnnounced
  <1> QED BY <1>1, <1>2, <1>3

\* accept4().
LEMMA AcceptInv ==
  ASSUME ThreadInv, Accept, UNCHANGED <<timerVars, batch, work>>
  PROVE  ThreadInv'
  <1> USE ListenerAssumption
      DEF Accept, Dequeue, ThreadInv, TimerInv, ListenInv, ThreadTypeOK, ListenTypeOK,
          listenVars, acceptVars, lregVars, doVars, timerVars, handleVars
  <1>1. TimerInv'
    BY TimerKept
  <1>2. ListenTypeOK'
    <2>1. (queue \in 0..Backlog /\ ahead \in 0..Backlog /\ accepts \in 0..StarvationLimit)'
      OBVIOUS
    <2>2. ASSUME watched' PROVE (ahead < queue)'
      <3>1. watched /\ ahead > 0
        BY <2>2
      <3> QED BY <3>1
    <2> QED BY <2>1, <2>2
  <1>3. QueueAnnounced'
    BY DEF QueueAnnounced
  <1> QED BY <1>1, <1>2, <1>3

\* accept4() throws.
LEMMA AcceptThrowInv ==
  ASSUME ThreadInv, AcceptThrow, UNCHANGED <<timerVars, batch, work>>
  PROVE  ThreadInv'
  <1> USE ListenerAssumption
      DEF AcceptThrow, ThreadInv, TimerInv, ListenInv, ThreadTypeOK, ListenTypeOK,
          listenVars, acceptVars, lregVars, doVars, timerVars, handleVars
  <1>1. TimerInv'
    BY TimerKept
  <1>2. ListenTypeOK'
    OBVIOUS
  <1>3. QueueAnnounced'
    BY DEF QueueAnnounced
  <1> QED BY <1>1, <1>2, <1>3

\* Nothing is left to accept.
LEMMA AcceptNoneInv ==
  ASSUME ThreadInv, AcceptNone, UNCHANGED <<timerVars, batch, work>>
  PROVE  ThreadInv'
  <1> USE ListenerAssumption
      DEF AcceptNone, Return, ThreadInv, TimerInv, ListenInv, ThreadTypeOK, ListenTypeOK,
          listenVars, acceptVars, lregVars, doVars, timerVars, handleVars
  <1>1. TimerInv'
    BY TimerKept
  <1>2. ListenTypeOK'
    OBVIOUS
  <1>3. QueueAnnounced'
    BY DEF QueueAnnounced
  <1> QED BY <1>1, <1>2, <1>3

\* The limit, and its ReadyEvent.
LEMMA AcceptLimitInv ==
  ASSUME ThreadInv, AcceptLimit, UNCHANGED <<timerVars, batch, work>>
  PROVE  ThreadInv'
  <1> USE ListenerAssumption
      DEF AcceptLimit, Return, ThreadInv, TimerInv, ListenInv, ThreadTypeOK, ListenTypeOK,
          listenVars, acceptVars, lregVars, doVars, timerVars, handleVars
  <1>1. TimerInv'
    BY TimerKept
  <1>2. ListenTypeOK'
    OBVIOUS
  <1>3. QueueAnnounced'
    BY DEF QueueAnnounced
  <1> QED BY <1>1, <1>2, <1>3

\* The timerfd expires, once if its interval is zero.
LEMMA ExpireInv ==
  ASSUME ThreadInv, Expire, UNCHANGED <<listenVars, batch, work>>
  PROVE  ThreadInv'
  <1> USE OnceZero, TimerAssumption
      DEF Expire, ThreadInv, TimerInv, ListenInv, ThreadTypeOK, TimerTypeOK, timerVars,
          fdVars, regVars, handleVars, cancelVars, listenVars, doVars
  <1>1. ListenInv'
    BY ListenKept
  <1>2. TimerTypeOK'
    OBVIOUS
  <1>3. OverrunInv'
    BY DEF OverrunInv, OverrunBounded
  <1>4. OnceInv'
    BY DEF OnceInv, run_once
  <1>5. TicksAnnounced'
    BY DEF TicksAnnounced
  <1> QED BY <1>1, <1>2, <1>3, <1>4, <1>5

\* The instance goes.
LEMMA DropInstanceInv ==
  ASSUME ThreadInv, DropInstance, UNCHANGED <<listenVars, batch, work>>
  PROVE  ThreadInv'
  <1> USE TimerAssumption
      DEF DropInstance, ThreadInv, TimerInv, ListenInv, ThreadTypeOK, TimerTypeOK,
          timerVars, fdVars, regVars, handleVars, cancelVars, listenVars, doVars
  <1>1. ListenInv'
    BY ListenKept
  <1>2. TimerTypeOK'
    OBVIOUS
  <1>3. OverrunInv'
    BY DEF OverrunInv, OverrunBounded
  <1>4. (OnceInv /\ TicksAnnounced)'
    BY DEF OnceInv, run_once, TicksAnnounced
  <1> QED BY <1>1, <1>2, <1>3, <1>4

\* Cancel sets canceled_.
LEMMA SetCanceledInv ==
  ASSUME ThreadInv, NEW c \in Cancellers, SetCanceled(c), UNCHANGED <<listenVars, batch, work>>
  PROVE  ThreadInv'
  <1> USE TimerAssumption
      DEF SetCanceled, ThreadInv, TimerInv, ListenInv, ThreadTypeOK, TimerTypeOK, timerVars,
          fdVars, regVars, handleVars, cancelVars, listenVars, doVars
  <1>1. ListenInv'
    BY ListenKept
  <1>2. TimerTypeOK'
    OBVIOUS
  <1>3. OverrunInv'
    BY DEF OverrunInv, OverrunBounded
  <1>4. (OnceInv /\ TicksAnnounced)'
    BY DEF OnceInv, run_once, TicksAnnounced
  <1> QED BY <1>1, <1>2, <1>3, <1>4

\* Cancel closes the Event and returns.
LEMMA CancelInv ==
  ASSUME ThreadInv, NEW c \in Cancellers, Cancel(c), UNCHANGED <<listenVars, batch, work>>
  PROVE  ThreadInv'
  <1> USE TimerAssumption
      DEF Cancel, CloseTimer, ThreadInv, TimerInv, ListenInv, ThreadTypeOK, TimerTypeOK,
          timerVars, fdVars, regVars, handleVars, cancelVars, listenVars, doVars
  <1>1. ListenInv'
    BY ListenKept
  <1>2. TimerTypeOK'
    OBVIOUS
  <1>3. OverrunInv'
    BY DEF OverrunInv, OverrunBounded
  <1>4. (OnceInv /\ TicksAnnounced)'
    BY DEF OnceInv, run_once, TicksAnnounced
  <1> QED BY <1>1, <1>2, <1>3, <1>4

\* A connection arrives.
LEMMA ArriveInv ==
  ASSUME ThreadInv, NEW w \in BOOLEAN, Arrive(w), UNCHANGED <<timerVars, batch, work>>
  PROVE  ThreadInv'
  <1> USE ListenerAssumption
      DEF Arrive, ThreadInv, TimerInv, ListenInv, ThreadTypeOK, ListenTypeOK, listenVars,
          acceptVars, lregVars, doVars, timerVars, handleVars
  <1>1. TimerInv'
    BY TimerKept
  <1>2. ListenTypeOK'
    <2>1. (queue \in 0..Backlog /\ ahead \in 0..Backlog /\ accepts \in 0..StarvationLimit)'
      OBVIOUS
    <2>2. ASSUME watched' PROVE (ahead < queue)'
      <3>1. CASE w
        BY <3>1
      <3>2. CASE ~w
        <4>1. watched /\ ahead' = ahead
          BY <2>2, <3>2
        <4> QED BY <4>1
      <3> QED BY <3>1, <3>2
    <2> QED BY <2>1, <2>2
  <1>3. QueueAnnounced'
    BY DEF QueueAnnounced
  <1> QED BY <1>1, <1>2, <1>3

\* The listener goes.
LEMMA DropListenerInv ==
  ASSUME ThreadInv, DropListener, UNCHANGED <<timerVars, batch, work>>
  PROVE  ThreadInv'
  <1> USE ListenerAssumption
      DEF DropListener, ThreadInv, TimerInv, ListenInv, ThreadTypeOK, ListenTypeOK,
          listenVars, acceptVars, lregVars, doVars, timerVars, handleVars
  <1>1. TimerInv'
    BY TimerKept
  <1>2. ListenTypeOK'
    OBVIOUS
  <1>3. QueueAnnounced'
    BY DEF QueueAnnounced
  <1> QED BY <1>1, <1>2, <1>3

-----------------------------------------------------------------------------
(* The theorems.                                                           *)

\* Every step of the thread, of those that cancel, and of the kernel keeps the invariant.
LEMMA ThreadInductive == ASSUME ThreadInv, [ThreadNext]_threadVars PROVE ThreadInv'
  <1>1. CASE UNCHANGED threadVars
    BY <1>1, TimerKept, ListenKept
    DEF ThreadInv, TimerInv, ListenInv, ThreadTypeOK, threadVars, timerVars, handleVars,
        listenVars, doVars
  <1>2. CASE ThreadStep
    BY <1>2, EpollWaitInv, CallTimerInv, CallListenerInv, TakePendingInv, CallReadyInv,
       TimerEnterInv, TimerReadInv, TimerLockInv, TimerCallInv, TimerEndInv, ListenEnterInv,
       AcceptInv, AcceptThrowInv, AcceptNoneInv, AcceptLimitInv
    DEF ThreadStep, TimerStep, ListenStep
  <1>3. CASE TimerOther(Expire \/ DropInstance \/ \E c \in Cancellers : SetCanceled(c) \/ Cancel(c))
    BY <1>3, ExpireInv, DropInstanceInv, SetCanceledInv, CancelInv DEF TimerOther
  <1>4. CASE ListenOther(DropListener \/ \E w \in BOOLEAN : Arrive(w))
    BY <1>4, ArriveInv, DropListenerInv DEF ListenOther
  <1> QED BY <1>1, <1>2, <1>3, <1>4 DEF ThreadNext

\* The invariant holds in every state of the loop thread.
THEOREM ThreadInvariant == ThreadSpec => []ThreadInv
  BY ThreadInitInv, ThreadInductive, PTL DEF ThreadSpec

\* Every variable keeps its type, no more connections are accepted in a row than the
\* limit, and one callback runs at a time.
THEOREM ThreadTypeCorrect == ThreadSpec => []ThreadTypeOK
  <1>1. ThreadInv => ThreadTypeOK BY DEF ThreadInv
  <1> QED BY <1>1, ThreadInvariant, PTL

\* After Cancel() the function runs at most as often as the limit (event_loop.cc:172).
THEOREM ThreadOverrunBounded == ThreadSpec => []OverrunBounded
  <1>1. ThreadInv => OverrunBounded BY DEF ThreadInv, TimerInv, OverrunInv
  <1> QED BY <1>1, ThreadInvariant, PTL

\* A timer that runs once closes its Event (event_loop.cc:199, 213).
THEOREM ThreadOnceCloses == ThreadSpec => []OnceCloses
  <1>1. ThreadInv => OnceCloses BY DEF ThreadInv, TimerInv, OnceInv, OnceCloses
  <1> QED BY <1>1, ThreadInvariant, PTL

\* Connections are never left in the queue without something that brings the listener
\* back (stream_listener.cc:92).
THEOREM ThreadQueueAnnounced == ThreadSpec => []QueueAnnounced
  <1>1. ThreadInv => QueueAnnounced BY DEF ThreadInv, ListenInv
  <1> QED BY <1>1, ThreadInvariant, PTL

\* Expirations are never left in the timerfd without a report of it.
THEOREM ThreadTicksAnnounced == ThreadSpec => []TicksAnnounced
  <1>1. ThreadInv => TicksAnnounced BY DEF ThreadInv, TimerInv
  <1> QED BY <1>1, ThreadInvariant, PTL
=============================================================================
