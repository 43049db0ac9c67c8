--------------------------- MODULE EventLoopProofs ---------------------------
(***************************************************************************)
(* Every step of the event loop is a step of EPoll under a client that     *)
(* EPoll allows, or leaves EPoll alone; so what is proved of EPoll in      *)
(* module EPollProofs holds of the loop with all its threads.              *)
(***************************************************************************)
EXTENDS EventLoop, EPollProofs

USE EventLoopAssumption

\* A library call of any thread is a call that EPoll allows.
LEMMA CallsImplementEPoll ==
  ASSUME NEW c \in Callers, CallStep(c) \/ CallStart(c), ~Crashed,
         frame[c] \in Frames
  PROVE  [EPollNext]_epollVars
<1> USE DEF Crashed, Lists
<1>1. CASE Add(c)
  <2>1. frame[c].h \in Handlers
    BY <1>1 DEF Add, Frames
  <2>2. QED
    BY <1>1, <2>1 DEF Add, EPollNext
<1>2. CASE PostRemove(c)
  <2>1. frame[c].h \in Handlers
    BY <1>2 DEF PostRemove, Frames
  <2>2. QED
    BY <1>2, <2>1 DEF PostRemove, EPollNext
<1>3. CASE StopWakeup(c)
  BY <1>3 DEF StopWakeup, EPollNext
<1>4. ASSUME NEW h \in Handlers, ReadyEvent(c, h) PROVE [EPollNext]_epollVars
  BY <1>4 DEF ReadyEvent, EPollNext
<1>5. CASE CreateEvent(c) \/ AssignEvent(c) \/ CloseOnce(c) \/ Join(c) \/ Stop(c)
  BY <1>5 DEF CreateEvent, AssignEvent, CloseOnce, Join, Stop
<1>6. ASSUME NEW h \in Handlers,
             New(c, h) \/ Attach(c, h) \/ Execute(c, h) \/ CloseEvent(c, h) \/ Cancel(c, h)
             \/ Drop(c, h)
      PROVE  [EPollNext]_epollVars
  BY <1>6 DEF New, Attach, Execute, CloseEvent, Cancel, Drop
<1>7. QED
  BY <1>1, <1>2, <1>3, <1>4, <1>5, <1>6 DEF CallStep, CallStart

\* So is a step of the loop thread's own Run().
LEMMA RunImplementsEPoll ==
  ASSUME RunStep \/ ModifyEvent, ~Crashed, TypeOK
  PROVE  [EPollNext]_epollVars
<1> USE DEF Crashed
<1>1. CASE CheckStop
  BY <1>1 DEF CheckStop, EPollNext, LoopStep
<1>2. CASE EndProcess
  BY <1>2 DEF EndProcess, EPollNext, LoopStep
<1>3. CASE LastWakeup
  BY <1>3 DEF LastWakeup, EPollNext
<1>4. CASE LastProcess
  BY <1>4 DEF LastProcess, EPollNext, LoopStep
<1>5. CASE CollectEvents \/ TaskClose \/ \E h \in Handlers : CloseCollected(h)
  BY <1>5 DEF CollectEvents, TaskClose, CloseCollected
<1>6. CASE Callback
  <2>1. \A h : Alive(h) \in BOOLEAN
    BY DEF Alive
  <2>2. ASSUME NEW b \in batch, TakeFd(b, Alive(events[b[1]])) PROVE EPollNext
    BY <2>1, <2>2, <1>6 DEF EPollNext, LoopStep
  <2>3. ASSUME NEW h \in Handlers, AddFinalize(h, Alive(h)) \/ ReadyFinalize(h, Alive(h))
        PROVE  EPollNext
    BY <2>1, <2>3 DEF EPollNext, LoopStep
  <2>4. QED
    BY <1>6, <2>2, <2>3 DEF Callback
<1>7. CASE Quiet
  BY <1>7 DEF Quiet, EPollNext, LoopStep
<1>8. CASE ModifyEvent
  BY <1>8 DEF ModifyEvent, EPollNext, LoopStep
<1>9. CASE EndCallback
  BY <1>9 DEF EndCallback, Release, EPollNext, LoopStep
<1>10. CASE EndTask
  BY <1>10 DEF EndTask, Release, EPollNext, LoopStep
<1>11. QED
  BY <1>1, <1>2, <1>3, <1>4, <1>5, <1>6, <1>7, <1>8, <1>9, <1>10 DEF RunStep

\* Every step of the loop maps to a step of EPoll or leaves it alone.
LEMMA StepImplementsEPoll ==
  ASSUME LoopTypeOK, [LoopNext]_vars
  PROVE  [EPollNext]_epollVars
<1>1. CASE UNCHANGED vars
  BY <1>1 DEF vars
<1>2. ASSUME NEW c \in Callers, LoopNext, CallStep(c) \/ CallStart(c)
      PROVE  [EPollNext]_epollVars
  <2>1. frame[c] \in Frames
    BY DEF LoopTypeOK
  <2>2. QED
    BY <1>2, <2>1, CallsImplementEPoll DEF LoopNext
<1>3. CASE LoopNext /\ (RunStep \/ ModifyEvent)
  BY <1>3, RunImplementsEPoll DEF LoopNext, LoopTypeOK
<1>4. ASSUME NEW f \in Fds, LoopNext, Kernel(f) PROVE [EPollNext]_epollVars
  BY <1>4 DEF Kernel, EPollNext, LoopNext, Crashed
<1>5. QED
  BY <1>1, <1>2, <1>3, <1>4 DEF LoopNext

-----------------------------------------------------------------------------
\* Every variable of the loop keeps its type, for every set of handlers, threads
\* and descriptors.
THEOREM LoopTypeCorrect == LoopSpec => []LoopTypeOK
<1> DEFINE LoopTypesOK ==
      /\ obj \in [Handlers -> {"unborn", "owned", "released", "dead"}]
      /\ evt \in [Handlers -> {"none", "created", "assigned"}]
      /\ once \in [Handlers -> {"open", "running", "done"}]
      /\ table \subseteq Handlers
      /\ internal \subseteq Internal
      /\ frame \in [Callers -> Frames]
      /\ run \in {"check", "process", "collect", "close", "woken", "last", "done"}
      /\ body \in BOOLEAN
      /\ stop \in BOOLEAN
      /\ closing \subseteq Handlers
      /\ toClose \subseteq Handlers
      /\ thrown \in {"none", "Remove", "RemoveInternal"}
      /\ posted \in Seq(Tasks)
      /\ ran \in Seq(Tasks)
<1>1. LoopInit => LoopTypeOK
  <2>1. LoopInit => TypeOK
    BY EPollTypeInductive DEF LoopInit
  <2>2. LoopInit => body \in BOOLEAN /\ stop \in BOOLEAN
    BY Zenon DEF LoopInit
  <2>3. QED
    BY <2>1, <2>2 DEF LoopInit, LoopTypeOK, Frames, Idle
<1>2. LoopTypeOK /\ [LoopNext]_vars => LoopTypesOK'
  <2> SUFFICES ASSUME LoopTypeOK, [LoopNext]_vars PROVE LoopTypesOK'
    OBVIOUS
  <2> USE DEF LoopTypeOK, Internal, Callers, Frames, Idle, SetFrame, ClearFrame,
              runVars, handlerVars, history
  <2>1. ASSUME NEW c \in Callers, NEW h \in Handlers, New(c, h) PROVE LoopTypesOK'
    BY <2>1 DEF New
  <2>2. ASSUME NEW c \in Callers, NEW h \in Handlers, Attach(c, h) PROVE LoopTypesOK'
    BY <2>2 DEF Attach
  <2>3. ASSUME NEW c \in Callers, NEW h \in Handlers, Execute(c, h) PROVE LoopTypesOK'
    BY <2>3 DEF Execute
  <2>4. ASSUME NEW c \in Callers, CreateEvent(c) PROVE LoopTypesOK'
    <3>1. frame[c].h \in Handlers
      BY <2>4 DEF CreateEvent
    <3>2. evt' \in [Handlers -> {"none", "created", "assigned"}] /\ table' \subseteq Handlers
      BY <2>4, <3>1 DEF CreateEvent
    <3>3. frame' \in [Callers -> Frames]
      BY <2>4, <3>1 DEF CreateEvent
    <3>4. QED
      BY <2>4, <3>2, <3>3 DEF CreateEvent
  <2>5. ASSUME NEW c \in Callers, AssignEvent(c) PROVE LoopTypesOK'
    BY <2>5 DEF AssignEvent
  <2>6. ASSUME NEW c \in Callers, Add(c) PROVE LoopTypesOK'
    <3>1. frame[c].h \in Handlers
      BY <2>6 DEF Add
    <3>2. posted' \in Seq(Tasks)
      <4>1. CASE frame[c].h \in Tasks
        BY <2>6, <4>1, AppendProperties DEF Add
      <4>2. CASE frame[c].h \notin Tasks
        BY <2>6, <4>2 DEF Add
      <4>3. QED
        BY <4>1, <4>2
    <3>3. QED
      BY <2>6, <3>2 DEF Add
  <2>7. ASSUME NEW c \in Callers, NEW h \in Handlers, ReadyEvent(c, h) PROVE LoopTypesOK'
    BY <2>7 DEF ReadyEvent
  <2>8. ASSUME NEW c \in Callers, NEW h \in Handlers, CloseEvent(c, h) PROVE LoopTypesOK'
    BY <2>8 DEF CloseEvent
  <2>8a. ASSUME NEW c \in Callers, NEW h \in Handlers, Cancel(c, h) PROVE LoopTypesOK'
    BY <2>8a DEF Cancel
  <2>9. ASSUME NEW c \in Callers, NEW h \in Handlers, Drop(c, h) PROVE LoopTypesOK'
    BY <2>9 DEF Drop
  <2>10. ASSUME NEW c \in Callers, CloseOnce(c) PROVE LoopTypesOK'
    <3>1. frame[c].h \in Handlers
      BY <2>10 DEF CloseOnce
    <3>2. CASE once[frame[c].h] = "open"
      <4>1. once' = [once EXCEPT ![frame[c].h] = "running"] /\ table' = table \ {frame[c].h}
        BY <2>10, <3>2 DEF CloseOnce
      <4>2. thrown' \in {"none", "Remove", "RemoveInternal"}
        BY <2>10, <3>2 DEF CloseOnce
      <4>3. frame' = [frame EXCEPT ![c] = [pc |-> "post", h |-> frame[c].h]]
        BY <2>10, <3>2 DEF CloseOnce
      <4>4. frame' \in [Callers -> Frames]
        BY <3>1, <4>3
      <4>5. QED
        BY <2>10, <3>1, <4>1, <4>2, <4>4 DEF CloseOnce
    <3>3. CASE once[frame[c].h] # "open"
      <4>1. once' = once /\ table' = table /\ thrown' = thrown
        BY <2>10, <3>3 DEF CloseOnce
      <4>2. frame' = [frame EXCEPT ![c] = [pc |-> "idle", h |-> NoHandler]]
        BY <2>10, <3>3 DEF CloseOnce
      <4>3. frame' \in [Callers -> Frames]
        BY <4>2
      <4>4. QED
        BY <2>10, <4>1, <4>3 DEF CloseOnce
    <3>4. QED
      BY <3>2, <3>3
  <2>11. ASSUME NEW c \in Callers, PostRemove(c) PROVE LoopTypesOK'
    BY <2>11 DEF PostRemove
  <2>12. ASSUME NEW c \in Callers, Stop(c) PROVE LoopTypesOK'
    <3>1. stop' \in BOOLEAN
      BY <2>12, Zenon DEF Stop
    <3>2. QED
      BY <2>12, <3>1 DEF Stop
  <2>13. ASSUME NEW c \in Callers, StopWakeup(c) PROVE LoopTypesOK'
    BY <2>13 DEF StopWakeup
  <2>14. ASSUME NEW c \in Callers, Join(c) PROVE LoopTypesOK'
    BY <2>14 DEF Join
  <2>15. CASE CheckStop
    BY <2>15 DEF CheckStop
  <2>16. CASE EndProcess
    BY <2>16 DEF EndProcess
  <2>17. CASE CollectEvents
    BY <2>17 DEF CollectEvents
  <2>18. ASSUME NEW h \in Handlers, CloseCollected(h) PROVE LoopTypesOK'
    BY <2>18 DEF CloseCollected
  <2>19. CASE LastWakeup
    BY <2>19 DEF LastWakeup
  <2>20. CASE LastProcess
    BY <2>20 DEF LastProcess
  <2>21. CASE Callback
    BY <2>21 DEF Callback
  <2>22. CASE Quiet
    BY <2>22 DEF Quiet
  <2>23. CASE ModifyEvent
    BY <2>23 DEF ModifyEvent
  <2>24. CASE EndCallback
    <3>1. body' \in BOOLEAN
      BY <2>24, Zenon DEF EndCallback, Release
    <3>2. cur \in Handlers /\ internal' = internal
      BY <2>24 DEF EndCallback, Release
    <3>3. QED
      BY <2>24, <3>1, <3>2 DEF EndCallback, Release
  <2>25. CASE TaskClose
    <3>1. body' \in BOOLEAN
      BY <2>25, Zenon DEF TaskClose
    <3>2. QED
      BY <2>25, <3>1 DEF TaskClose
  <2>26. CASE EndTask
    <3>1. body' \in BOOLEAN
      <4>1. body' = FALSE \/ body' = body
        BY <2>26, Zenon DEF EndTask, Release
      <4>2. QED
        BY <4>1, Zenon
    <3>2. cur \in Handlers
      BY <2>26 DEF EndTask
    <3>3. QED
      BY <2>26, <3>1, <3>2 DEF EndTask, Release
  <2>27. ASSUME NEW f \in Fds, Kernel(f) PROVE LoopTypesOK'
    BY <2>27 DEF Kernel
  <2>28. CASE UNCHANGED vars
    BY <2>28 DEF vars
  <2>29. QED
    BY <2>1, <2>2, <2>3, <2>4, <2>5, <2>6, <2>7, <2>8, <2>8a, <2>9, <2>10, <2>11, <2>12, <2>13, <2>14, <2>15, <2>16, <2>17, <2>18, <2>19, <2>20, <2>21, <2>22, <2>23, <2>24, <2>25, <2>26, <2>27, <2>28
    DEF LoopNext, RunStep, CallStep, CallStart
<1>3. LoopTypeOK /\ [LoopNext]_vars => LoopTypeOK'
  BY <1>2, StepImplementsEPoll, EPollTypeInductive DEF LoopTypeOK
<1>4. QED
  BY <1>1, <1>3, PTL DEF LoopSpec

\* The loop uses EPoll as EPoll allows.
THEOREM LoopImplementsEPoll == LoopSpec => ImplementsEPoll
<1>1. LoopInit => Init
  BY DEF LoopInit
<1>2. LoopTypeOK /\ [LoopNext]_vars => [EPollNext]_epollVars
  BY StepImplementsEPoll
<1>3. QED
  BY <1>1, <1>2, LoopTypeCorrect, PTL DEF LoopSpec, EPollSpec, ImplementsEPoll

\* No wakeup is lost between any number of user threads and the loop thread.
THEOREM LoopNoLostWakeup == LoopSpec => []NoLostWakeup
  BY LoopImplementsEPoll, EPollNoLostWakeup, PTL DEF ImplementsEPoll

\* HandleEvents is called only while epoll watches the descriptor for the Event.
THEOREM LoopCalledWhileRegistered == LoopSpec => []CalledWhileRegistered
  BY LoopImplementsEPoll, EPollCalledWhileRegistered, PTL DEF ImplementsEPoll
=============================================================================
