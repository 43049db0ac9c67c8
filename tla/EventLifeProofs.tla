-------------------------- MODULE EventLifeProofs ---------------------------
(***************************************************************************)
(* The functions given to the loop run in the order of the calls; and the  *)
(* loop implements EventLife, for any number of handlers and threads.      *)
(***************************************************************************)
EXTENDS RegistrationProofs

\* Nothing of what follows changes.
Same ==
  /\ UNCHANGED <<adds, removes, events, evt, once, cur, posted, ran>>
  /\ \A g \in Handlers : (Coming(g)' <=> Coming(g)) /\ (Attaching(g)' <=> Attaching(g))

\* A call of h is at its once-flag.
Closing(h) == \E c \in Callers : frame[c].h = h /\ frame[c].pc = "once"

\* The functions that were posted and have not run are on their way, in the order of the posts.
RanFirst   == Len(ran) <= Len(posted) /\ \A i \in 1..Len(ran) : ran[i] = posted[i]
OnTheWay   ==
  /\ \A i \in (Len(ran) + 1)..Len(posted) : Holds(adds, posted[i])
  /\ \A k \in 1..Len(adds) : adds[k] \in Tasks => \E m \in (Len(ran) + 1)..Len(posted) : posted[m] = adds[k]
AsPosted   ==
  \A j, k \in 1..Len(adds) : \A m, n \in 1..Len(posted) :
    j < k /\ posted[m] = adds[j] /\ posted[n] = adds[k] => m < n
PostedOnce == Distinct(posted) /\ \A h \in Tasks : Holds(posted, h) => evt[h] = "assigned" /\ ~Coming(h)

OrderInv == RanFirst /\ OnTheWay /\ AsPosted /\ PostedOnce

-----------------------------------------------------------------------------
\* Steps that are not about an Event.
LEMMA SameKept ==
  ASSUME LoopTypeOK, UNCHANGED <<events, evt, once, cur, posted, ran>>,
         \/ EnterProcess \/ EpollWait \/ TakePending \/ Drain \/ Swap \/ EndElements \/ LeaveProcess
         \/ UNCHANGED <<pending, stage, turn, work, pos>>,
         \A d \in Callers : frame'[d].pc \in AttachSteps \/ frame[d].pc \in AttachSteps =>
                              frame'[d].pc = frame[d].pc /\ frame'[d].h = frame[d].h
  PROVE  Same
  <1>1. adds' = adds /\ removes' = removes
    BY QuietEffect DEF LoopTypeOK
  <1>2. \A g \in Handlers : (Coming(g)' <=> Coming(g)) /\ (Attaching(g)' <=> Attaching(g))
    BY DEF Coming, Attaching, AttachSteps
  <1> QED BY <1>1, <1>2 DEF Same

LEMMA SameStep ==
  ASSUME LoopTypeOK, LoopNext
  PROVE  \/ Same
         \/ \E c \in Callers : CreateEvent(c) \/ AssignEvent(c) \/ Add(c) \/ CloseOnce(c) \/ PostRemove(c)
         \/ \E c \in Callers, h \in Handlers : Attach(c, h) \/ Execute(c, h)
         \/ Callback \/ EndCallback \/ EndTask
         \/ \E h \in Handlers : RemoveFinalize(h) /\ Quiet
  <1> USE FrameTypes
  <1>1. ASSUME UNCHANGED <<events, evt, once, cur, posted, ran, frame>>,
               \/ EnterProcess \/ EpollWait \/ TakePending \/ Drain \/ Swap \/ EndElements \/ LeaveProcess
               \/ UNCHANGED <<pending, stage, turn, work, pos>>
        PROVE  Same
    BY <1>1, SameKept
  <1>2. ASSUME NEW c \in Callers, NEW p \in {"once", "signal", "join"}, NEW x, SetFrame(c, p, x),
               frame[c].pc \notin AttachSteps, UNCHANGED <<epollVars, evt, once, history>>
        PROVE  Same
    <2>1. \A d \in Callers : frame'[d].pc \in AttachSteps \/ frame[d].pc \in AttachSteps =>
                               frame'[d].pc = frame[d].pc /\ frame'[d].h = frame[d].h
      BY <1>2, SetFrameEffect DEF AttachSteps
    <2> QED BY <1>2, <2>1, SameKept DEF epollVars, history
  <1>3. CASE CheckStop \/ EndProcess \/ LastProcess
    BY <1>1, <1>3 DEF CheckStop, EndProcess, LastProcess, EnterProcess, LeaveProcess, handlerVars, history, epollVars
  <1>4. CASE CollectEvents \/ LastWakeup \/ ModifyEvent \/ \E f \in Fds : Kernel(f)
    BY <1>1, <1>4 DEF CollectEvents, LastWakeup, WakeupOnly, ModifyEvent, Modify, Kernel, KernelReady, queueVars,
                      loopVars, epollVars, handlerVars, history
  <1>5. CASE TaskClose \/ \E h \in Handlers : CloseCollected(h)
    BY <1>2, <1>5 DEF TaskClose, CloseCollected, Idle, Callers, AttachSteps
  <1>6. CASE Quiet /\ ~\E h \in Handlers : RemoveFinalize(h)
    BY <1>1, <1>6 DEF Quiet, EpollWait, TakePending, Drain, Swap, EndElements, handlerVars, history
  <1>7. ASSUME NEW c \in Callers, NEW h \in Handlers,
               New(c, h) \/ ReadyEvent(c, h) \/ CloseEvent(c, h) \/ Cancel(c, h) \/ Drop(c, h)
        PROVE  Same
    <2>1. CASE New(c, h)
      BY <1>1, <2>1 DEF New, epollVars, history
    <2>2. CASE ReadyEvent(c, h)
      <3>1. AddElement("ready", h) /\ UNCHANGED <<evt, once, frame, posted, ran>>
        BY <2>2 DEF ReadyEvent, handlerVars, history
      <3>2. adds' = adds /\ removes' = removes /\ UNCHANGED <<events, cur>>
        BY <3>1, PostEffect DEF LoopTypeOK, Lists, loopVars
      <3> QED BY <3>1, <3>2 DEF Same, Coming, Attaching
    <2>3. CASE CloseEvent(c, h) \/ Cancel(c, h)
      BY <1>2, <2>3 DEF CloseEvent, Cancel, CanCall, Idle, AttachSteps
    <2>4. CASE Drop(c, h)
      BY <1>1, <1>2, <2>4 DEF Drop, CanCall, Idle, AttachSteps, epollVars, history
    <2> QED BY <1>7, <2>1, <2>2, <2>3, <2>4
  <1>8. ASSUME NEW c \in Callers, Stop(c) \/ StopWakeup(c) \/ Join(c)
        PROVE  Same
    <2>1. CASE Stop(c)
      BY <1>2, <2>1 DEF Stop, Idle, AttachSteps
    <2>2. CASE StopWakeup(c) \/ Join(c)
      <3>1. UNCHANGED <<events, evt, once, cur, posted, ran, pending, stage, turn, work, pos>>
        BY <2>2 DEF StopWakeup, Join, WakeupOnly, loopVars, epollVars, history
      <3>2. \A d \in Callers : frame'[d].pc \in AttachSteps \/ frame[d].pc \in AttachSteps =>
                                 frame'[d].pc = frame[d].pc /\ frame'[d].h = frame[d].h
        BY <2>2, SetFrameEffect, ClearFrameEffect DEF StopWakeup, Join, AttachSteps
      <3> QED BY <3>1, <3>2, SameKept
    <2> QED BY <1>8, <2>1, <2>2
  <1> QED BY <1>3, <1>4, <1>5, <1>6, <1>7, <1>8 DEF LoopNext, RunStep, CallStep, CallStart

-----------------------------------------------------------------------------
(* The steps that are.                                                     *)

\* What they do to the vectors, the registrations and the callers.
LEMMA AttachStep ==
  ASSUME LoopTypeOK, RegInv, NEW c \in Callers, NEW h \in Handlers, Attach(c, h) \/ Execute(c, h)
  PROVE  /\ evt[h] = "none" /\ ~Coming(h)
         /\ UNCHANGED <<adds, removes, events, evt, once, cur, posted, ran>>
         /\ \A g \in Handlers : (Coming(g)' <=> Coming(g) \/ g = h) /\ (Attaching(g)' <=> Attaching(g))
  <1>1. evt[h] = "none" /\ ~Coming(h)
    <2>1. CASE Attach(c, h)
      BY <2>1, NotInUse DEF Attach, RegInv
    <2>2. CASE Execute(c, h)
      BY <2>2 DEF Execute, RegInv, TableInv, FrameInv, Coming, AttachSteps
    <2> QED BY <2>1, <2>2
  <1>2. UNCHANGED <<epollVars, evt, once, history>> /\ SetFrame(c, "create", h) /\ frame[c] = Idle
    BY DEF Attach, Execute, CanCall
  <1>3. adds' = adds /\ removes' = removes
    BY <1>2, QuietEffect DEF epollVars, LoopTypeOK
  <1>4. \A g \in Handlers : Coming(g)' <=> Coming(g) \/ g = h
    BY <1>2, ComingStarts
  <1>5. \A g \in Handlers : Attaching(g)' <=> Attaching(g)
    BY <1>2, SetFrameEffect DEF Attaching, Idle
  <1> QED BY <1>1, <1>2, <1>3, <1>4, <1>5 DEF epollVars, history

LEMMA MakeStep ==
  ASSUME LoopTypeOK, RegInv, NEW c \in Callers, CreateEvent(c) \/ AssignEvent(c)
  PROVE  \E h \in Handlers :
           /\ Coming(h) /\ Attaching(h)' /\ evt[h] # "assigned" /\ evt'[h] # "none"
           /\ (evt[h] # "none" => Attaching(h))
           /\ \A g \in Handlers : g # h => evt'[g] = evt[g] /\ (Attaching(g)' <=> Attaching(g))
           /\ UNCHANGED <<adds, removes, events, once, cur, posted, ran>>
           /\ \A g \in Handlers : Coming(g)' <=> Coming(g)
  <1>0. PICK h \in Handlers : h = frame[c].h
    BY FrameTypes DEF CreateEvent, AssignEvent, AttachSteps
  <1>1. /\ frame[c].h = h /\ UNCHANGED <<epollVars, once, history>>
        /\ \/ frame[c].pc = "create" /\ SetFrame(c, "assign", h) /\ evt' = [evt EXCEPT ![h] = "created"]
           \/ frame[c].pc = "assign" /\ SetFrame(c, "add", h) /\ evt' = [evt EXCEPT ![h] = "assigned"]
    BY <1>0 DEF CreateEvent, AssignEvent
  <1>2. Coming(h) /\ \A g \in Handlers : Coming(g)' <=> Coming(g)
    BY <1>1, ComingGoesOn DEF Coming, AttachSteps
  <1>3. \A d \in Callers : /\ d # c => frame'[d] = frame[d]
                           /\ frame'[c].pc \in {"assign", "add"} /\ frame'[c].h = h
    BY <1>1 DEF SetFrame, LoopTypeOK
  <1>4. Attaching(h)' /\ \A g \in Handlers : g # h => (Attaching(g)' <=> Attaching(g))
    BY <1>1, <1>3 DEF Attaching
  <1>5. evt[h] # "assigned" /\ evt'[h] # "none" /\ (evt[h] # "none" => Attaching(h))
    BY <1>1 DEF RegInv, FrameInv, LoopTypeOK, Attaching
  <1>6. \A g \in Handlers : g # h => evt'[g] = evt[g]
    BY <1>1 DEF LoopTypeOK
  <1>7. adds' = adds /\ removes' = removes
    BY <1>1, QuietEffect DEF epollVars, LoopTypeOK
  <1>8. UNCHANGED <<adds, removes, events, once, cur, posted, ran>>
    BY <1>1, <1>7 DEF epollVars, history
  <1> QED BY <1>2, <1>4, <1>5, <1>6, <1>8

LEMMA AddStep ==
  ASSUME LoopTypeOK, RegInv, NEW c \in Callers, Add(c)
  PROVE  \E h \in Handlers :
           /\ Coming(h) /\ Attaching(h) /\ evt[h] = "assigned" /\ ~Holds(adds, h)
           /\ adds' = Append(adds, h) /\ removes' = removes /\ UNCHANGED <<events, evt, once, cur, ran>>
           /\ posted' = IF h \in Tasks THEN Append(posted, h) ELSE posted
           /\ \A g \in Handlers : Coming(g)' <=> Coming(g) /\ g # h
           /\ \A g \in Handlers : Attaching(g)' <=> Attaching(g) /\ g # h
  <1> DEFINE h == frame[c].h
  <1>1. /\ frame[c].pc = "add" /\ AddElement("add", h) /\ ClearFrame(c) /\ UNCHANGED <<evt, once, ran>>
        /\ h \in Handlers /\ posted' = IF h \in Tasks THEN Append(posted, h) ELSE posted
    BY FrameTypes DEF Add, AttachSteps
  <1>2. Coming(h) /\ Attaching(h) /\ evt[h] = "assigned"
    BY <1>1 DEF Coming, Attaching, AttachSteps, RegInv, FrameInv
  <1>3. ~Holds(adds, h)
    BY <1>1, <1>2 DEF RegInv, PostInv
  <1>4. adds' = Append(adds, h) /\ removes' = removes /\ UNCHANGED <<events, cur>>
    BY <1>1, PostEffect DEF LoopTypeOK, Lists, loopVars
  <1>5. \A g \in Handlers : Coming(g)' <=> Coming(g) /\ g # h
    BY <1>1, ComingEnds DEF RegInv
  <1>6. \A d \in Callers : /\ frame'[d].pc = IF d = c THEN "idle" ELSE frame[d].pc
                           /\ frame'[d].h = IF d = c THEN NoHandler ELSE frame[d].h
    BY <1>1, ClearFrameEffect
  <1>7. \A d \in Callers : frame[d].h = h /\ frame[d].pc \in {"assign", "add"} => d = c
    BY <1>1 DEF RegInv, FrameInv, AttachSteps
  <1>8. \A g \in Handlers : Attaching(g)' <=> Attaching(g) /\ g # h
    BY <1>1, <1>6, <1>7 DEF Attaching
  <1> HIDE DEF h
  <1> QED BY <1>1, <1>2, <1>3, <1>4, <1>5, <1>8

LEMMA CloseStep ==
  ASSUME LoopTypeOK, RegInv, NEW c \in Callers, CloseOnce(c)
  PROVE  \E h \in Handlers :
           /\ Closing(h) /\ evt[h] # "none" /\ UNCHANGED <<adds, removes, events, evt, cur, posted, ran>>
           /\ \/ once[h] = "open" /\ once' = [once EXCEPT ![h] = "running"]
              \/ UNCHANGED once
           /\ \A g \in Handlers : (Coming(g)' <=> Coming(g)) /\ (Attaching(g)' <=> Attaching(g))
  <1> DEFINE h == frame[c].h
  <1>1. /\ frame[c].pc = "once" /\ h \in Handlers /\ UNCHANGED <<epollVars, evt, history>>
        /\ SetFrame(c, "post", h) \/ ClearFrame(c)
        /\ \/ once[h] = "open" /\ once' = [once EXCEPT ![h] = "running"]
           \/ UNCHANGED once
    BY FrameTypes DEF CloseOnce
  <1>2. Closing(h) /\ evt[h] # "none"
    BY <1>1 DEF Closing, RegInv, FrameInv
  <1>3. adds' = adds /\ removes' = removes
    BY <1>1, QuietEffect DEF epollVars, LoopTypeOK
  <1>4. \A d \in Callers : /\ d # c => frame'[d].pc = frame[d].pc /\ frame'[d].h = frame[d].h
                           /\ frame'[c].pc \notin AttachSteps
    BY <1>1, SetFrameEffect, ClearFrameEffect DEF AttachSteps
  <1>5. \A g \in Handlers : (Coming(g)' <=> Coming(g)) /\ (Attaching(g)' <=> Attaching(g))
    BY <1>1, <1>4 DEF Coming, Attaching, AttachSteps
  <1> HIDE DEF h
  <1> QED BY <1>1, <1>2, <1>3, <1>5 DEF epollVars, history

LEMMA RemoveStep ==
  ASSUME LoopTypeOK, RegInv, NEW c \in Callers, PostRemove(c)
  PROVE  \E h \in Handlers :
           /\ once[h] = "running" /\ once' = [once EXCEPT ![h] = "done"] /\ evt[h] # "none"
           /\ UNCHANGED <<adds, events, evt, cur, posted, ran>>
           /\ \A g : Holds(removes', g) <=> Holds(removes, g) \/ g = h
           /\ \A g \in Handlers : (Coming(g)' <=> Coming(g)) /\ (Attaching(g)' <=> Attaching(g))
  <1> DEFINE h == frame[c].h
  <1>1. /\ frame[c].pc = "post" /\ h \in Handlers /\ UNCHANGED <<evt, history>> /\ AddElement("remove", h)
        /\ ClearFrame(c) /\ once' = [once EXCEPT ![h] = "done"]
    BY FrameTypes DEF PostRemove
  <1>2. once[h] = "running" /\ evt[h] # "none"
    BY <1>1 DEF RegInv, FrameInv
  <1>3. adds' = adds /\ removes' = Append(removes, h) /\ UNCHANGED <<events, cur>>
    BY <1>1, PostEffect DEF LoopTypeOK, Lists, loopVars
  <1>4. \A g : Holds(removes', g) <=> Holds(removes, g) \/ g = h
    BY <1>1, <1>3, AppendHolds, VectorTypes DEF LoopTypeOK
  <1>5. \A d \in Callers : /\ d # c => frame'[d].pc = frame[d].pc /\ frame'[d].h = frame[d].h
                           /\ frame'[c].pc \notin AttachSteps
    BY <1>1, ClearFrameEffect DEF AttachSteps
  <1>6. \A g \in Handlers : (Coming(g)' <=> Coming(g)) /\ (Attaching(g)' <=> Attaching(g))
    BY <1>1, <1>5 DEF Coming, Attaching, AttachSteps
  <1> HIDE DEF h
  <1> QED BY <1>1, <1>2, <1>3, <1>4, <1>6 DEF history

\* A callback starts, for a function that is first in the vector or for a registered
\* handler; or an Event is registered.
LEMMA CallbackStep ==
  ASSUME LoopTypeOK, RegInv, FiledByHandle, Callback
  PROVE  /\ cur = NoHandler /\ UNCHANGED <<evt, once, posted>> /\ removes' = removes
         /\ \A g \in Handlers : (Coming(g)' <=> Coming(g)) /\ (Attaching(g)' <=> Attaching(g))
         /\ \/ /\ UNCHANGED <<adds, events, ran>>
               /\ cur' = NoHandler \/ (cur' \in Handlers \ Tasks /\ Registered(cur'))
            \/ \E h \in Handlers :
                 /\ adds = <<h>> \o adds' /\ adds' \in Seq(Handlers) /\ stage = "elements" /\ turn = 1
                 /\ \/ h \in Tasks /\ UNCHANGED events /\ cur' = h /\ ran' = Append(ran, h)
                    \/ /\ h \notin Tasks /\ UNCHANGED ran /\ cur' = NoHandler
                       /\ \A g \in Handlers : Registered(g)' <=> Registered(g) \/ g = h
  <1>1. /\ cur = NoHandler /\ UNCHANGED <<frame, evt, once, posted>>
        /\ ran' = IF cur' \in Tasks THEN Append(ran, cur') ELSE ran
        /\ NoHandler \notin Tasks
    BY EPollAssumption, EventLoopAssumption DEF Callback, LoopFree, handlerVars
  <1>2. \A g \in Handlers : (Coming(g)' <=> Coming(g)) /\ (Attaching(g)' <=> Attaching(g))
    BY <1>1 DEF Coming, Attaching
  <1>3. ASSUME NEW b \in batch, TakeFd(b, Alive(events[b[1]]))
        PROVE  /\ UNCHANGED <<adds, removes, events, ran>>
               /\ cur' = NoHandler \/ (cur' \in Handlers \ Tasks /\ Registered(cur'))
    <2>1. b[1] \in Fds /\ UNCHANGED <<events, pending, stage, turn, work, pos>>
      BY <1>3 DEF TakeFd, queueVars, LoopTypeOK, TypeOK
    <2>2. cur' # NoHandler => cur' = events[b[1]] /\ events[b[1]] \in Handlers
      BY <1>1, <1>3, <2>1 DEF TakeFd, Call, LoopTypeOK, TypeOK
    <2>3. cur' # NoHandler => Registered(cur') /\ cur' \notin Tasks
      BY <2>1, <2>2, EPollAssumption, EventLoopAssumption DEF Registered, FiledByHandle
    <2>4. adds' = adds /\ removes' = removes
      BY <2>1, QuietEffect DEF LoopTypeOK
    <2> QED BY <1>1, <2>1, <2>2, <2>3, <2>4
  <1>4. ASSUME NEW h \in Handlers, ReadyFinalize(h, Alive(h))
        PROVE  /\ UNCHANGED <<adds, removes, events, ran>>
               /\ cur' = NoHandler \/ (cur' \in Handlers \ Tasks /\ Registered(cur'))
    <2>1. Element("ready", h) /\ UNCHANGED <<events, pending, stage, turn, work>>
      BY <1>4 DEF ReadyFinalize, queueVars
    <2>2. \A l : Element(l, h) /\ l # "add" /\ l # "remove" => adds' = adds /\ removes' = removes
      BY <2>1, ElementEffect DEF LoopTypeOK
    <2>3. cur' = NoHandler \/ (cur' = h /\ Registered(h))
      BY <1>1, <1>4, Zenon DEF ReadyFinalize, Call
    <2>4. Registered(h) => h \notin Tasks
      BY EventLoopAssumption DEF Registered
    <2>5. adds' = adds /\ removes' = removes
      BY <2>1, <2>2
    <2>6. cur' = h /\ Registered(h) => Registered(cur')
      BY DEF Registered
    <2> QED BY <1>1, <2>1, <2>3, <2>4, <2>5, <2>6
  <1>5. ASSUME NEW h \in Handlers, AddFinalize(h, Alive(h))
        PROVE  /\ adds = <<h>> \o adds' /\ adds' \in Seq(Handlers) /\ stage = "elements" /\ turn = 1 /\ removes' = removes
               /\ \/ h \in Tasks /\ UNCHANGED events /\ cur' = h /\ ran' = Append(ran, h)
                  \/ /\ h \notin Tasks /\ UNCHANGED ran /\ cur' = NoHandler
                     /\ \A g \in Handlers : Registered(g)' <=> Registered(g) \/ g = h
    <2>1. Element("add", h) /\ UNCHANGED <<pending, stage, turn, work>> /\ stage = "elements" /\ turn = 1
      BY <1>5 DEF AddFinalize, queueVars, Element, Current, HandleOrder, LoopTypeOK, TypeOK
    <2>2. adds = <<h>> \o adds' /\ adds' \in Seq(Handlers) /\ removes' = removes
      BY <2>1, ElementEffect DEF LoopTypeOK
    <2>3. CASE h \in Tasks
      <3>1. Holds(adds, h)
        BY <2>2, TakeFirst
      <3>2. Alive(h)
        BY <2>3, <3>1 DEF RegInv, TaskInv, TableInv, Ahead
      <3>3. cur' = h /\ events' = events
        BY <1>5, <2>3, <3>2, EventLoopAssumption DEF AddFinalize, Call
      <3> QED BY <1>1, <2>1, <2>2, <2>3, <3>3
    <2>4. CASE h \notin Tasks
      <3>1. Handle[h] # NoFd
        BY <2>4, EventLoopAssumption
      <3>2. events' = [events EXCEPT ![Handle[h]] = h] /\ cur' = NoHandler /\ events[Handle[h]] = NoHandler
        BY <1>1, <1>5, <3>1, AddFindsFree DEF AddFinalize
      <3>3. \A g \in Handlers : Registered(g)' <=> Registered(g) \/ g = h
        BY <3>1, <3>2, EPollAssumption DEF Registered, LoopTypeOK, TypeOK
      <3> QED BY <1>1, <2>1, <2>2, <2>4, <3>2, <3>3
    <2> QED BY <2>3, <2>4
  <1> QED BY <1>1, <1>2, <1>3, <1>4, <1>5 DEF Callback

\* A callback returns; a function that returns is still the loop's, and so is no attaching one.
LEMMA ReturnStep ==
  ASSUME LoopTypeOK, RegInv, EndCallback \/ EndTask
  PROVE  /\ cur \in Handlers /\ cur' = NoHandler /\ UNCHANGED <<adds, removes, events, evt, once, posted, ran>>
         /\ \A g \in Handlers : (Coming(g)' <=> Coming(g)) /\ (Attaching(g)' <=> Attaching(g))
  <1>1. cur \in Handlers /\ (EndTask => cur \in internal)
    BY EventLoopAssumption DEF EndCallback, EndTask, RegInv, TaskInv
  <1>2. /\ Return /\ frame[Loop] = Idle /\ UNCHANGED <<evt, once, history>>
        /\ UNCHANGED frame \/ SetFrame(Loop, "once", cur)
    BY <1>1 DEF EndCallback, EndTask, Release
  <1>3. cur' = NoHandler /\ UNCHANGED <<pending, stage, turn, work, pos, events>>
    BY <1>2 DEF Return, queueVars
  <1>4. adds' = adds /\ removes' = removes
    BY <1>3, QuietEffect DEF LoopTypeOK
  <1>5. \A d \in Callers : frame'[d].pc \in AttachSteps \/ frame[d].pc \in AttachSteps =>
                             frame'[d].pc = frame[d].pc /\ frame'[d].h = frame[d].h
    BY <1>2, SetFrameEffect DEF Idle, AttachSteps, Callers
  <1>6. \A g \in Handlers : (Coming(g)' <=> Coming(g)) /\ (Attaching(g)' <=> Attaching(g))
    BY <1>5 DEF Coming, Attaching, AttachSteps
  <1> QED BY <1>1, <1>2, <1>3, <1>4, <1>6 DEF history

\* An Event is taken out of epoll.
LEMMA TakeOutStep ==
  ASSUME LoopTypeOK, RegInv, NEW h \in Handlers, RemoveFinalize(h), Quiet
  PROVE  /\ cur = NoHandler /\ UNCHANGED <<adds, evt, once, cur, posted, ran, stage, turn, batch, run>>
         /\ stage = "elements" /\ turn = 2
         /\ \A g \in Handlers : Holds(removes, g) <=> Holds(removes', g) \/ g = h
         /\ once[h] = "done" /\ evt[h] # "none"
         /\ \A g \in Handlers : g # h => (Registered(g)' <=> Registered(g))
         /\ \A g \in Handlers : (Coming(g)' <=> Coming(g)) /\ (Attaching(g)' <=> Attaching(g))
  <1>1. /\ Element("remove", h) /\ UNCHANGED <<pending, stage, turn, work, batch, cur>>
        /\ UNCHANGED <<frame, evt, once, posted, ran, run>> /\ stage = "elements" /\ turn = 2 /\ cur = NoHandler
    BY DEF RemoveFinalize, Quiet, Element, Current, HandleOrder, LoopTypeOK, TypeOK, queueVars, handlerVars, runVars,
           history
  <1>2. removes = <<h>> \o removes' /\ removes' \in Seq(Handlers) /\ Stored(h)
    BY <1>1, ElementEffect DEF LoopTypeOK
  <1>3. \A l : Element(l, h) /\ l # "add" => adds' = adds
    BY <1>1, ElementEffect DEF LoopTypeOK
  <1>4. adds' = adds
    BY <1>1, <1>3
  <1>5. \A g : Holds(removes, g) <=> Holds(removes', g) \/ g = h
    BY <1>2, TakeFirst
  <1>6. once[h] = "done" /\ evt[h] # "none"
    BY <1>2, <1>5 DEF RegInv, PostInv
  <1>7. ASSUME NEW g \in Handlers, g # h PROVE Registered(g)' <=> Registered(g)
    <2>1. CASE Handle[g] = Handle[h] /\ Handle[h] # NoFd
      <3>1. Open(h)
        BY <1>2, <1>6 DEF Open, EventHeld, Stored
      <3>2. ~Registered(g)
        BY <1>7, <2>1, <3>1 DEF RegInv, OwnerInv, PostInv, Open, EventHeld
      <3>3. Registered(g)' => Registered(g)
        BY EPollAssumption DEF RemoveFinalize, Registered, LoopTypeOK, TypeOK
      <3> QED BY <3>2, <3>3
    <2>2. CASE Handle[g] # Handle[h] \/ Handle[h] = NoFd
      BY <2>2, EPollAssumption DEF RemoveFinalize, Registered, LoopTypeOK, TypeOK
    <2> QED BY <2>1, <2>2
  <1>8. \A g \in Handlers : (Coming(g)' <=> Coming(g)) /\ (Attaching(g)' <=> Attaching(g))
    BY <1>1 DEF Coming, Attaching
  <1> QED BY <1>1, <1>4, <1>5, <1>6, <1>7, <1>8

-----------------------------------------------------------------------------
(* The order of functions.                                                 *)

LEMMA OrderKept ==
  ASSUME OrderInv, posted \in Seq(Tasks), UNCHANGED <<adds, posted, ran>>,
         \A h \in Handlers : evt[h] = "assigned" /\ ~Coming(h) => evt'[h] = "assigned" /\ ~Coming(h)'
  PROVE  OrderInv'
  <1>1. PostedOnce'
    BY EventLoopAssumption DEF OrderInv, PostedOnce
  <1> QED BY <1>1 DEF OrderInv, RanFirst, OnTheWay, AsPosted

\* A post goes to the end of both.
LEMMA OrderPost ==
  ASSUME OrderInv, NEW h \in Handlers, Coming(h), ~Holds(adds, h), evt' = evt, evt[h] = "assigned", ran' = ran,
         adds \in Seq(Handlers), posted \in Seq(Tasks), ran \in Seq(Tasks), adds' = Append(adds, h),
         posted' = IF h \in Tasks THEN Append(posted, h) ELSE posted,
         \A g \in Handlers : Coming(g)' <=> Coming(g) /\ g # h
  PROVE  OrderInv'
  <1>1. /\ Len(adds) \in Nat /\ Len(posted) \in Nat /\ Len(ran) \in Nat
        /\ Len(adds') = Len(adds) + 1 /\ adds'[Len(adds) + 1] = h /\ \A i \in 1..Len(adds) : adds'[i] = adds[i]
        /\ \A i \in 1..Len(posted) : posted[i] \in Tasks
    BY ElementOfSeq, AppendProperties, LenProperties
  <1>2. /\ \A i \in 1..Len(posted) : posted[i] # h
        /\ \A i \in 1..Len(adds) : adds[i] # h
    BY <1>1 DEF OrderInv, PostedOnce, Holds
  <1>3. \A g : Holds(adds', g) <=> Holds(adds, g) \/ g = h
    BY AppendHolds
  <1>4. \A i \in 1..Len(adds') : i \in 1..Len(adds) \/ i = Len(adds) + 1
    BY <1>1
  <1>5. CASE h \in Tasks
    <2>1. /\ Len(posted') = Len(posted) + 1 /\ posted'[Len(posted) + 1] = h
          /\ \A i \in 1..Len(posted) : posted'[i] = posted[i]
      BY <1>5, AppendProperties
    <2>2. \A i \in 1..Len(posted') : i \in 1..Len(posted) \/ i = Len(posted) + 1
      BY <1>1, <2>1
    <2>3. PostedOnce'
      <3>1. ~Holds(posted, h)
        BY <1>2 DEF Holds
      <3>2. /\ \A g : Holds(posted', g) <=> Holds(posted, g) \/ g = h
            /\ Distinct(posted) => Distinct(posted')
        BY <1>5, <3>1, AppendHolds
      <3> QED BY <3>2, EventLoopAssumption DEF OrderInv, PostedOnce
    <2>4. RanFirst'
      BY <1>1, <2>1 DEF OrderInv, RanFirst
    <2>5. \A i \in (Len(ran') + 1)..Len(posted') : Holds(adds', posted'[i])
      BY <1>1, <1>3, <2>1, <2>2 DEF OrderInv, OnTheWay
    <2>6. \A k \in 1..Len(adds') : adds'[k] \in Tasks =>
            \E m \in (Len(ran') + 1)..Len(posted') : posted'[m] = adds'[k]
      <3> SUFFICES ASSUME NEW k \in 1..Len(adds'), adds'[k] \in Tasks
                   PROVE  \E m \in (Len(ran) + 1)..Len(posted') : posted'[m] = adds'[k]
        OBVIOUS
      <3>1. CASE k \in 1..Len(adds)
        <4>1. PICK m \in (Len(ran) + 1)..Len(posted) : posted[m] = adds[k]
          BY <1>1, <3>1 DEF OrderInv, OnTheWay
        <4>2. m \in (Len(ran) + 1)..Len(posted') /\ posted'[m] = adds'[k]
          BY <1>1, <2>1, <3>1, <4>1
        <4> QED BY <4>2
      <3>2. CASE k = Len(adds) + 1
        <4>1. Len(posted) + 1 \in (Len(ran) + 1)..Len(posted') /\ posted'[Len(posted) + 1] = adds'[k]
          BY <1>1, <2>1, <3>2 DEF OrderInv, RanFirst
        <4> QED BY <4>1
      <3> QED BY <1>4, <3>1, <3>2
    <2>7. ASSUME NEW j \in 1..Len(adds'), NEW k \in 1..Len(adds'), NEW m \in 1..Len(posted'),
                 NEW n \in 1..Len(posted'), j < k, posted'[m] = adds'[j], posted'[n] = adds'[k]
          PROVE  m < n
      <3>1. j \in 1..Len(adds) /\ adds'[j] = adds[j] /\ m \in 1..Len(posted) /\ posted[m] = adds[j]
        BY <1>1, <1>2, <1>4, <2>1, <2>2, <2>7
      <3>2. CASE k = Len(adds) + 1
        BY <1>1, <1>2, <2>1, <2>2, <2>7, <3>1, <3>2
      <3>3. CASE k \in 1..Len(adds)
        <4>1. adds'[k] = adds[k] /\ n \in 1..Len(posted) /\ posted[n] = adds[k]
          BY <1>1, <1>2, <2>1, <2>2, <2>7, <3>3
        <4> QED BY <2>7, <3>1, <3>3, <4>1 DEF OrderInv, AsPosted
      <3> QED BY <1>4, <3>2, <3>3
    <2>8. OnTheWay'
      BY <2>5, <2>6 DEF OnTheWay
    <2>9. AsPosted'
      BY ZenonT(40), <2>7 DEF AsPosted
    <2> QED BY <2>3, <2>4, <2>8, <2>9 DEF OrderInv
  <1>6. CASE h \notin Tasks
    <2>1. posted' = posted
      BY <1>6
    <2>2. OnTheWay'
      BY <1>1, <1>3, <1>4, <1>6, <2>1 DEF OrderInv, OnTheWay
    <2>3. ASSUME NEW j \in 1..Len(adds'), NEW k \in 1..Len(adds'), NEW m \in 1..Len(posted'),
                 NEW n \in 1..Len(posted'), j < k, posted'[m] = adds'[j], posted'[n] = adds'[k]
          PROVE  m < n
      <3>1. j \in 1..Len(adds) /\ k \in 1..Len(adds)
        BY <1>1, <1>2, <1>4, <2>1, <2>3
      <3> QED BY <1>1, <2>1, <2>3, <3>1 DEF OrderInv, AsPosted
    <2>4. PostedOnce'
      BY <1>6, <2>1, EventLoopAssumption DEF OrderInv, PostedOnce
    <2>5. RanFirst'
      BY <2>1 DEF OrderInv, RanFirst
    <2>6. AsPosted'
      BY ZenonT(40), <2>3 DEF AsPosted
    <2> QED BY <2>2, <2>4, <2>5, <2>6 DEF OrderInv
  <1> QED BY <1>5, <1>6

\* The first of the vector is finalized.
LEMMA OrderTake ==
  ASSUME OrderInv, NEW h \in Handlers, UNCHANGED <<evt, posted>>, Distinct(adds),
         adds' \in Seq(Handlers), posted \in Seq(Tasks), ran \in Seq(Tasks), adds = <<h>> \o adds',
         ran' = IF h \in Tasks THEN Append(ran, h) ELSE ran,
         \A g \in Handlers : Coming(g)' <=> Coming(g)
  PROVE  OrderInv'
  <1>0. \A x : \A y \in Seq(Handlers) : x = <<h>> \o y =>
          /\ Len(y) \in Nat /\ Len(x) = Len(y) + 1 /\ x[1] = h
          /\ \A i \in 1..Len(y) : x[i + 1] = y[i]
    BY ConsHolds
  <1>1. /\ Len(adds') \in Nat /\ Len(posted) \in Nat /\ Len(ran) \in Nat
        /\ Len(adds) = Len(adds') + 1 /\ adds[1] = h /\ \A i \in 1..Len(adds') : adds[i + 1] = adds'[i]
        /\ \A i \in 1..Len(posted) : posted[i] \in Tasks
        /\ ~Holds(adds', h)
    BY ZenonT(40), <1>0, TakeFirst, ElementOfSeq, LenProperties
  <1>2. \A g : Holds(adds, g) <=> Holds(adds', g) \/ g = h
    BY TakeFirst
  <1>3. \A k \in 1..Len(adds') : k + 1 \in 1..Len(adds) /\ adds[k + 1] = adds'[k] /\ adds'[k] # h
    BY <1>1 DEF Holds
  <1>4. PostedOnce'
    BY EventLoopAssumption DEF OrderInv, PostedOnce
  <1>5. ASSUME NEW j \in 1..Len(adds'), NEW k \in 1..Len(adds'), NEW m \in 1..Len(posted),
               NEW n \in 1..Len(posted), j < k, posted[m] = adds'[j], posted[n] = adds'[k]
        PROVE  m < n
    <2>1. j + 1 < k + 1
      BY <1>1, <1>5
    <2>2. /\ j + 1 \in 1..Len(adds) /\ k + 1 \in 1..Len(adds)
          /\ posted[m] = adds[j + 1] /\ posted[n] = adds[k + 1]
      BY <1>3, <1>5
    <2>3. AsPosted
      BY DEF OrderInv
    <2> QED BY <2>1, <2>2, <2>3, Zenon DEF AsPosted
  <1>6. \A k \in 1..Len(adds') : adds'[k] \in Tasks => \E m \in (Len(ran) + 1)..Len(posted) : posted[m] = adds'[k]
    BY <1>3 DEF OrderInv, OnTheWay
  <1>7. CASE h \in Tasks
    <2> DEFINE n == Len(ran) + 1
    <2>1. 1 \in 1..Len(adds)
      BY <1>1
    <2>2. PICK m \in (Len(ran) + 1)..Len(posted) : posted[m] = h
      BY ZenonT(40), <1>1, <1>7, <2>1 DEF OrderInv, OnTheWay
    <2>3. n \in (Len(ran) + 1)..Len(posted) /\ n \in 1..Len(posted) /\ m \in 1..Len(posted)
      BY <1>1, <2>2
    <2>4. PICK k \in 1..Len(adds) : adds[k] = posted[n]
      BY <2>3 DEF OrderInv, OnTheWay, Holds
    <2>5. ASSUME k # 1 PROVE FALSE
      <3>1. 1 < k
        BY <1>1, <2>5
      <3>2. m < n
        BY <1>1, <2>1, <2>2, <2>3, <2>4, <3>1 DEF OrderInv, AsPosted
      <3> QED BY <1>1, <2>2, <3>2
    <2>6. posted[n] = h
      BY <1>1, <2>4, <2>5
    <2>7. Len(ran') = Len(ran) + 1 /\ ran'[n] = h /\ \A i \in 1..Len(ran) : ran'[i] = ran[i]
      BY <1>7, AppendProperties
    <2>8. RanFirst'
      <3>1. \A i \in 1..Len(ran') : i \in 1..Len(ran) \/ i = n
        BY <1>1, <2>7
      <3> QED BY <1>1, <2>3, <2>6, <2>7, <3>1 DEF OrderInv, RanFirst
    <2>9. ASSUME NEW i \in (Len(ran') + 1)..Len(posted) PROVE Holds(adds', posted[i])
      <3>1. i \in (Len(ran) + 1)..Len(posted) /\ i \in 1..Len(posted) /\ i # n
        BY <1>1, <2>7
      <3>2. posted[i] # h
        BY <2>3, <2>6, <3>1 DEF OrderInv, PostedOnce, Distinct
      <3> QED BY <1>2, <3>1, <3>2 DEF OrderInv, OnTheWay
    <2>10. ASSUME NEW l \in 1..Len(adds'), adds'[l] \in Tasks
           PROVE  \E p \in (Len(ran') + 1)..Len(posted) : posted[p] = adds'[l]
      <3>1. PICK p \in (Len(ran) + 1)..Len(posted) : posted[p] = adds'[l]
        BY <1>6, <2>10
      <3>2. p # n
        BY <1>3, <2>6, <3>1
      <3>3. p \in (Len(ran') + 1)..Len(posted)
        BY <1>1, <2>7, <3>1, <3>2
      <3> QED BY <3>1, <3>3
    <2> HIDE DEF n
    <2> QED BY <1>4, <1>5, <2>8, <2>9, <2>10 DEF OrderInv, OnTheWay, AsPosted
  <1>8. CASE h \notin Tasks
    <2>1. ran' = ran
      BY <1>8
    <2>2. ASSUME NEW i \in (Len(ran) + 1)..Len(posted) PROVE Holds(adds', posted[i])
      <3>1. Len(ran) <= Len(posted) /\ i \in 1..Len(posted)
        BY <1>1 DEF OrderInv, RanFirst
      <3>2. posted[i] # h
        BY <1>1, <1>8, <3>1
      <3> QED BY <1>2, <3>2 DEF OrderInv, OnTheWay
    <2>3. RanFirst'
      BY <2>1 DEF OrderInv, RanFirst
    <2> QED BY <1>4, <1>5, <1>6, <2>1, <2>2, <2>3 DEF OrderInv, OnTheWay, AsPosted
  <1> QED BY <1>7, <1>8

LEMMA OrderStep ==
  ASSUME LoopTypeOK, RegInv, FiledByHandle, OrderInv, LoopNext
  PROVE  OrderInv'
  <1>0. /\ posted \in Seq(Tasks) /\ ran \in Seq(Tasks) /\ adds \in Seq(Handlers)
        /\ Distinct(adds)
    BY VectorTypes DEF LoopTypeOK, RegInv, PostInv
  <1>1. CASE Same
    BY <1>0, <1>1, OrderKept DEF Same
  <1>2. ASSUME NEW c \in Callers, NEW h \in Handlers, Attach(c, h) \/ Execute(c, h) PROVE OrderInv'
    <2>1. \A g \in Handlers : evt[g] = "assigned" /\ ~Coming(g) => evt'[g] = "assigned" /\ ~Coming(g)'
      BY <1>2, AttachStep
    <2>2. UNCHANGED <<adds, posted, ran>>
      BY <1>2, AttachStep
    <2> QED BY <1>0, <2>1, <2>2, OrderKept
  <1>3. ASSUME NEW c \in Callers, CreateEvent(c) \/ AssignEvent(c) PROVE OrderInv'
    <2>1. \A g \in Handlers : evt[g] = "assigned" /\ ~Coming(g) => evt'[g] = "assigned" /\ ~Coming(g)'
      BY <1>3, MakeStep
    <2>2. UNCHANGED <<adds, posted, ran>>
      BY <1>3, MakeStep
    <2> QED BY <1>0, <2>1, <2>2, OrderKept
  <1>4. ASSUME NEW c \in Callers, Add(c) PROVE OrderInv'
    <2>1. PICK h \in Handlers :
            /\ Coming(h) /\ Attaching(h) /\ evt[h] = "assigned" /\ ~Holds(adds, h)
            /\ adds' = Append(adds, h) /\ removes' = removes /\ UNCHANGED <<events, evt, once, cur, ran>>
            /\ posted' = IF h \in Tasks THEN Append(posted, h) ELSE posted
            /\ \A g \in Handlers : Coming(g)' <=> Coming(g) /\ g # h
            /\ \A g \in Handlers : Attaching(g)' <=> Attaching(g) /\ g # h
      BY <1>4, AddStep
    <2> QED BY <1>0, <2>1, OrderPost
  <1>5. ASSUME NEW c \in Callers, CloseOnce(c) \/ PostRemove(c) PROVE OrderInv'
    <2>1. UNCHANGED <<adds, evt, posted, ran>> /\ \A g \in Handlers : Coming(g)' <=> Coming(g)
      BY <1>5, CloseStep, RemoveStep
    <2> QED BY <1>0, <2>1, OrderKept
  <1>6. CASE Callback
    <2>1. UNCHANGED <<evt, posted>> /\ \A g \in Handlers : Coming(g)' <=> Coming(g)
      BY <1>6, CallbackStep
    <2>2. CASE UNCHANGED <<adds, ran>>
      BY <1>0, <2>1, <2>2, OrderKept
    <2>3. ASSUME NEW h \in Handlers, adds = <<h>> \o adds', adds' \in Seq(Handlers),
                 ran' = IF h \in Tasks THEN Append(ran, h) ELSE ran
          PROVE  OrderInv'
      BY <1>0, <2>1, <2>3, OrderTake
    <2> QED BY <1>6, <2>2, <2>3, CallbackStep
  <1>7. CASE EndCallback \/ EndTask
    BY <1>0, <1>7, ReturnStep, OrderKept
  <1>8. ASSUME NEW h \in Handlers, RemoveFinalize(h), Quiet PROVE OrderInv'
    BY <1>0, <1>8, TakeOutStep, OrderKept
  <1> QED BY <1>1, <1>2, <1>3, <1>4, <1>5, <1>6, <1>7, <1>8, SameStep

\* The inductive invariant behind TasksInOrder: what was posted and has not run is in the
\* first vector, or in what is left of the one that was swapped out, in the order of the
\* posts (epoll.cc:109-131).
THEOREM LoopOrderInv == LoopSpec => []OrderInv
  <1>1. ASSUME LoopInit PROVE OrderInv
    <2>1. posted = <<>> /\ ran = <<>> /\ Rest(1) = <<>> /\ pending["add"] = <<>>
      BY <1>1 DEF LoopInit, Init, Rest, Lists
    <2>2. adds = <<>> \o <<>>
      BY <2>1 DEF adds
    <2>3. adds = <<>>
      BY <2>2, ConcatEmptySeq, EmptySeq
    <2> QED BY <2>1, <2>3 DEF OrderInv, RanFirst, OnTheWay, AsPosted, PostedOnce, Distinct, Holds
  <1>2. LoopTypeOK /\ FiledByHandle /\ RegInv /\ OrderInv /\ [LoopNext]_vars => OrderInv'
    <2> SUFFICES ASSUME LoopTypeOK, FiledByHandle, RegInv, OrderInv, [LoopNext]_vars PROVE OrderInv'
      OBVIOUS
    <2>1. CASE LoopNext
      BY <2>1, OrderStep
    <2>2. CASE UNCHANGED vars
      <3>1. UNCHANGED <<adds, posted, ran>> /\ UNCHANGED <<frame, evt>>
        BY <2>2, QuietEffect DEF vars, epollVars, handlerVars, history, LoopTypeOK
      <3>2. posted \in Seq(Tasks) /\ \A g \in Handlers : Coming(g)' <=> Coming(g)
        BY <3>1 DEF Coming, LoopTypeOK
      <3> QED BY <3>1, <3>2, OrderKept
    <2> QED BY <2>1, <2>2
  <1> QED BY <1>1, <1>2, LoopRegInv, LoopTypeCorrect, LoopImplementsEPoll, EPollFiledByHandle, PTL
          DEF LoopSpec, ImplementsEPoll

\* ExecuteOnce runs each function once and in the order of the calls (event_loop.h:41-44,
\* event_loop.cc:143-162): one vector, swapped as a whole and finalized from its first element
\* (epoll.cc:109-120, 224-232).
THEOREM LoopTasksInOrder == LoopSpec => []TasksInOrder
  <1>1. LoopTypeOK /\ OrderInv => TasksInOrder
    <2> SUFFICES ASSUME LoopTypeOK, OrderInv PROVE TasksInOrder
      OBVIOUS
    <2>1. ran \in Seq(Tasks) /\ posted \in Seq(Tasks) /\ Len(ran) \in Nat /\ Len(posted) \in Nat
      BY DEF LoopTypeOK
    <2>2. Len(ran) <= Len(posted) /\ \A i \in 1..Len(ran) : ran[i] = posted[i]
      BY DEF OrderInv, RanFirst
    <2>3. SubSeq(posted, 1, Len(ran)) = SubSeq(ran, 1, Len(ran))
      BY <2>1, <2>2
    <2> QED BY <2>2, <2>3 DEF TasksInOrder, IsPrefix
  <1> QED BY <1>1, LoopOrderInv, LoopTypeCorrect, PTL

-----------------------------------------------------------------------------
(* The close of a function.                                                *)

\* Run() closes what is left, and then handles the vectors once more.
Late       == run \in {"close", "woken", "last", "done"}
NoMoreAdds == run = "done" \/ (run = "last" /\ PastAdds)

\* A function is closed when it has left the first vector, or by Run(); and when its close
\* has been carried out it does not run and will not.
LeaveInv ==
  \A h \in Tasks :
    /\ once[h] # "open" \/ Closing(h) => ~Ahead(h) \/ Late
    /\ once[h] = "done" /\ ~Holds(removes, h) => cur # h /\ (~Ahead(h) \/ NoMoreAdds)

LEMMA LateStep ==
  ASSUME LoopTypeOK, RegInv, BatchShape, LoopNext
  PROVE  (Late => Late') /\ (NoMoreAdds => NoMoreAdds')
  <1> DEFINE Goal == (Late => Late') /\ (NoMoreAdds => NoMoreAdds')
  <1>1. ASSUME UNCHANGED <<run, stage, turn, batch>> PROVE Goal
    BY <1>1 DEF Late, NoMoreAdds, PastAdds
  <1>2. CASE CheckStop \/ EndProcess \/ CollectEvents \/ LastWakeup \/ LastProcess
    BY <1>2 DEF CheckStop, EndProcess, CollectEvents, LastWakeup, LastProcess, LeaveProcess, Late, NoMoreAdds, RegInv,
                PlaceInv
  <1>3. CASE TaskClose \/ EndCallback \/ EndTask \/ ModifyEvent \/ (\E h \in Handlers : CloseCollected(h))
             \/ \E f \in Fds : Kernel(f)
    BY <1>1, <1>3 DEF TaskClose, EndCallback, EndTask, Release, Return, ModifyEvent, Modify, CloseCollected, Kernel,
                      KernelReady, epollVars, loopVars, runVars
  <1>4. CASE Callback
    BY <1>1, <1>4 DEF Callback, TakeFd, AddFinalize, ReadyFinalize, Late, NoMoreAdds, PastAdds
  <1>5. CASE Quiet
    <2>1. run' = run
      BY <1>5 DEF Quiet, runVars
    <2>2. CASE EpollWait \/ TakePending \/ Drain
      <3>1. stage = "wait" \/ stage = "drain" \/ <<PendingFd, NoHandler>> \in batch
        <4>1. CASE TakePending
          <5>1. PICK b \in batch : b[1] = PendingFd
            BY <4>1 DEF TakePending
          <5>2. b = <<PendingFd, NoHandler>>
            BY <5>1 DEF BatchShape
          <5> QED BY <5>2
        <4> QED BY <2>2, <4>1 DEF EpollWait, Drain
      <3>2. ~PastAdds
        BY <3>1 DEF PastAdds
      <3> QED BY <2>1, <3>2 DEF Late, NoMoreAdds
    <2>4. CASE Swap \/ EndElements
      BY <2>1, <2>4 DEF Swap, EndElements, HandleOrder, Late, NoMoreAdds, PastAdds, LoopTypeOK, TypeOK
    <2>3. CASE \E h \in Handlers : RemoveFinalize(h)
      BY <1>1, <2>1, <2>3 DEF RemoveFinalize
    <2> QED BY <1>5, <2>2, <2>3, <2>4 DEF Quiet
  <1>6. ASSUME NEW c \in Callers, CallStep(c) \/ CallStart(c) PROVE Goal
    <2>1. CASE CreateEvent(c) \/ AssignEvent(c) \/ CloseOnce(c) \/ Join(c) \/ Stop(c)
      BY <1>1, <2>1 DEF CreateEvent, AssignEvent, CloseOnce, Join, Stop, epollVars, runVars
    <2>2. CASE Add(c) \/ PostRemove(c) \/ StopWakeup(c)
      BY <1>1, <2>2 DEF Add, PostRemove, StopWakeup, AddElement, WakeupOnly, loopVars, runVars
    <2>3. ASSUME NEW h \in Handlers,
                 \/ New(c, h) \/ Attach(c, h) \/ Execute(c, h)
                 \/ ReadyEvent(c, h) \/ CloseEvent(c, h) \/ Cancel(c, h) \/ Drop(c, h)
          PROVE  Goal
      BY <1>1, <2>3 DEF New, Attach, Execute, ReadyEvent, AddElement, CloseEvent, Cancel, Drop, epollVars, loopVars,
                        runVars
    <2> QED BY <1>6, <2>1, <2>2, <2>3 DEF CallStep, CallStart
  <1> QED BY <1>2, <1>3, <1>4, <1>5, <1>6 DEF LoopNext, RunStep

\* Who starts to close a function.
LEMMA ClosingStep ==
  ASSUME LoopTypeOK, RegInv, LoopNext, NEW h \in Tasks, Closing(h)'
  PROVE  Closing(h) \/ ~Ahead(h) \/ Late
  <1> DEFINE Goal == Closing(h) \/ ~Ahead(h) \/ Late
  <1>0. h \in Handlers
    BY EventLoopAssumption
  <1>1. ASSUME frame' = frame PROVE Goal
    BY <1>1 DEF Closing
  <1>2. ASSUME NEW c \in Callers, NEW p, NEW x, SetFrame(c, p, x), h = x => p # "once" \/ ~Ahead(h) \/ Late PROVE Goal
    BY <1>2, SetFrameEffect DEF Closing
  <1>3. ASSUME NEW c \in Callers, ClearFrame(c) PROVE Goal
    BY <1>3, ClearFrameEffect DEF Closing
  <1>4. cur = h => ~Ahead(h)
    BY <1>0 DEF RegInv, PostInv
  <1>5. CASE CheckStop \/ EndProcess \/ CollectEvents \/ LastWakeup \/ LastProcess \/ Callback \/ Quiet
    BY <1>1, <1>5 DEF CheckStop, EndProcess, CollectEvents, LastWakeup, LastProcess, Callback, Quiet, handlerVars
  <1>6. CASE ModifyEvent \/ \E f \in Fds : Kernel(f)
    BY <1>1, <1>6 DEF ModifyEvent, Kernel, handlerVars
  <1>7. CASE TaskClose \/ EndCallback \/ EndTask
    BY <1>1, <1>2, <1>4, <1>7 DEF TaskClose, EndCallback, EndTask, Release, Callers
  <1>8. CASE \E g \in Handlers : CloseCollected(g)
    BY <1>8 DEF CloseCollected, Late
  <1>9. ASSUME NEW c \in Callers, CallStep(c) \/ CallStart(c) PROVE Goal
    <2>1. CASE CreateEvent(c) \/ AssignEvent(c) \/ CloseOnce(c) \/ Stop(c) \/ StopWakeup(c)
      BY <1>2, <1>3, <2>1 DEF CreateEvent, AssignEvent, CloseOnce, Stop, StopWakeup
    <2>2. CASE Add(c) \/ PostRemove(c) \/ Join(c)
      BY <1>3, <2>2 DEF Add, PostRemove, Join
    <2>3. ASSUME NEW g \in Handlers, New(c, g) \/ Attach(c, g) \/ Execute(c, g) \/ ReadyEvent(c, g) PROVE Goal
      BY <1>1, <1>2, <2>3 DEF New, Attach, Execute, ReadyEvent, handlerVars
    <2>4. ASSUME NEW g \in Handlers, CloseEvent(c, g) \/ Cancel(c, g) PROVE Goal
      BY <1>2, <2>4, EventLoopAssumption DEF CloseEvent, Cancel
    <2>5. ASSUME NEW g \in Handlers, Drop(c, g) PROVE Goal
      <3>1. g \in internal \/ ~Ahead(h) \/ g # h
        BY DEF RegInv, TaskInv
      <3> QED BY <1>1, <1>2, <2>5, <3>1 DEF Drop
    <2> QED BY <1>9, <2>1, <2>2, <2>3, <2>4, <2>5 DEF CallStep, CallStart
  <1> QED BY <1>5, <1>6, <1>7, <1>8, <1>9 DEF LoopNext, RunStep

\* What a step may do to a function.
LEMMA FunctionStep ==
  ASSUME LoopTypeOK, RegInv, FiledByHandle, LoopNext, NEW h \in Tasks
  PROVE  /\ Ahead(h)' => Ahead(h) \/ evt'[h] = "none"
         /\ cur' = h => cur = h \/ (Ahead(h) /\ stage = "elements" /\ turn = 1)
         /\ once'[h] # once[h] => (once'[h] = "running" /\ Closing(h)) \/ (once[h] = "running" /\ Holds(removes', h))
         /\ Holds(removes, h) => Holds(removes', h) \/ (stage = "elements" /\ turn = 2 /\ cur = NoHandler
                                                        /\ UNCHANGED <<stage, turn, batch, run, cur>>)
  <1> DEFINE Goal ==
         /\ Ahead(h)' => Ahead(h) \/ evt'[h] = "none"
         /\ cur' = h => cur = h \/ (Ahead(h) /\ stage = "elements" /\ turn = 1)
         /\ once'[h] # once[h] => (once'[h] = "running" /\ Closing(h)) \/ (once[h] = "running" /\ Holds(removes', h))
         /\ Holds(removes, h) => Holds(removes', h) \/ (stage = "elements" /\ turn = 2 /\ cur = NoHandler
                                                        /\ UNCHANGED <<stage, turn, batch, run, cur>>)
  <1>0. h \in Handlers /\ h # NoHandler /\ \A g \in Handlers : g # NoHandler
    BY EventLoopAssumption, EPollAssumption
  <1>1. CASE Same
    BY <1>0, <1>1 DEF Same, Ahead
  <1>2. ASSUME NEW c \in Callers, NEW g \in Handlers, Attach(c, g) \/ Execute(c, g) PROVE Goal
    <2>1. /\ evt[g] = "none" /\ UNCHANGED <<adds, removes, evt, once, cur>>
          /\ \A x \in Handlers : Coming(x)' <=> Coming(x) \/ x = g
      BY <1>2, AttachStep
    <2> QED BY <1>0, <2>1 DEF Ahead
  <1>3. ASSUME NEW c \in Callers, CreateEvent(c) \/ AssignEvent(c) PROVE Goal
    <2>1. UNCHANGED <<adds, removes, once, cur>> /\ \A g \in Handlers : Coming(g)' <=> Coming(g)
      BY <1>3, MakeStep
    <2> QED BY <1>0, <2>1 DEF Ahead
  <1>4. ASSUME NEW c \in Callers, Add(c) PROVE Goal
    <2>1. PICK g \in Handlers : /\ Coming(g) /\ adds' = Append(adds, g) /\ UNCHANGED <<removes, once, cur>>
                                /\ \A x \in Handlers : Coming(x)' <=> Coming(x) /\ x # g
      BY <1>4, AddStep
    <2>2. \A x : Holds(adds', x) <=> Holds(adds, x) \/ x = g
      BY <2>1, AppendHolds, VectorTypes DEF LoopTypeOK
    <2> QED BY <1>0, <2>1, <2>2 DEF Ahead
  <1>5. ASSUME NEW c \in Callers, CloseOnce(c) PROVE Goal
    <2>1. PICK g \in Handlers :
           /\ Closing(g) /\ UNCHANGED <<adds, removes, cur>>
           /\ \/ once' = [once EXCEPT ![g] = "running"]
              \/ UNCHANGED once
           /\ \A x \in Handlers : Coming(x)' <=> Coming(x)
      BY <1>5, CloseStep
    <2>2. once'[h] # once[h] => once'[h] = "running" /\ Closing(h)
      BY <1>0, <2>1 DEF LoopTypeOK
    <2> QED BY <1>0, <2>1, <2>2 DEF Ahead
  <1>6. ASSUME NEW c \in Callers, PostRemove(c) PROVE Goal
    <2>1. PICK g \in Handlers :
            /\ once[g] = "running" /\ once' = [once EXCEPT ![g] = "done"] /\ UNCHANGED <<adds, cur>>
            /\ \A x : Holds(removes', x) <=> Holds(removes, x) \/ x = g
            /\ \A x \in Handlers : Coming(x)' <=> Coming(x)
      BY <1>6, RemoveStep
    <2>2. once'[h] # once[h] => once[h] = "running" /\ Holds(removes', h)
      BY <1>0, <2>1 DEF LoopTypeOK
    <2> QED BY <1>0, <2>1, <2>2 DEF Ahead
  <1>7. CASE Callback
    <2>1. /\ UNCHANGED once /\ removes' = removes /\ \A g \in Handlers : Coming(g)' <=> Coming(g)
      BY <1>7, CallbackStep
    <2>2. CASE /\ UNCHANGED <<adds, events, ran>>
               /\ cur' = NoHandler \/ (cur' \in Handlers \ Tasks /\ Registered(cur'))
      BY <1>0, <2>1, <2>2 DEF Ahead
    <2>3. ASSUME NEW g \in Handlers, adds = <<g>> \o adds', adds' \in Seq(Handlers), stage = "elements", turn = 1,
                 cur' = g \/ cur' = NoHandler
          PROVE  Goal
      <3>1. \A x : Holds(adds, x) <=> Holds(adds', x) \/ x = g
        BY <2>3, TakeFirst
      <3> QED BY <1>0, <2>1, <2>3, <3>1 DEF Ahead
    <2> QED BY <1>7, <2>2, <2>3, CallbackStep
  <1>8. CASE EndCallback \/ EndTask
    BY <1>0, <1>8, ReturnStep DEF Ahead
  <1>9. ASSUME NEW g \in Handlers, RemoveFinalize(g), Quiet PROVE Goal
    <2>1. /\ cur = NoHandler /\ UNCHANGED <<adds, once, cur, stage, turn, batch, run>> /\ stage = "elements" /\ turn = 2
          /\ \A x \in Handlers : Coming(x)' <=> Coming(x)
      BY <1>9, TakeOutStep
    <2> QED BY <1>0, <2>1 DEF Ahead
  <1> QED BY <1>1, <1>2, <1>3, <1>4, <1>5, <1>6, <1>7, <1>8, <1>9, SameStep

LEMMA LeaveStep ==
  ASSUME LoopTypeOK, RegInv, RegInv', BatchShape, FiledByHandle, LeaveInv, LoopNext
  PROVE  LeaveInv'
  <1> SUFFICES ASSUME NEW h \in Tasks
               PROVE  /\ once'[h] # "open" \/ Closing(h)' => ~Ahead(h)' \/ Late'
                      /\ once'[h] = "done" /\ ~Holds(removes', h) => cur' # h /\ (~Ahead(h)' \/ NoMoreAdds')
    BY DEF LeaveInv
  <1>0. h \in Handlers /\ h # NoHandler
    BY EventLoopAssumption, EPollAssumption
  <1>1. /\ Ahead(h)' => Ahead(h) \/ evt'[h] = "none"
        /\ cur' = h => cur = h \/ (Ahead(h) /\ stage = "elements" /\ turn = 1)
        /\ once'[h] # once[h] => (once'[h] = "running" /\ Closing(h)) \/ (once[h] = "running" /\ Holds(removes', h))
        /\ Holds(removes, h) => Holds(removes', h) \/ (stage = "elements" /\ turn = 2 /\ cur = NoHandler
                                                       /\ UNCHANGED <<stage, turn, batch, run, cur>>)
    BY FunctionStep
  <1>2. (Late => Late') /\ (NoMoreAdds => NoMoreAdds')
    BY LateStep
  <1>3. /\ once[h] # "open" \/ Closing(h) => ~Ahead(h) \/ Late
        /\ once[h] = "done" /\ ~Holds(removes, h) => cur # h /\ (~Ahead(h) \/ NoMoreAdds)
    BY DEF LeaveInv
  <1>4. evt'[h] = "none" => once'[h] = "open" /\ ~Closing(h)'
    BY <1>0 DEF RegInv, TableInv, FrameInv, Closing
  <1>5. Holds(removes', h) => once'[h] = "done"
    BY <1>0 DEF RegInv, PostInv
  <1>6. stage = "elements" => run \in {"process", "last"} /\ <<PendingFd, NoHandler>> \notin batch
    BY DEF RegInv, PlaceInv, BatchShape
  <1>7. ASSUME once'[h] # "open" \/ Closing(h)' PROVE ~Ahead(h)' \/ Late'
    <2>1. CASE Closing(h)'
      <3>1. Closing(h) \/ ~Ahead(h) \/ Late
        BY <2>1, ClosingStep
      <3> QED BY <1>1, <1>2, <1>3, <1>4, <2>1, <3>1
    <2>2. CASE once'[h] # "open"
      <3>1. once[h] # "open" \/ Closing(h)
        BY <1>1, <2>2
      <3> QED BY <1>1, <1>2, <1>3, <1>4, <2>2, <3>1
    <2> QED BY <1>7, <2>1, <2>2
  <1>8. ASSUME once'[h] = "done", ~Holds(removes', h) PROVE cur' # h /\ (~Ahead(h)' \/ NoMoreAdds')
    <2>1. once[h] = "done" /\ (Ahead(h)' => Ahead(h))
      BY <1>1, <1>4, <1>8
    <2>2. CASE ~Holds(removes, h)
      <3>1. NoMoreAdds => ~(stage = "elements" /\ turn = 1)
        BY <1>6 DEF NoMoreAdds, PastAdds
      <3> QED BY <1>1, <1>2, <1>3, <2>1, <2>2, <3>1
    <2>3. CASE Holds(removes, h)
      <3>1. stage = "elements" /\ turn = 2 /\ cur = NoHandler /\ UNCHANGED <<stage, turn, batch, run, cur>>
        BY <1>1, <1>8, <2>3
      <3>2. ~Ahead(h) \/ run = "last"
        BY <1>3, <1>6, <2>1, <3>1 DEF Late
      <3>3. run = "last" => NoMoreAdds'
        BY <1>6, <3>1 DEF NoMoreAdds, PastAdds
      <3> QED BY <1>0, <2>1, <3>1, <3>2, <3>3
    <2> QED BY <2>2, <2>3
  <1> QED BY <1>7, <1>8

\* The inductive invariant behind the close of a function: ExecuteHandler closes its Event
\* after func_ (event_loop.cc:227-241), and Run() when no Process() but the last is to come
\* (event_loop.cc:69-90).
THEOREM LoopLeaveInv == LoopSpec => []LeaveInv
  <1>1. ASSUME LoopInit PROVE LeaveInv
    <2>1. \A h \in Handlers : once[h] = "open" /\ ~Closing(h)
      BY <1>1, EPollAssumption DEF LoopInit, Closing, Idle
    <2> QED BY <2>1, EventLoopAssumption DEF LeaveInv
  <1>2. LoopTypeOK /\ RegInv /\ RegInv' /\ WakeupInv /\ FiledByHandle /\ LeaveInv /\ [LoopNext]_vars => LeaveInv'
    <2> SUFFICES ASSUME LoopTypeOK, RegInv, RegInv', WakeupInv, FiledByHandle, LeaveInv, [LoopNext]_vars PROVE LeaveInv'
      OBVIOUS
    <2>1. CASE LoopNext
      BY <2>1, LeaveStep DEF WakeupInv
    <2>2. CASE UNCHANGED vars
      <3>1. UNCHANGED <<adds, removes>> /\ UNCHANGED <<frame, once, cur, run, stage, turn, batch>>
        BY <2>2, QuietEffect DEF vars, epollVars, handlerVars, runVars, LoopTypeOK
      <3>2. \A h \in Tasks : (Ahead(h)' <=> Ahead(h)) /\ (Closing(h)' <=> Closing(h))
        BY <3>1 DEF Ahead, Coming, Closing
      <3>3. (Late' <=> Late) /\ (NoMoreAdds' <=> NoMoreAdds)
        BY <3>1 DEF Late, NoMoreAdds, PastAdds
      <3> QED BY <3>1, <3>2, <3>3 DEF LeaveInv
    <2> QED BY <2>1, <2>2
  <1> QED BY <1>1, <1>2, LoopRegInv, LoopTypeCorrect, LoopImplementsEPoll, EPollFiledByHandle, EPollWakeupInv, PTL
          DEF LoopSpec, ImplementsEPoll

-----------------------------------------------------------------------------
(* The refinement of EventLife.                                            *)

\* Leaving, by the vectors of this module.
Here(h) ==
  \/ Registered(h) \/ cur = h \/ once[h] = "running"
  \/ Holds(adds, h) \/ Holds(removes, h) \/ Attaching(h)

\* The life of each handler, case by case.
MapOK ==
  /\ lifeOf \in [Handlers -> {"new", "attached", "closing", "closed"}]
  /\ \A h \in Handlers :
       /\ evt[h] = "none" => lifeOf[h] = "new"
       /\ evt[h] # "none" /\ once[h] = "open" => lifeOf[h] = "attached"
       /\ evt[h] # "none" /\ once[h] # "open" /\ Here(h) => lifeOf[h] = "closing"
       /\ evt[h] # "none" /\ once[h] # "open" /\ ~Here(h) => lifeOf[h] = "closed"

\* The refinement mapping, case by case, in the terms of RegInv (event.cc:49-54).
THEOREM LoopMapOK == LoopSpec => []MapOK
  <1>1. LoopTypeOK => MapOK
    <2> SUFFICES ASSUME LoopTypeOK PROVE MapOK
      OBVIOUS
    <2>1. \A h \in Handlers : Leaving(h) <=> Here(h)
      BY DueVectors DEF LoopTypeOK, Leaving, Here
    <2> QED BY <2>1 DEF lifeOf, MapOK
  <1> QED BY <1>1, LoopTypeCorrect, PTL

\* A function that is on its way has not run.
LEMMA NotRun ==
  ASSUME OrderInv, NEW h \in Tasks, NEW k \in 1..Len(adds), adds[k] = h, ran \in Seq(Tasks), posted \in Seq(Tasks)
  PROVE  h \notin ToSet(ran)
  <1>1. PICK m \in (Len(ran) + 1)..Len(posted) : posted[m] = h
    BY DEF OrderInv, OnTheWay
  <1>2. ASSUME NEW i \in 1..Len(ran), ran[i] = h PROVE FALSE
    <2>1. Len(ran) \in Nat /\ Len(posted) \in Nat /\ Len(ran) <= Len(posted) /\ posted[i] = h
      BY <1>2 DEF OrderInv, RanFirst
    <2>2. i \in 1..Len(posted) /\ m \in 1..Len(posted) /\ i # m
      BY <2>1
    <2> QED BY <1>1, <2>1, <2>2 DEF OrderInv, PostedOnce, Distinct
  <1> QED BY <1>2 DEF ToSet

\* Every step of the loop is a step of EventLife or leaves it alone.
LEMMA LifeStep ==
  ASSUME LoopTypeOK, RegInv, RegInv', FiledByHandle, CalledWhileRegistered, OrderInv, LeaveInv, MapOK, MapOK', LoopNext
  PROVE  [Life!LifeNext]_(Life!lifeVars)
  <1> DEFINE Goal == [Life!LifeNext]_(Life!lifeVars)
  <1>1. ASSUME NEW g \in Handlers, evt'[g] = "none" <=> evt[g] = "none", once'[g] = "open" <=> once[g] = "open",
               evt[g] # "none" /\ once[g] # "open" => (Here(g)' <=> Here(g))
        PROVE  lifeOf'[g] = lifeOf[g]
    BY <1>1 DEF MapOK
  <1>2. ASSUME \A g \in Handlers : lifeOf'[g] = lifeOf[g] PROVE lifeOf' = lifeOf
    BY <1>2 DEF MapOK
  <1>3. ASSUME lifeOf' = lifeOf, cur' = cur, ran' = ran PROVE Goal
    BY <1>3 DEF Life!lifeVars
  <1>4. NoHandler \notin Handlers /\ Tasks \subseteq Handlers
    BY EPollAssumption, EventLoopAssumption
  <1>5. CASE Same
    <2>1. \A g \in Handlers : Here(g)' <=> Here(g)
      BY <1>5 DEF Same, Here, Registered
    <2> QED BY <1>1, <1>2, <1>3, <1>5, <2>1 DEF Same
  <1>6. ASSUME NEW c \in Callers, NEW h \in Handlers, Attach(c, h) \/ Execute(c, h) PROVE Goal
    <2>1. /\ UNCHANGED <<adds, removes, events, evt, once, cur, posted, ran>>
          /\ \A g \in Handlers : Attaching(g)' <=> Attaching(g)
      BY <1>6, AttachStep
    <2>2. \A g \in Handlers : Here(g)' <=> Here(g)
      BY <2>1 DEF Here, Registered
    <2> QED BY <1>1, <1>2, <1>3, <2>1, <2>2
  <1>7. ASSUME NEW c \in Callers, CreateEvent(c) \/ AssignEvent(c) PROVE Goal
    <2>1. PICK h \in Handlers :
            /\ Coming(h) /\ Attaching(h)' /\ evt[h] # "assigned" /\ evt'[h] # "none"
            /\ (evt[h] # "none" => Attaching(h))
            /\ \A g \in Handlers : g # h => evt'[g] = evt[g] /\ (Attaching(g)' <=> Attaching(g))
            /\ UNCHANGED <<adds, removes, events, once, cur, posted, ran>>
            /\ \A g \in Handlers : Coming(g)' <=> Coming(g)
      BY <1>7, MakeStep
    <2>2. \A g \in Handlers : g # h => lifeOf'[g] = lifeOf[g]
      <3>1. \A g \in Handlers : g # h => (Here(g)' <=> Here(g))
        BY <2>1 DEF Here, Registered
      <3> QED BY <1>1, <2>1, <3>1
    <2>3. CASE evt[h] = "none"
      <3>1. lifeOf[h] = "new" /\ once[h] = "open" /\ lifeOf'[h] = "attached"
        BY <2>1, <2>3 DEF MapOK, RegInv, TableInv
      <3>2. lifeOf' = [lifeOf EXCEPT ![h] = "attached"]
        BY <2>2, <3>1 DEF MapOK
      <3>3. Life!Attach(h)
        BY <2>1, <3>1, <3>2 DEF Life!Attach
      <3> QED BY <3>3 DEF Life!LifeNext
    <2>4. CASE evt[h] # "none"
      <3>1. Here(h) /\ Here(h)'
        BY <2>1, <2>4 DEF Here
      <3>2. lifeOf'[h] = lifeOf[h]
        BY <1>1, <2>1, <2>4, <3>1
      <3> QED BY <1>2, <1>3, <2>1, <2>2, <3>2
    <2> QED BY <2>3, <2>4
  <1>8. ASSUME NEW c \in Callers, Add(c) PROVE Goal
    <2>1. PICK h \in Handlers :
            /\ Attaching(h) /\ adds' = Append(adds, h) /\ removes' = removes
            /\ UNCHANGED <<events, evt, once, cur, ran>>
            /\ \A g \in Handlers : Attaching(g)' <=> Attaching(g) /\ g # h
      BY <1>8, AddStep
    <2>2. \A x : Holds(adds', x) <=> Holds(adds, x) \/ x = h
      BY <2>1, AppendHolds, VectorTypes DEF LoopTypeOK
    <2>3. \A g \in Handlers : Here(g)' <=> Here(g)
      BY <2>1, <2>2 DEF Here, Registered
    <2> QED BY <1>1, <1>2, <1>3, <2>1, <2>3
  <1>9. ASSUME NEW c \in Callers, CloseOnce(c) PROVE Goal
    <2>1. PICK h \in Handlers :
            /\ evt[h] # "none" /\ UNCHANGED <<adds, removes, events, evt, cur, ran>>
            /\ \/ once[h] = "open" /\ once' = [once EXCEPT ![h] = "running"]
               \/ UNCHANGED once
            /\ \A g \in Handlers : Attaching(g)' <=> Attaching(g)
      BY <1>9, CloseStep
    <2>2. CASE UNCHANGED once
      <3>1. \A g \in Handlers : Here(g)' <=> Here(g)
        BY <2>1, <2>2 DEF Here, Registered
      <3> QED BY <1>1, <1>2, <1>3, <2>1, <2>2, <3>1
    <2>3. CASE once[h] = "open" /\ once' = [once EXCEPT ![h] = "running"]
      <3>1. once'[h] = "running" /\ \A g \in Handlers : g # h => once'[g] = once[g]
        BY <2>3 DEF LoopTypeOK
      <3>2. \A g \in Handlers : g # h => lifeOf'[g] = lifeOf[g]
        <4>1. \A g \in Handlers : g # h => (Here(g)' <=> Here(g))
          BY <2>1, <3>1 DEF Here, Registered
        <4> QED BY <1>1, <2>1, <3>1, <4>1
      <3>3. Here(h)' /\ lifeOf[h] = "attached"
        BY <2>1, <2>3, <3>1 DEF Here, MapOK
      <3>4. lifeOf'[h] = "closing"
        BY <2>1, <3>1, <3>3 DEF MapOK
      <3>5. lifeOf' = [lifeOf EXCEPT ![h] = "closing"]
        BY <3>2, <3>4 DEF MapOK
      <3>6. Life!Close(h)
        BY <2>1, <3>3, <3>5 DEF Life!Close
      <3> QED BY <3>6 DEF Life!LifeNext
    <2> QED BY <2>1, <2>2, <2>3
  <1>10. ASSUME NEW c \in Callers, PostRemove(c) PROVE Goal
    <2>1. PICK h \in Handlers :
            /\ once[h] = "running" /\ once' = [once EXCEPT ![h] = "done"]
            /\ UNCHANGED <<adds, events, evt, cur, ran>>
            /\ \A x : Holds(removes', x) <=> Holds(removes, x) \/ x = h
            /\ \A g \in Handlers : Attaching(g)' <=> Attaching(g)
      BY <1>10, RemoveStep
    <2>2. once'[h] = "done" /\ \A g \in Handlers : g # h => once'[g] = once[g]
      BY <2>1 DEF LoopTypeOK
    <2>3. \A g \in Handlers : Here(g)' <=> Here(g)
      BY <2>1, <2>2 DEF Here, Registered
    <2> QED BY <1>1, <1>2, <1>3, <2>1, <2>2, <2>3
  <1>11. CASE Callback
    <2>1. /\ cur = NoHandler /\ UNCHANGED <<evt, once>> /\ removes' = removes
          /\ \A g \in Handlers : Attaching(g)' <=> Attaching(g)
      BY <1>11, CallbackStep
    <2>2. ASSUME NEW h \in Handlers, cur' = h, lifeOf' = lifeOf, Registered(h) \/ Holds(adds, h), h \notin ToSet(ran),
                 ToSet(ran') = ToSet(ran) \cup ({h} \cap Tasks)
          PROVE  Goal
      <3>1. evt[h] # "none" /\ Here(h)
        BY <2>2 DEF RegInv, PostInv, Here
      <3>2. lifeOf[h] \in {"attached", "closing"}
        BY <3>1 DEF MapOK
      <3>3. Life!Serve(h)
        BY <2>1, <2>2, <3>2 DEF Life!Serve
      <3> QED BY <3>3 DEF Life!LifeNext
    <2>3. CASE /\ UNCHANGED <<adds, events, ran>>
               /\ cur' = NoHandler \/ (cur' \in Handlers \ Tasks /\ Registered(cur'))
      <3>1. \A g \in Handlers : Here(g)' <=> Here(g)
        BY <1>4, <2>1, <2>3 DEF Here, Registered
      <3>2. lifeOf' = lifeOf
        BY <1>1, <1>2, <2>1, <3>1
      <3>3. CASE cur' = NoHandler
        BY <1>3, <2>1, <2>3, <3>2, <3>3
      <3>4. CASE cur' \in Handlers \ Tasks /\ Registered(cur')
        <4>1. PICK h \in Handlers \ Tasks : h = cur'
          BY <3>4
        <4>2. Registered(h)
          BY <3>4, <4>1 DEF Registered
        <4>3. \A i \in 1..Len(ran) : ran[i] \in Tasks
          BY ElementOfSeq DEF LoopTypeOK
        <4>4. h \notin ToSet(ran)
          BY <4>1, <4>3 DEF ToSet
        <4> QED BY <2>2, <2>3, <3>2, <4>1, <4>2, <4>4
      <3> QED BY <2>3, <3>3, <3>4
    <2>4. ASSUME NEW h \in Handlers, adds = <<h>> \o adds', adds' \in Seq(Handlers),
                 \/ h \in Tasks /\ UNCHANGED events /\ cur' = h /\ ran' = Append(ran, h)
                 \/ /\ h \notin Tasks /\ UNCHANGED ran /\ cur' = NoHandler
                    /\ \A g \in Handlers : Registered(g)' <=> Registered(g) \/ g = h
          PROVE  Goal
      <3>1. \A x : Holds(adds, x) <=> Holds(adds', x) \/ x = h
        BY <2>4, TakeFirst
      <3>2. CASE h \in Tasks /\ UNCHANGED events /\ cur' = h /\ ran' = Append(ran, h)
        <4>1. \A g \in Handlers : Here(g)' <=> Here(g)
          BY <1>4, <2>1, <3>1, <3>2 DEF Here, Registered
        <4>2. lifeOf' = lifeOf
          BY <1>1, <1>2, <2>1, <4>1
        <4>3. 1 \in 1..Len(adds) /\ adds[1] = h
          BY <2>4, ConsHolds
        <4>4. ran \in Seq(Tasks) /\ posted \in Seq(Tasks)
          BY DEF LoopTypeOK
        <4>5. h \notin ToSet(ran)
          BY <3>2, <4>3, <4>4, NotRun
        <4>6. ToSet(ran') = ToSet(ran) \cup ({h} \cap Tasks)
          <5>1. \A x : Holds(Append(ran, h), x) <=> Holds(ran, x) \/ x = h
            BY <3>2, <4>4, AppendHolds
          <5>2. \A x, q : x \in ToSet(q) <=> Holds(q, x)
            BY DEF ToSet, Holds
          <5> QED BY <3>2, <5>1, <5>2
        <4> QED BY <2>2, <3>1, <3>2, <4>2, <4>5, <4>6
      <3>3. CASE /\ h \notin Tasks /\ UNCHANGED ran /\ cur' = NoHandler
                 /\ \A g \in Handlers : Registered(g)' <=> Registered(g) \/ g = h
        <4>1. \A g \in Handlers : Here(g)' <=> Here(g)
          BY <2>1, <3>1, <3>3 DEF Here
        <4> QED BY <1>1, <1>2, <1>3, <2>1, <3>3, <4>1
      <3> QED BY <2>4, <3>2, <3>3
    <2> QED BY <1>11, <2>3, <2>4, CallbackStep
  <1>12. CASE EndCallback \/ EndTask
    <2>1. /\ cur \in Handlers /\ cur' = NoHandler /\ UNCHANGED <<adds, removes, events, evt, once, ran>>
          /\ \A g \in Handlers : Attaching(g)' <=> Attaching(g)
      BY <1>12, ReturnStep
    <2>2. ASSUME NEW g \in Handlers, g = cur, once[g] # "open" PROVE Here(g)'
      <3>1. CASE g \in Tasks
        <4>1. once[g] = "running" \/ Holds(removes, g)
          BY <2>2, <3>1 DEF LeaveInv, LoopTypeOK
        <4> QED BY <2>1, <4>1 DEF Here
      <3>2. CASE g \notin Tasks
        <4>1. Registered(g)
          BY <1>4, <2>2, <3>2, EventLoopAssumption DEF CalledWhileRegistered
        <4>2. Registered(g)'
          BY <2>1, <4>1 DEF Registered
        <4> QED BY <4>2 DEF Here
      <3> QED BY <3>1, <3>2
    <2>3. \A g \in Handlers : once[g] # "open" => (Here(g)' <=> Here(g))
      BY <1>4, <2>1, <2>2 DEF Here, Registered
    <2>4. lifeOf' = lifeOf
      BY <1>1, <1>2, <2>1, <2>3
    <2>5. Life!Return
      BY <1>4, <2>1, <2>4 DEF Life!Return
    <2> QED BY <2>5 DEF Life!LifeNext
  <1>13. ASSUME NEW h \in Handlers, RemoveFinalize(h), Quiet PROVE Goal
    <2>1. /\ cur = NoHandler /\ UNCHANGED <<adds, evt, once, cur, ran>>
          /\ \A g \in Handlers : Holds(removes, g) <=> Holds(removes', g) \/ g = h
          /\ once[h] = "done" /\ evt[h] # "none"
          /\ \A g \in Handlers : g # h => (Registered(g)' <=> Registered(g))
          /\ \A g \in Handlers : Attaching(g)' <=> Attaching(g)
      BY <1>13, TakeOutStep
    <2>2. \A g \in Handlers : g # h => lifeOf'[g] = lifeOf[g]
      <3>1. \A g \in Handlers : g # h => (Here(g)' <=> Here(g))
        BY <2>1 DEF Here
      <3> QED BY <1>1, <2>1, <3>1
    <2>3. Here(h) /\ lifeOf[h] = "closing"
      BY <2>1 DEF Here, MapOK
    <2>4. CASE Here(h)'
      <3>1. lifeOf'[h] = lifeOf[h]
        BY <1>1, <2>1, <2>3, <2>4
      <3> QED BY <1>2, <1>3, <2>1, <2>2, <3>1
    <2>5. CASE ~Here(h)'
      <3>1. lifeOf'[h] = "closed"
        BY <2>1, <2>5 DEF MapOK
      <3>2. lifeOf' = [lifeOf EXCEPT ![h] = "closed"]
        BY <2>2, <3>1 DEF MapOK
      <3>3. Life!Forget(h)
        BY <1>4, <2>1, <2>3, <3>2 DEF Life!Forget
      <3> QED BY <3>3 DEF Life!LifeNext
    <2> QED BY <2>4, <2>5
  <1> QED BY <1>5, <1>6, <1>7, <1>8, <1>9, <1>10, <1>11, <1>12, <1>13, SameStep

\* The loop keeps the promise of EventLife: HandleEvents runs only between Attach and the end
\* of Close, one call at a time and once for a function (event_loop.cc:92-111, 143-162,
\* 227-241; event.cc:49-54), whatever threads attach, cancel, drop and stop.
THEOREM LoopImplementsLife == LoopSpec => ImplementsLife
  <1>1. ASSUME LoopInit, MapOK PROVE Life!LifeInit
    <2>1. lifeOf = [h \in Handlers |-> "new"]
      BY <1>1 DEF LoopInit, MapOK
    <2>2. ToSet(ran) = {}
      BY <1>1 DEF LoopInit, ToSet
    <2> QED BY <1>1, <2>1, <2>2 DEF LoopInit, Init, Life!LifeInit
  <1>2. /\ LoopTypeOK /\ RegInv /\ RegInv' /\ FiledByHandle /\ CalledWhileRegistered /\ OrderInv /\ LeaveInv
        /\ MapOK /\ MapOK' /\ [LoopNext]_vars
        => [Life!LifeNext]_(Life!lifeVars)
    <2> SUFFICES ASSUME LoopTypeOK, RegInv, RegInv', FiledByHandle, CalledWhileRegistered, OrderInv, LeaveInv, MapOK,
                        MapOK', [LoopNext]_vars
                 PROVE  [Life!LifeNext]_(Life!lifeVars)
      OBVIOUS
    <2>1. CASE LoopNext
      BY <2>1, LifeStep
    <2>2. CASE UNCHANGED vars
      <3>1. UNCHANGED <<evt, once, frame, events, cur, ran, pending, stage, turn, work, pos>>
        BY <2>2 DEF vars, epollVars, handlerVars, history
      <3>2. lifeOf' = lifeOf
        BY <3>1 DEF lifeOf, Leaving, Registered, Due, Current, Attaching
      <3> QED BY <3>1, <3>2 DEF Life!lifeVars
    <2> QED BY <2>1, <2>2
  <1> QED BY <1>1, <1>2, LoopRegInv, LoopTypeCorrect, LoopImplementsEPoll, EPollFiledByHandle, LoopOrderInv, LoopLeaveInv,
             LoopMapOK, PTL DEF LoopSpec, ImplementsEPoll, ImplementsLife, Life!LifeSpec
=============================================================================
