----------------------------- MODULE EPollProofs -----------------------------
(***************************************************************************)
(* Type correctness of EPoll, and the inductive invariants behind          *)
(* NoLostWakeup and CalledWhileRegistered, for every set of handlers and   *)
(* descriptors and every behaviour of the clients.                         *)
(***************************************************************************)
EXTENDS EPoll, TLAPS, SequenceTheorems

USE EPollAssumption

\* Every variable of EPoll keeps its type, whatever its clients post.
LEMMA EPollTypeInductive ==
  (Init => TypeOK) /\ (TypeOK /\ [EPollNext]_epollVars => TypeOK')
<1>1. Init => TypeOK
  <2> SUFFICES ASSUME Init PROVE TypeOK
    OBVIOUS
  <2>1. pending \in [Lists -> Seq(Handlers)] /\ work \in Seq(Handlers)
    BY DEF Init
  <2>2. events \in [Fds -> Handlers \cup {NoHandler}]
    BY DEF Init
  <2>3. efd \in BOOLEAN
    BY Zenon DEF Init
  <2>4. QED
    BY <2>1, <2>2, <2>3 DEF Init, TypeOK, Stages, Faults
<1>2. TypeOK /\ [EPollNext]_epollVars => TypeOK'
  <2> SUFFICES ASSUME TypeOK, [EPollNext]_epollVars PROVE TypeOK'
    OBVIOUS
  <2>1. ASSUME NEW l \in Lists, NEW h \in Handlers, AddElement(l, h) PROVE TypeOK'
    <3>1. Append(pending[l], h) \in Seq(Handlers)
      BY AppendProperties DEF TypeOK
    <3>2. pending' \in [Lists -> Seq(Handlers)]
      BY <2>1, <3>1 DEF TypeOK, AddElement
    <3>3. QED
      BY <2>1, <3>2 DEF TypeOK, AddElement, Wakeup, loopVars
  <2>2. CASE WakeupOnly
    BY <2>2 DEF TypeOK, WakeupOnly, Wakeup, loopVars
  <2>3. ASSUME NEW f \in Fds, KernelReady(f) PROVE TypeOK'
    BY <2>3 DEF TypeOK, KernelReady, queueVars, loopVars
  <2>4. CASE EnterProcess
    BY <2>4 DEF TypeOK, EnterProcess, queueVars, Stages
  <2>5. CASE EpollWait
    <3>1. batch' \subseteq (Fds \cup {PendingFd}) \X (Handlers \cup {NoHandler})
      BY <2>5 DEF TypeOK, EpollWait, Reported
    <3>2. QED
      BY <2>5, <3>1 DEF TypeOK, EpollWait, queueVars, Stages
  <2>6. ASSUME NEW b \in batch, NEW alive \in BOOLEAN, TakeFd(b, alive) PROVE TypeOK'
    <3>1. b[1] \in Fds
      BY <2>6 DEF TypeOK, TakeFd
    <3>2. cur' \in Handlers \cup {NoHandler}
      BY <2>6, <3>1 DEF TypeOK, TakeFd, Call
    <3>3. QED
      BY <2>6, <3>2 DEF TypeOK, TakeFd, queueVars
  <2>7. CASE TakePending
    BY <2>7 DEF TypeOK, TakePending, queueVars, Stages
  <2>8. CASE Drain
    <3>1. efd' \in BOOLEAN
      BY <2>8, Zenon DEF Drain
    <3>2. QED
      BY <2>8, <3>1 DEF TypeOK, Drain, Stages
  <2>9. CASE Swap
    <3>1. Current \in Lists
      BY DEF TypeOK, Current, HandleOrder, Lists
    <3>2. pending' \in [Lists -> Seq(Handlers)] /\ work' \in Seq(Handlers)
      BY <2>9, <3>1, EmptySeq DEF TypeOK, Swap
    <3>3. QED
      BY <2>9, <3>2 DEF TypeOK, Swap, Stages
  <2>10. ASSUME NEW h \in Handlers, NEW alive \in BOOLEAN, AddFinalize(h, alive) PROVE TypeOK'
    BY <2>10 DEF TypeOK, AddFinalize, Element, Call, queueVars, Faults
  <2>11. ASSUME NEW h \in Handlers, RemoveFinalize(h) PROVE TypeOK'
    BY <2>11 DEF TypeOK, RemoveFinalize, Element, queueVars, Faults
  <2>12. ASSUME NEW h \in Handlers, NEW alive \in BOOLEAN, ReadyFinalize(h, alive) PROVE TypeOK'
    BY <2>12 DEF TypeOK, ReadyFinalize, Element, Call, queueVars
  <2>13. CASE EndElements
    BY <2>13 DEF TypeOK, EndElements, queueVars, Stages, HandleOrder
  <2>14. CASE LeaveProcess
    BY <2>14 DEF TypeOK, LeaveProcess, queueVars, Stages
  <2>15. ASSUME NEW h \in Handlers, Modify(h) PROVE TypeOK'
    BY <2>15 DEF TypeOK, Modify, queueVars, loopVars, Faults
  <2>16. CASE Return
    BY <2>16 DEF TypeOK, Return, queueVars
  <2>17. CASE UNCHANGED epollVars
    BY <2>17 DEF TypeOK, epollVars
  <2>18. QED
    BY <2>1, <2>2, <2>3, <2>4, <2>5, <2>6, <2>7, <2>8, <2>9, <2>10, <2>11, <2>12,
       <2>13, <2>14, <2>15, <2>16, <2>17 DEF EPollNext, LoopStep
<1>3. QED
  BY <1>1, <1>2

THEOREM EPollTypeCorrect == EPollSpec => []TypeOK
  BY EPollTypeInductive, PTL DEF EPollSpec

-----------------------------------------------------------------------------
\* The eventfd protocol (epoll.cc:122-160): what is in a vector is announced.
THEOREM EPollWakeupInv == EPollSpec => []WakeupInv
<1>1. Init => WakeupInv
  BY DEF Init, WakeupInv, Announced, Covered, BatchShape
<1>2. TypeOK /\ WakeupInv /\ [EPollNext]_epollVars => WakeupInv'
  <2> SUFFICES ASSUME TypeOK, WakeupInv, [EPollNext]_epollVars PROVE WakeupInv'
    OBVIOUS
  <2> USE DEF TypeOK, WakeupInv, Announced, Covered, BatchShape
  <2>1. ASSUME NEW l \in Lists, NEW h \in Handlers, AddElement(l, h) PROVE WakeupInv'
    BY <2>1 DEF Awaited, AddElement, Wakeup, loopVars
  <2>2. CASE WakeupOnly
    BY <2>2 DEF Awaited, WakeupOnly, Wakeup, loopVars
  <2>3. ASSUME NEW f \in Fds, KernelReady(f) PROVE WakeupInv'
    BY <2>3 DEF Awaited, KernelReady, queueVars, loopVars
  <2>4. CASE EnterProcess
    BY <2>4 DEF Awaited, EnterProcess, queueVars
  <2>5. CASE EpollWait
    BY <2>5 DEF Awaited, EpollWait, Reported, queueVars
  <2>6. ASSUME NEW b \in batch, NEW alive \in BOOLEAN, TakeFd(b, alive) PROVE WakeupInv'
    BY <2>6 DEF Awaited, TakeFd, Call, queueVars
  <2>7. CASE TakePending
    BY <2>7 DEF Awaited, TakePending, queueVars
  <2>8. CASE Drain
    <3>1. stage' = "swap" /\ turn' = 1 /\ ~efd' /\ batch' = batch
      BY <2>8, Zenon DEF Drain
    <3>2. \A l \in Lists : Awaited(l)'
      BY <3>1 DEF Awaited, HandleOrder, Lists
    <3>3. <<PendingFd, NoHandler>> \notin batch
      BY <2>8 DEF Drain
    <3>4. QED
      BY <3>1, <3>2, <3>3
  <2>9. CASE Swap
    <3>1. \A l \in Lists : Awaited(l) /\ l # Current => Awaited(l)'
      BY <2>9 DEF Awaited, Swap, Current, HandleOrder, Lists
    <3>2. pending'[Current] = <<>>
      BY <2>9 DEF Swap, Current, HandleOrder, Lists
    <3>3. \A l \in Lists : l # Current => pending'[l] = pending[l]
      BY <2>9 DEF Swap, Current, HandleOrder, Lists
    <3>4. efd' = efd /\ ready' = ready /\ batch' = batch /\ stage = "swap" /\ stage' = "elements"
      BY <2>9 DEF Swap
    <3>5. Covered'
      BY <3>1, <3>2, <3>3, <3>4
    <3>6. QED
      BY <3>4, <3>5
  <2>10. ASSUME NEW h \in Handlers, NEW alive \in BOOLEAN, AddFinalize(h, alive) PROVE WakeupInv'
    BY <2>10 DEF Awaited, AddFinalize, Element, Call, queueVars
  <2>11. ASSUME NEW h \in Handlers, RemoveFinalize(h) PROVE WakeupInv'
    BY <2>11 DEF Awaited, RemoveFinalize, Element, queueVars
  <2>12. ASSUME NEW h \in Handlers, NEW alive \in BOOLEAN, ReadyFinalize(h, alive) PROVE WakeupInv'
    BY <2>12 DEF Awaited, ReadyFinalize, Element, Call, queueVars
  <2>13. CASE EndElements
    <3>1. \A l \in Lists : Awaited(l) => Awaited(l)'
      BY <2>13 DEF Awaited, EndElements, HandleOrder, Lists
    <3>2. QED
      BY <2>13, <3>1 DEF EndElements, queueVars
  <2>14. CASE LeaveProcess
    BY <2>14 DEF Awaited, LeaveProcess, queueVars
  <2>15. ASSUME NEW h \in Handlers, Modify(h) PROVE WakeupInv'
    BY <2>15 DEF Awaited, Modify, queueVars, loopVars
  <2>16. CASE Return
    BY <2>16 DEF Awaited, Return, queueVars
  <2>17. CASE UNCHANGED epollVars
    BY <2>17 DEF Awaited, epollVars
  <2>18. QED
    BY <2>1, <2>2, <2>3, <2>4, <2>5, <2>6, <2>7, <2>8, <2>9, <2>10, <2>11, <2>12,
       <2>13, <2>14, <2>15, <2>16, <2>17 DEF EPollNext, LoopStep
<1>3. QED
  BY <1>1, <1>2, EPollTypeCorrect, PTL DEF EPollSpec

\* The loop thread never blocks in epoll_wait while an element waits in one of the
\* three vectors (AddElement, epoll.cc:122-131, against Process, epoll.cc:147-161).
THEOREM EPollNoLostWakeup == EPollSpec => []NoLostWakeup
<1>1. WakeupInv => NoLostWakeup
  BY DEF WakeupInv, Announced, Covered, BatchShape, Awaited, NoLostWakeup
<1>2. QED
  BY <1>1, EPollWakeupInv, PTL

-----------------------------------------------------------------------------
\* Whoever posts what and whichever handlers are gone, epoll watches a descriptor for an
\* Event of that descriptor, and does while the handler of the Event runs.
THEOREM EPollFiledByHandle == EPollSpec => [](CalledWhileRegistered /\ FiledByHandle)
<1> DEFINE Inv == CalledWhileRegistered /\ FiledByHandle
<1>1. Init => Inv
  BY DEF Init, CalledWhileRegistered, FiledByHandle
<1>2. TypeOK /\ Inv /\ [EPollNext]_epollVars => Inv'
  <2> SUFFICES ASSUME TypeOK, Inv, [EPollNext]_epollVars PROVE Inv'
    OBVIOUS
  <2>1. ASSUME NEW l \in Lists, NEW h \in Handlers, AddElement(l, h) PROVE Inv'
    BY <2>1 DEF TypeOK, CalledWhileRegistered, FiledByHandle, Registered, AddElement, Wakeup, loopVars
  <2>2. CASE WakeupOnly
    BY <2>2 DEF TypeOK, CalledWhileRegistered, FiledByHandle, Registered, WakeupOnly, Wakeup, loopVars
  <2>3. ASSUME NEW f \in Fds, KernelReady(f) PROVE Inv'
    BY <2>3 DEF TypeOK, CalledWhileRegistered, FiledByHandle, Registered, KernelReady, queueVars, loopVars
  <2>4. CASE EnterProcess
    BY <2>4 DEF TypeOK, CalledWhileRegistered, FiledByHandle, Registered, EnterProcess, queueVars
  <2>5. CASE EpollWait
    BY <2>5 DEF TypeOK, CalledWhileRegistered, FiledByHandle, Registered, EpollWait, Reported, queueVars
  <2>6. ASSUME NEW b \in batch, NEW alive \in BOOLEAN, TakeFd(b, alive) PROVE Inv'
    BY <2>6 DEF TypeOK, CalledWhileRegistered, FiledByHandle, Registered, TakeFd, Call, queueVars
  <2>7. CASE TakePending
    BY <2>7 DEF TypeOK, CalledWhileRegistered, FiledByHandle, Registered, TakePending, queueVars
  <2>8. CASE Drain
    BY <2>8 DEF TypeOK, CalledWhileRegistered, FiledByHandle, Registered, Drain
  <2>9. CASE Swap
    BY <2>9 DEF TypeOK, CalledWhileRegistered, FiledByHandle, Registered, Swap
  <2>10. ASSUME NEW h \in Handlers, NEW alive \in BOOLEAN, AddFinalize(h, alive) PROVE Inv'
    BY <2>10 DEF TypeOK, CalledWhileRegistered, FiledByHandle, Registered, AddFinalize, Element, Call, queueVars
  <2>11. ASSUME NEW h \in Handlers, RemoveFinalize(h) PROVE Inv'
    BY <2>11 DEF TypeOK, CalledWhileRegistered, FiledByHandle, Registered, RemoveFinalize, Element, queueVars
  <2>12. ASSUME NEW h \in Handlers, NEW alive \in BOOLEAN, ReadyFinalize(h, alive) PROVE Inv'
    BY <2>12 DEF TypeOK, CalledWhileRegistered, FiledByHandle, Registered, ReadyFinalize, Element, Call, queueVars
  <2>13. CASE EndElements
    BY <2>13 DEF TypeOK, CalledWhileRegistered, FiledByHandle, Registered, EndElements, queueVars
  <2>14. CASE LeaveProcess
    BY <2>14 DEF TypeOK, CalledWhileRegistered, FiledByHandle, Registered, LeaveProcess, queueVars
  <2>15. ASSUME NEW h \in Handlers, Modify(h) PROVE Inv'
    BY <2>15 DEF TypeOK, CalledWhileRegistered, FiledByHandle, Registered, Modify, queueVars, loopVars
  <2>16. CASE Return
    BY <2>16 DEF TypeOK, CalledWhileRegistered, FiledByHandle, Registered, Return, queueVars
  <2>17. CASE UNCHANGED epollVars
    BY <2>17 DEF TypeOK, CalledWhileRegistered, FiledByHandle, Registered, epollVars
  <2>18. QED
    BY <2>1, <2>2, <2>3, <2>4, <2>5, <2>6, <2>7, <2>8, <2>9, <2>10, <2>11, <2>12,
       <2>13, <2>14, <2>15, <2>16, <2>17 DEF EPollNext, LoopStep
<1>3. QED
  BY <1>1, <1>2, EPollTypeCorrect, PTL DEF EPollSpec

\* HandleEvents of a handler with a descriptor runs only while epoll watches the
\* descriptor for its Event (epoll.cc:163-177, 275-284).
THEOREM EPollCalledWhileRegistered == EPollSpec => []CalledWhileRegistered
  BY EPollFiledByHandle, PTL
=============================================================================
