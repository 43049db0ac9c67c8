--------------------------- MODULE LoopTableProofs ---------------------------
(***************************************************************************)
(* Proofs about LoopTable, for any number of loops, threads and calls.     *)
(***************************************************************************)
EXTENDS LoopTable, WellFoundedInduction, TLAPS

Creating(t)   == call[t] \in {"start", "assign"}
Stopping(t)   == call[t] \in {"stop", "join"}
Destroying(t) == call[t] \in {"next", "stop", "join"}

\* A loop is in one place: not yet created, in the table, or taken by one DestroyAll.
OnePlace ==
  /\ table \subseteq created
  /\ \A t \in Threads : taken[t] \subseteq created \ table
  /\ \A t, u \in Threads : t # u => taken[t] \cap taken[u] = {}
  /\ \A t \in Threads : ~Destroying(t) => taken[t] = {}

\* A loop on its way through Create has no thread_; any other has one.
CreateShape ==
  /\ thread \subseteq created
  /\ \A t \in Threads : Creating(t) => arg[t] \in created \ thread
  /\ \A t \in Threads : call[t] = "start" => run[arg[t]] = "off"
  /\ \A t, u \in Threads : Creating(t) /\ Creating(u) /\ t # u => arg[t] # arg[u]
  /\ \A l \in created \ thread : \E t \in Threads : Creating(t) /\ arg[t] = l
  /\ \A l \in Loops \ created : run[l] = "off"

\* Only a callback calls anything on a loop thread.
CallsInCallbacks == \A l \in Loops : call[l] # "idle" => run[l] = "callback"

\* A loop that has taken others is not in the table, and takes later than whoever
\* has taken it.
TakenInOrder ==
  /\ \A t \in Threads : taking[t] <= destroys
  /\ \A l \in table : taken[l] = {}
  /\ \A t \in Threads, l \in Loops :
       l \in taken[t] /\ l # t /\ taken[l] # {} => taking[t] < taking[l]

\* What DestroyAll has iterated over is joined, and nothing else is.
JoinedInTurn ==
  /\ \A l \in joined : run[l] = "ended" /\ l \notin table
  /\ \A t \in Threads : left[t] \cap joined = {}
  /\ \A t \in Threads : Stopping(t) => arg[t] \notin joined \cup left[t]
  /\ \A t \in Threads : \A l \in taken[t] \ left[t] :
       l \in joined \/ (Stopping(t) /\ arg[t] = l)
  /\ \A l \in created : l \in table \/ l \in joined \/ \E t \in Threads : l \in taken[t]

TableInv ==
  /\ TableTypeOK /\ OnePlace /\ CreateShape /\ CallsInCallbacks
  /\ TakenInOrder /\ JoinedInTurn /\ FaultsExplained

-----------------------------------------------------------------------------
(* The invariant holds at first, and every action preserves it.            *)

\* At first there is no loop.
LEMMA TableInitInv == ASSUME TableInit PROVE TableInv
  BY TableAssumption DEF TableInit, TableInv, TableTypeOK, OnePlace, CreateShape,
     CallsInCallbacks, TakenInOrder, JoinedInTurn, FaultsExplained, Creating, Stopping,
     Destroying, Threads

\* The thread of a new loop starts.
LEMMA StartThreadInv ==
  ASSUME TableInv, fault = "none", NEW t \in Threads, StartThread(t)
  PROVE  TableInv'
  <1> USE DEF StartThread, TableInv, loopVars, callVars, Threads
  <1>1. (TableTypeOK /\ OnePlace /\ TakenInOrder /\ FaultsExplained)'
    BY DEF TableTypeOK, OnePlace, Destroying, TakenInOrder, FaultsExplained
  <1>2. CreateShape'
    BY DEF TableTypeOK, CreateShape, Creating
  <1>3. CallsInCallbacks'
    BY DEF CreateShape, CallsInCallbacks
  <1>4. JoinedInTurn'
    BY DEF CreateShape, JoinedInTurn, Stopping
  <1> QED BY <1>1, <1>2, <1>3, <1>4

\* thread_ is assigned: the loop leaves CreateShape.
LEMMA AssignThreadInv ==
  ASSUME TableInv, fault = "none", NEW t \in Threads, AssignThread(t)
  PROVE  TableInv'
  <1> USE DEF AssignThread, TableInv, loopVars, callVars, Threads
  <1>1. (OnePlace /\ CallsInCallbacks /\ TakenInOrder /\ JoinedInTurn /\ FaultsExplained)'
    BY DEF OnePlace, Destroying, CallsInCallbacks, TakenInOrder, JoinedInTurn, Stopping,
       FaultsExplained
  <1>2. TableTypeOK'
    BY DEF TableTypeOK, CreateShape, Creating
  <1>3. CreateShape'
    BY DEF TableTypeOK, CreateShape, Creating
  <1> QED BY <1>1, <1>2, <1>3

\* The next loop of table_swap.
LEMMA StopInv ==
  ASSUME TableInv, fault = "none", NEW t \in Threads, NEW l \in Loops, Stop(t, l)
  PROVE  TableInv'
  <1> USE DEF Stop, TableInv, loopVars, callVars, Threads
  <1>1. (TableTypeOK /\ OnePlace /\ CreateShape /\ CallsInCallbacks /\ TakenInOrder /\
        FaultsExplained)'
    BY DEF TableTypeOK, OnePlace, Destroying, CreateShape, Creating, CallsInCallbacks,
       TakenInOrder, FaultsExplained
  <1>2. JoinedInTurn'
    BY DEF TableTypeOK, JoinedInTurn, Stopping
  <1> QED BY <1>1, <1>2

\* join() starts, and fails as FaultsExplained says.
LEMMA BeginJoinInv ==
  ASSUME TableInv, fault = "none", NEW t \in Threads, BeginJoin(t)
  PROVE  TableInv'
  <1> USE DEF BeginJoin, JoinFault, TableInv, loopVars, callVars, Threads
  <1>1. (TableTypeOK /\ OnePlace /\ CreateShape /\ CallsInCallbacks /\ TakenInOrder /\
        JoinedInTurn)'
    BY DEF TableTypeOK, OnePlace, Destroying, CreateShape, Creating, CallsInCallbacks,
       TakenInOrder, JoinedInTurn, Stopping
  <1>2. FaultsExplained'
    BY DEF TableTypeOK, OnePlace, CreateShape, CallsInCallbacks, JoinedInTurn,
       FaultsExplained, Creating, Stopping
  <1> QED BY <1>1, <1>2

\* join() returns: the loop thread has ended.
LEMMA EndJoinInv ==
  ASSUME TableInv, fault = "none", NEW t \in Threads, EndJoin(t)
  PROVE  TableInv'
  <1> USE DEF EndJoin, TableInv, loopVars, callVars, Threads
  <1>1. (TableTypeOK /\ OnePlace /\ CreateShape /\ CallsInCallbacks /\ TakenInOrder /\
        FaultsExplained)'
    BY DEF TableTypeOK, OnePlace, Destroying, CreateShape, Creating, CallsInCallbacks,
       TakenInOrder, FaultsExplained
  <1>2. JoinedInTurn'
    BY DEF TableTypeOK, OnePlace, JoinedInTurn, Stopping
  <1> QED BY <1>1, <1>2

\* All of table_swap was joined.
LEMMA ClearInv ==
  ASSUME TableInv, fault = "none", NEW t \in Threads, Clear(t)
  PROVE  TableInv'
  <1> USE DEF Clear, TableInv, loopVars, callVars, Threads
  <1>1. (TableTypeOK /\ CreateShape /\ CallsInCallbacks /\ TakenInOrder /\ JoinedInTurn /\
        FaultsExplained)'
    BY DEF TableTypeOK, CreateShape, Creating, CallsInCallbacks, TakenInOrder,
       JoinedInTurn, Stopping, FaultsExplained
  <1>2. OnePlace'
    BY DEF TableTypeOK, OnePlace, Destroying
  <1> QED BY <1>1, <1>2

\* The table changes hands.
LEMMA DestroyAllInv ==
  ASSUME TableInv, fault = "none", NEW t \in Threads, DestroyAll(t)
  PROVE  TableInv'
  <1> USE DEF DestroyAll, TableInv, loopVars, callVars, Threads
  <1>1. FaultsExplained'
    BY DEF FaultsExplained
  <1>2. TableTypeOK'
    BY TableAssumption DEF TableTypeOK
  <1>3. OnePlace'
    BY DEF TableTypeOK, OnePlace, Destroying
  <1>4. CreateShape'
    BY DEF CreateShape, Creating, MayCall
  <1>5. CallsInCallbacks'
    BY TableAssumption DEF CallsInCallbacks, MayCall, InCallback
  <1>6. TakenInOrder'
    BY DEF TableTypeOK, TakenInOrder
  <1>7. JoinedInTurn'
    BY DEF TableTypeOK, OnePlace, JoinedInTurn, Stopping, Destroying, MayCall
  <1> QED BY <1>1, <1>2, <1>3, <1>4, <1>5, <1>6, <1>7

\* A new loop in the table.
LEMMA CreateInv ==
  ASSUME TableInv, fault = "none", NEW t \in Threads, NEW l \in Loops, Create(t, l)
  PROVE  TableInv'
  <1> USE DEF Create, TableInv, loopVars, callVars, Threads
  <1>1. (TableTypeOK /\ FaultsExplained)'
    BY DEF TableTypeOK, FaultsExplained
  <1>2. OnePlace'
    BY DEF OnePlace, Destroying, MayCall
  <1>3. CreateShape'
    <2>1. arg[t] # l \/ ~Creating(t)
      BY DEF MayCall, Creating
    <2>2. \A u \in Threads : u # t => (Creating(u)' <=> Creating(u)) /\ arg'[u] = arg[u]
      BY DEF Creating, TableTypeOK
    <2>3. Creating(t)' /\ arg'[t] = l /\ run'[l] = "off"
      BY DEF Creating, TableTypeOK, CreateShape
    <2>4. l \notin thread
      BY DEF CreateShape
    <2>5. \A k \in created' \ thread' : \E u \in Threads : Creating(u)' /\ arg'[u] = k
      BY <2>2, <2>3 DEF CreateShape, MayCall, Creating
    <2> QED BY <2>2, <2>3, <2>4, <2>5 DEF CreateShape, Creating, MayCall, TableTypeOK
  <1>4. CallsInCallbacks'
    BY TableAssumption DEF CallsInCallbacks, MayCall, InCallback
  <1>5. TakenInOrder'
    BY DEF OnePlace, CreateShape, CallsInCallbacks, TakenInOrder, Destroying
  <1>6. JoinedInTurn'
    BY DEF CreateShape, JoinedInTurn, Stopping, MayCall
  <1> QED BY <1>1, <1>2, <1>3, <1>4, <1>5, <1>6

\* The program lets go of a loop.
LEMMA ReleaseInv ==
  ASSUME TableInv, fault = "none", NEW l \in Loops, Release(l)
  PROVE  TableInv'
  <1> USE DEF Release, TableInv, loopVars, callVars, Threads
  <1>1. (TableTypeOK /\ OnePlace /\ CreateShape /\ CallsInCallbacks /\ TakenInOrder /\
        JoinedInTurn /\ FaultsExplained)'
    BY DEF TableTypeOK, OnePlace, Destroying, CreateShape, Creating, CallsInCallbacks,
       TakenInOrder, JoinedInTurn, Stopping, FaultsExplained
  <1> QED BY <1>1

\* A callback starts.
LEMMA EnterCallbackInv ==
  ASSUME TableInv, fault = "none", NEW l \in Loops, EnterCallback(l)
  PROVE  TableInv'
  <1> USE DEF EnterCallback, TableInv, loopVars, callVars, Threads
  <1>1. (TableTypeOK /\ OnePlace /\ CreateShape /\ CallsInCallbacks /\ TakenInOrder /\
        JoinedInTurn /\ FaultsExplained)'
    BY DEF TableTypeOK, OnePlace, Destroying, CreateShape, Creating, CallsInCallbacks,
       TakenInOrder, JoinedInTurn, Stopping, FaultsExplained
  <1> QED BY <1>1

\* A callback without a call in progress returns.
LEMMA LeaveCallbackInv ==
  ASSUME TableInv, fault = "none", NEW l \in Loops, LeaveCallback(l)
  PROVE  TableInv'
  <1> USE DEF LeaveCallback, TableInv, loopVars, callVars, Threads
  <1>1. (TableTypeOK /\ OnePlace /\ CreateShape /\ CallsInCallbacks /\ TakenInOrder /\
        JoinedInTurn /\ FaultsExplained)'
    BY DEF TableTypeOK, OnePlace, Destroying, CreateShape, Creating, CallsInCallbacks,
       TakenInOrder, JoinedInTurn, Stopping, FaultsExplained
  <1> QED BY <1>1

\* A loop thread ends.
LEMMA EndRunInv ==
  ASSUME TableInv, fault = "none", NEW l \in Loops, EndRun(l)
  PROVE  TableInv'
  <1> USE DEF EndRun, TableInv, loopVars, callVars, Threads
  <1>1. (TableTypeOK /\ OnePlace /\ CreateShape /\ CallsInCallbacks /\ TakenInOrder /\
        JoinedInTurn /\ FaultsExplained)'
    BY DEF TableTypeOK, OnePlace, Destroying, CreateShape, Creating, CallsInCallbacks,
       TakenInOrder, JoinedInTurn, Stopping, FaultsExplained
  <1> QED BY <1>1

-----------------------------------------------------------------------------
(* The theorems.                                                           *)

\* Every step of the table, its callers and its loop threads keeps the invariant.
LEMMA TableInductive == ASSUME TableInv, [TableNext]_tableVars PROVE TableInv'
  <1>1. CASE UNCHANGED tableVars
    BY <1>1 DEF tableVars, loopVars, callVars, TableInv, TableTypeOK, OnePlace, CreateShape,
       CallsInCallbacks, TakenInOrder, JoinedInTurn, FaultsExplained, Creating, Stopping,
       Destroying
  <1>2. CASE fault = "none" /\ \E t \in Threads : CallStep(t)
    BY <1>2, StartThreadInv, AssignThreadInv, StopInv, BeginJoinInv, EndJoinInv, ClearInv
       DEF CallStep
  <1>3. CASE fault = "none" /\ \E t \in Threads : DestroyAll(t) \/ \E l \in Loops : Create(t, l)
    BY <1>3, DestroyAllInv, CreateInv
  <1>4. CASE fault = "none" /\ \E l \in Loops :
               Release(l) \/ EnterCallback(l) \/ LeaveCallback(l) \/ EndRun(l)
    BY <1>4, ReleaseInv, EnterCallbackInv, LeaveCallbackInv, EndRunInv
  <1> QED BY <1>1, <1>2, <1>3, <1>4 DEF TableNext

\* The invariant holds in every state that Create, DestroyAll and Run come to.
THEOREM TableInvariant == TableSpec => []TableInv
  BY TableInitInv, TableInductive, PTL DEF TableSpec

\* Every variable of the table, its loops and their callers keeps its type.
THEOREM TableTypeCorrect == TableSpec => []TableTypeOK
  <1>1. TableInv => TableTypeOK BY DEF TableInv
  <1> QED BY <1>1, TableInvariant, PTL

\* A loop is destroyed only after its thread has ended and was joined
\* (event_loop.cc:31-34).
THEOREM TableLoopOutlivesRun == TableSpec => []LoopOutlivesRun
  <1>1. TableInv => LoopOutlivesRun
    BY DEF TableInv, JoinedInTurn, LoopOutlivesRun, Alive
  <1> QED BY <1>1, TableInvariant, PTL

\* The exceptions and the null pointer of join() have no other cause than the two
\* that FaultsExplained names (event_loop.cc:62).
THEOREM TableFaultsExplained == TableSpec => []FaultsExplained
  <1>1. TableInv => FaultsExplained BY DEF TableInv
  <1> QED BY <1>1, TableInvariant, PTL

\* A set of numbers that is not empty has a least element.
LEMMA LeastElement ==
  ASSUME NEW T \in SUBSET Nat, T # {}
  PROVE  \E x \in T : \A y \in T : x <= y
  <1>1. PICK x \in T : \A y \in T : <<y, x>> \notin OpToRel(<, Nat)
    BY WFMin, NatLessThanWellFounded
  <1>2. \A y \in T : ~(y < x)
    BY <1>1 DEF OpToRel
  <1> QED BY <1>2

\* The threads of a set that all have taken loops: the one that took last waits for
\* none of the others.
LEMMA LastTakes ==
  ASSUME TableInv, NEW S \in SUBSET Threads, S # {}
  PROVE  \E t \in S : \A l \in S \cap Loops : ~WaitsFor(t, l)
  <1>1. CASE \E t \in S : taken[t] = {}
    BY <1>1 DEF TableInv, TableTypeOK, WaitsFor, Threads
  <1>2. CASE \A t \in S : taken[t] # {}
    <2> DEFINE Ranks == {MaxDestroys - taking[t] : t \in S}
    <2>1. Ranks \in SUBSET Nat /\ Ranks # {}
      BY TableAssumption DEF TableInv, TableTypeOK
    <2>2. PICK r \in Ranks : \A q \in Ranks : r <= q
      BY <2>1, LeastElement
    <2>3. PICK t \in S : r = MaxDestroys - taking[t]
      BY <2>2
    <2>4. \A u \in S : taking[u] <= taking[t]
      BY <2>2, <2>3, TableAssumption DEF TableInv, TableTypeOK
    <2>5. \A l \in S \cap Loops : ~WaitsFor(t, l)
      BY <1>2, <2>4, TableAssumption DEF TableInv, TableTypeOK, TakenInOrder, WaitsFor, Threads
    <2> QED BY <2>5
  <1> QED BY <1>1, <1>2

\* DestroyAll on any threads never waits in a circle (event_loop.cc:27-33): its
\* invariant is TakenInOrder, since a circle would have each thread take before itself.
THEOREM TableNoCircularJoin == TableSpec => []NoCircularJoin
  <1>1. TableInv => NoCircularJoin
    BY LastTakes DEF NoCircularJoin
  <1> QED BY <1>1, TableInvariant, PTL
=============================================================================
