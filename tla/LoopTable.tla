------------------------------ MODULE LoopTable ------------------------------
(***************************************************************************)
(* The table of event loops of a process (lib/event_loop.cc:21-64): every  *)
(* EventLoop::Create enters its loop, and DestroyAll takes all of them out *)
(* and stops them one after the other.  Both may be called by any thread,  *)
(* from a callback on a loop thread too, and are cut where they release    *)
(* table_lock, start a thread or wait for one.                             *)
(*                                                                         *)
(* The thread of loop l is called l.  Of Run only its end is kept: module  *)
(* EventLoop shows that a loop which is told to stop does stop.            *)
(***************************************************************************)
EXTENDS Naturals

CONSTANTS
  Loops,       \* EventLoops that may be created
  Mains,       \* threads that are not loop threads
  NoLoop,
  MaxDestroys  \* bound: calls of DestroyAll

ASSUME TableAssumption ==
  /\ Loops \cap Mains = {}
  /\ NoLoop \notin Loops
  /\ MaxDestroys \in Nat

VARIABLES
  table,   \* the static table
  created, \* loops that were ever constructed
  thread,  \* loops whose thread_ is not null
  held,    \* loops to which the program has a shared_ptr
  run,     \* where the thread of each loop stands
  stop,    \* loops with stop_ set
  joined,  \* loops whose thread was joined
  call,    \* where each thread stands in Create or DestroyAll
  arg,     \* the loop it creates, or stops
  taken,   \* its table_swap
  left,    \* the part of table_swap it has not iterated over
  fault,   \* what ended the process, or "none"
  destroys, taking  \* history: DestroyAlls so far, and the number of each thread's last

loopVars  == <<created, thread, held, run, stop, joined>>
callVars  == <<call, arg, taken, left>>
tableVars == <<table, loopVars, callVars, fault, destroys, taking>>

Threads == Loops \cup Mains

\* Types of the table, the loops and the calls in progress; what is still to be
\* iterated over, and what is being stopped, is in the thread's own table_swap.
TableTypeOK ==
  /\ {table, created, thread, held, stop, joined} \subseteq SUBSET Loops
  /\ run \in [Loops -> {"off", "process", "callback", "ended"}]
  /\ call \in [Threads -> {"idle", "start", "assign", "next", "stop", "join"}]
  /\ arg \in [Threads -> Loops \cup {NoLoop}]
  /\ taken \in [Threads -> SUBSET Loops]
  /\ left \in [Threads -> SUBSET Loops]
  /\ fault \in {"none", "null", "self", "joined"}
  /\ destroys \in 0..MaxDestroys
  /\ taking \in [Threads -> 0..MaxDestroys]
  /\ \A t \in Threads : left[t] \subseteq taken[t]
  /\ \A t \in Threads : call[t] \in {"stop", "join"} => arg[t] \in taken[t]

TableInit ==
  /\ table = {} /\ created = {} /\ thread = {} /\ held = {} /\ stop = {} /\ joined = {}
  /\ run = [l \in Loops |-> "off"]
  /\ call = [t \in Threads |-> "idle"]
  /\ arg = [t \in Threads |-> NoLoop]
  /\ taken = [t \in Threads |-> {}]
  /\ left = [t \in Threads |-> {}]
  /\ fault = "none"
  /\ destroys = 0
  /\ taking = [t \in Threads |-> 0]

InCallback == {l \in Loops : run[l] = "callback"}
MayCall(t) == call[t] = "idle" /\ t \in Mains \cup InCallback

-----------------------------------------------------------------------------
(* Create.                                                                 *)

\* The constructor, and the insertion under table_lock.
Create(t, l) ==
  /\ MayCall(t) /\ l \notin created
  /\ created' = created \cup {l}
  /\ table' = table \cup {l}
  /\ call' = [call EXCEPT ![t] = "start"]
  /\ arg' = [arg EXCEPT ![t] = l]
  /\ UNCHANGED <<thread, held, run, stop, joined, taken, left, fault, destroys, taking>>

\* std::thread starts Run before make_unique returns.
StartThread(t) ==
  /\ call[t] = "start"
  /\ run' = [run EXCEPT ![arg[t]] = "process"]
  /\ call' = [call EXCEPT ![t] = "assign"]
  /\ UNCHANGED <<table, created, thread, held, stop, joined, arg, taken, left, fault, destroys, taking>>

\* The assignment of thread_, and the return of the shared_ptr.
AssignThread(t) ==
  /\ call[t] = "assign"
  /\ thread' = thread \cup {arg[t]}
  /\ held' = held \cup {arg[t]}
  /\ call' = [call EXCEPT ![t] = "idle"]
  /\ UNCHANGED <<table, created, run, stop, joined, arg, taken, left, fault, destroys, taking>>

Release(l) ==
  /\ l \in held
  /\ held' = held \ {l}
  /\ UNCHANGED <<table, created, thread, run, stop, joined, callVars, fault, destroys, taking>>

-----------------------------------------------------------------------------
(* DestroyAll.                                                             *)

\* Mutant: the table is copied and not swapped.
MutantCopyTable(t) ==
  /\ MayCall(t) /\ destroys < MaxDestroys
  /\ taken' = [taken EXCEPT ![t] = table]
  /\ left' = [left EXCEPT ![t] = table]
  /\ call' = [call EXCEPT ![t] = "next"]
  /\ destroys' = destroys + 1
  /\ taking' = [taking EXCEPT ![t] = destroys + 1]
  /\ UNCHANGED <<table, loopVars, arg, fault>>

\* The whole table changes hands under table_lock.
DestroyAll(t) ==
  /\ MayCall(t) /\ destroys < MaxDestroys
  /\ taken' = [taken EXCEPT ![t] = table]
  /\ left' = [left EXCEPT ![t] = table]
  /\ table' = {}
  /\ call' = [call EXCEPT ![t] = "next"]
  /\ destroys' = destroys + 1
  /\ taking' = [taking EXCEPT ![t] = destroys + 1]
  /\ UNCHANGED <<loopVars, arg, fault>>

\* Mutant: stop_ is not set.
MutantNoStop(t, l) ==
  /\ call[t] = "next" /\ l \in left[t]
  /\ left' = [left EXCEPT ![t] = @ \ {l}]
  /\ arg' = [arg EXCEPT ![t] = l]
  /\ call' = [call EXCEPT ![t] = "stop"]
  /\ UNCHANGED <<table, loopVars, taken, fault, destroys, taking>>

\* Stop: stop_ and the wakeup.
Stop(t, l) ==
  /\ call[t] = "next" /\ l \in left[t]
  /\ left' = [left EXCEPT ![t] = @ \ {l}]
  /\ arg' = [arg EXCEPT ![t] = l]
  /\ stop' = stop \cup {l}
  /\ call' = [call EXCEPT ![t] = "stop"]
  /\ UNCHANGED <<table, created, thread, held, run, joined, taken, fault, destroys, taking>>

\* thread_->join() as it starts: through a null pointer it is undefined, and
\* std::thread throws for the thread itself and for one that was joined.
JoinFault(t, l) ==
  IF l \notin thread THEN "null" ELSE IF l = t THEN "self"
  ELSE IF l \in joined THEN "joined" ELSE "none"

BeginJoin(t) ==
  /\ call[t] = "stop"
  /\ fault' = JoinFault(t, arg[t])
  /\ call' = [call EXCEPT ![t] = "join"]
  /\ UNCHANGED <<table, loopVars, arg, taken, left, destroys, taking>>

\* Mutant: Stop does not wait.
MutantDetach(t) ==
  /\ call[t] = "join"
  /\ joined' = joined \cup {arg[t]}
  /\ call' = [call EXCEPT ![t] = "next"]
  /\ UNCHANGED <<table, created, thread, held, run, stop, arg, taken, left, fault, destroys, taking>>

EndJoin(t) ==
  /\ call[t] = "join" /\ run[arg[t]] = "ended"
  /\ joined' = joined \cup {arg[t]}
  /\ call' = [call EXCEPT ![t] = "next"]
  /\ UNCHANGED <<table, created, thread, held, run, stop, arg, taken, left, fault, destroys, taking>>

\* Mutant: the clear() does not wait for the end of the iteration.
MutantClearEarly(t) ==
  /\ call[t] = "next"
  /\ taken' = [taken EXCEPT ![t] = {}]
  /\ call' = [call EXCEPT ![t] = "idle"]
  /\ UNCHANGED <<table, loopVars, arg, left, fault, destroys, taking>>

\* table_swap.clear(), with which the last references may go.
Clear(t) ==
  /\ call[t] = "next" /\ left[t] = {}
  /\ taken' = [taken EXCEPT ![t] = {}]
  /\ call' = [call EXCEPT ![t] = "idle"]
  /\ UNCHANGED <<table, loopVars, arg, left, fault, destroys, taking>>

-----------------------------------------------------------------------------
(* The loop threads.                                                       *)

\* A callback needs a handler, which was attached with what Create returned.
EnterCallback(l) ==
  /\ run[l] = "process" /\ l \in thread
  /\ run' = [run EXCEPT ![l] = "callback"]
  /\ UNCHANGED <<table, created, thread, held, stop, joined, callVars, fault, destroys, taking>>

LeaveCallback(l) ==
  /\ run[l] = "callback" /\ call[l] = "idle"
  /\ run' = [run EXCEPT ![l] = "process"]
  /\ UNCHANGED <<table, created, thread, held, stop, joined, callVars, fault, destroys, taking>>

EndRun(l) ==
  /\ run[l] = "process" /\ l \in stop
  /\ run' = [run EXCEPT ![l] = "ended"]
  /\ UNCHANGED <<table, created, thread, held, stop, joined, callVars, fault, destroys, taking>>

CallStep(t) ==
  \/ StartThread(t) \/ AssignThread(t)
  \/ \E l \in Loops : Stop(t, l)
  \/ BeginJoin(t) \/ EndJoin(t) \/ Clear(t)

TableNext ==
  /\ fault = "none"
  /\ \/ \E t \in Threads : CallStep(t) \/ DestroyAll(t) \/ \E l \in Loops : Create(t, l)
     \/ \E l \in Loops : Release(l) \/ EnterCallback(l) \/ LeaveCallback(l) \/ EndRun(l)

TableSpec == TableInit /\ [][TableNext]_tableVars

\* Threads are scheduled, callbacks return, and a loop that keeps having callbacks
\* to make still looks at stop_ between two passes.
FairTableSpec ==
  /\ TableSpec
  /\ \A t \in Threads : WF_tableVars(fault = "none" /\ CallStep(t))
  /\ \A l \in Loops : WF_tableVars(fault = "none" /\ LeaveCallback(l))
  /\ \A l \in Loops : SF_tableVars(fault = "none" /\ EndRun(l))

-----------------------------------------------------------------------------
(* Properties.                                                             *)

\* The shared_ptrs of a loop: the table, a DestroyAll, a Create, the program.
Alive(l) ==
  \/ l \in table \cup held
  \/ \E t \in Threads : l \in taken[t] \/ (call[t] \in {"start", "assign"} /\ arg[t] = l)

\* Run works on a plain pointer to its loop, and ~thread of a thread that was not
\* joined ends the process: a loop is destroyed only when its thread is over and
\* joined, whoever lets go of it last (event_loop.cc:31-34, 53).
LoopOutlivesRun == \A l \in created : Alive(l) \/ (run[l] = "ended" /\ l \in joined)

\* Whom thread t waits for.
WaitsFor(t, l) == call[t] = "join" /\ arg[t] = l /\ l # t

\* DestroyAlls on several threads, loop threads among them, may wait for each other's
\* loops, but no set of threads waits for one another in a circle: a loop thread that
\* has taken loops is no longer in the table for anybody else (event_loop.cc:28).
NoCircularJoin ==
  \A S \in (SUBSET Threads) \ {{}} : \E t \in S : \A l \in S \cap Loops : ~WaitsFor(t, l)

\* The process can end in two ways: DestroyAll took a loop whose Create has not
\* assigned thread_ yet, or DestroyAll runs in a callback and comes to its own
\* loop.  Never is a thread joined twice.
FaultsExplained ==
  /\ fault # "joined"
  /\ fault = "null" => \E t, u \in Threads :
       call[t] = "join" /\ call[u] \in {"start", "assign"} /\ arg[t] = arg[u]
  /\ fault = "self" => \E l \in Loops :
       run[l] = "callback" /\ call[l] = "join" /\ arg[l] = l

\* DestroyAll returns, unless the process ends as above.
DestroyAllReturns == \A t \in Threads : call[t] = "next" ~> call[t] = "idle" \/ fault # "none"
=============================================================================
