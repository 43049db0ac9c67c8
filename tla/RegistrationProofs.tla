------------------------- MODULE RegistrationProofs -------------------------
(***************************************************************************)
(* Where an Event may be at each stage of its life, for any number of      *)
(* handlers, descriptors and threads; and what follows from it: which      *)
(* exception can leave the loop, and that no report reaches a wrong        *)
(* handler.                                                                *)
(***************************************************************************)
EXTENDS EventLoopProofs

\* What is still to be finalized, in order: the rest of the vector that was swapped out,
\* and the new one.
Rest(n) == IF stage = "elements" /\ turn = n THEN SubSeq(work, pos, Len(work)) ELSE <<>>
adds    == Rest(1) \o pending["add"]
removes == Rest(2) \o pending["remove"]

Holds(q, h) == \E i \in 1..Len(q) : q[i] = h
Distinct(q) == \A i, j \in 1..Len(q) : q[i] = q[j] => i = j

\* A thread is in Attach or AttachInternal for h; h has not come to the demultiplexer yet.
AttachSteps == {"create", "assign", "add"}
Coming(h)   == \E c \in Callers : frame[c].h = h /\ frame[c].pc \in AttachSteps
Ahead(h)    == Coming(h) \/ Holds(adds, h)

\* A vector keeps a reference to the Event of h.
Stored(h) == h \in ToSet(work) \cup UNION {ToSet(pending[l]) : l \in Lists}

\* What the place of a call says about its handler.
FrameInv ==
  /\ \A c \in Callers :
       /\ frame[c].pc = "create" => evt[frame[c].h] = "none" /\ obj[frame[c].h] = "owned"
       /\ frame[c].pc = "assign" => evt[frame[c].h] = "created"
       /\ frame[c].pc = "add" => evt[frame[c].h] = "assigned"
       /\ frame[c].pc \in {"once", "post"} => evt[frame[c].h] # "none"
       /\ frame[c].pc = "post" => once[frame[c].h] = "running"
  /\ \A c, d \in Callers : frame[c].h = frame[d].h =>
       /\ frame[c].pc \in AttachSteps /\ frame[d].pc \in AttachSteps => c = d
       /\ frame[c].pc = "post" /\ frame[d].pc = "post" => c = d

\* Callbacks, and the calls they make, run inside Process().
PlaceInv ==
  /\ cur # NoHandler => stage \in {"next", "elements"}
  /\ stage # "idle" => run \in {"process", "last"}
  /\ frame[Loop].pc \in AttachSteps => run \in {"process", "last"}

\* What the tables of the loop hold.
TableInv ==
  /\ \A h \in Handlers :
       /\ h \in table <=> evt[h] # "none" /\ once[h] = "open"
       /\ evt[h] = "none" => once[h] = "open"
       /\ obj[h] = "unborn" => evt[h] = "none" /\ h \notin internal
       /\ h \in internal => Alive(h)
       /\ h \in closing => evt[h] # "none"
  /\ toClose \subseteq closing
  /\ toClose # {} => run = "close"

\* An Event is posted once to each of the first two vectors, and stays with epoll, or on its
\* way to it, until it is removed.
PostInv ==
  /\ Distinct(adds) /\ Distinct(removes)
  /\ \A h \in Handlers :
       /\ Stored(h) => evt[h] # "none"
       /\ Holds(adds, h) => evt[h] = "assigned" /\ ~Coming(h)
       /\ Holds(removes, h) => once[h] = "done"
       /\ Registered(h) \/ cur = h => evt[h] = "assigned" /\ ~Ahead(h)
       /\ Handle[h] # NoFd /\ evt[h] # "none" /\ (once[h] # "done" \/ Holds(removes, h))
            => Registered(h) \/ Ahead(h)

\* A descriptor has one owner.
OwnerInv ==
  \A g, h \in Handlers : Handle[g] = Handle[h] /\ Handle[g] # NoFd /\ Open(g) /\ Open(h) => g = h

\* The loop keeps a function until it has run.
TaskInv == \A h \in Tasks : Ahead(h) \/ cur = h => h \in internal

RegInv == FrameInv /\ PlaceInv /\ TableInv /\ PostInv /\ OwnerInv /\ TaskInv

-----------------------------------------------------------------------------
(* Sequences.                                                              *)

LEMMA AppendHolds ==
  ASSUME NEW S, NEW q \in Seq(S), NEW h \in S
  PROVE  /\ \A g : Holds(Append(q, h), g) <=> Holds(q, g) \/ g = h
         /\ Distinct(q) /\ ~Holds(q, h) => Distinct(Append(q, h))
  <1>1. /\ Len(Append(q, h)) = Len(q) + 1 /\ Len(q) \in Nat
        /\ \A i \in 1..Len(q) : Append(q, h)[i] = q[i]
        /\ Append(q, h)[Len(q) + 1] = h
    BY AppendProperties, LenProperties
  <1>2. \A i \in 1..(Len(q) + 1) : i \in 1..Len(q) \/ i = Len(q) + 1
    BY <1>1
  <1>3. \A i \in 1..Len(q) : i \in 1..(Len(q) + 1)
    BY <1>1
  <1>4. Len(q) + 1 \in 1..(Len(q) + 1)
    BY <1>1
  <1> DEFINE r == Append(q, h)
  <1> HIDE DEF r
  <1> QED BY <1>1, <1>2, <1>3, <1>4 DEF Holds, Distinct

LEMMA ConsHolds ==
  ASSUME NEW S, NEW r \in Seq(S), NEW h \in S, NEW q, q = <<h>> \o r
  PROVE  /\ q \in Seq(S) /\ Len(q) = Len(r) + 1 /\ Len(r) \in Nat
         /\ q[1] = h /\ \A i \in 1..Len(r) : q[i + 1] = r[i]
         /\ \A g : Holds(q, g) <=> Holds(r, g) \/ g = h
         /\ Distinct(q) => Distinct(r) /\ ~Holds(r, h)
  <1>1. /\ q \in Seq(S) /\ Len(q) = Len(r) + 1 /\ Len(r) \in Nat
        /\ q[1] = h /\ \A i \in 1..Len(r) : q[i + 1] = r[i]
    <2>1. <<h>> \in Seq(S) /\ Len(<<h>>) = 1 /\ <<h>>[1] = h
      OBVIOUS
    <2>2. /\ q \in Seq(S) /\ Len(q) = 1 + Len(r) /\ Len(r) \in Nat
          /\ \A i \in 1..(1 + Len(r)) : q[i] = IF i <= 1 THEN <<h>>[i] ELSE r[i - 1]
      BY <2>1, ConcatProperties, LenProperties
    <2> QED BY <2>1, <2>2
  <1>2. \A i \in 1..Len(q) : i = 1 \/ (i - 1 \in 1..Len(r) /\ q[i] = r[i - 1])
    <2> TAKE i \in 1..Len(q)
    <2>1. i = 1 \/ (i - 1 \in 1..Len(r) /\ (i - 1) + 1 = i)
      BY <1>1
    <2> QED BY <1>1, <2>1
  <1>3. 1 \in 1..Len(q) /\ \A i \in 1..Len(r) : i + 1 \in 1..Len(q) /\ i + 1 # 1
    BY <1>1
  <1>4. ASSUME Distinct(q) PROVE Distinct(r) /\ ~Holds(r, h)
    <2>1. ASSUME NEW i \in 1..Len(r), NEW j \in 1..Len(r), r[i] = r[j] PROVE i = j
      <3>1. i + 1 \in 1..Len(q) /\ j + 1 \in 1..Len(q) /\ q[i + 1] = r[i] /\ q[j + 1] = r[j]
        BY <1>1, <1>3
      <3>2. i + 1 = j + 1
        BY <1>4, <2>1, <3>1, Zenon DEF Distinct
      <3> QED BY <3>2
    <2>2. ASSUME NEW i \in 1..Len(r), r[i] = h PROVE FALSE
      BY <1>1, <1>3, <1>4, <2>2 DEF Distinct
    <2> QED BY <2>1, <2>2 DEF Distinct, Holds
  <1>5. ASSUME NEW g PROVE Holds(q, g) <=> Holds(r, g) \/ g = h
    <2>1. ASSUME Holds(q, g) PROVE Holds(r, g) \/ g = h
      BY <1>1, <1>2, <2>1 DEF Holds
    <2>2. ASSUME NEW i \in 1..Len(r), r[i] = g PROVE Holds(q, g)
      BY <1>1, <1>3, <2>2 DEF Holds
    <2>3. q[1] = h => Holds(q, h)
      BY <1>3 DEF Holds
    <2> QED BY <1>1, <2>1, <2>2, <2>3 DEF Holds
  <1> QED BY <1>1, <1>4, <1>5

\* What is left when the first element is taken.
LEMMA TakeFirst ==
  \A h \in Handlers : \A q, r : r \in Seq(Handlers) /\ q = <<h>> \o r =>
    /\ \A g : Holds(q, g) <=> Holds(r, g) \/ g = h
    /\ Distinct(q) => Distinct(r) /\ ~Holds(r, h)
  <1> TAKE h \in Handlers
  <1>1. \A q, r : r \in Seq(Handlers) /\ q = <<h>> \o r => (\A g : Holds(q, g) <=> Holds(r, g) \/ g = h)
    BY ConsHolds, Zenon
  <1>2. \A q, r : r \in Seq(Handlers) /\ q = <<h>> \o r => (Distinct(q) => Distinct(r) /\ ~Holds(r, h))
    BY ConsHolds
  <1> QED BY <1>1, <1>2

-----------------------------------------------------------------------------
(* The vectors.                                                            *)

LEMMA VectorTypes ==
  ASSUME TypeOK
  PROVE  /\ adds \in Seq(Handlers) /\ removes \in Seq(Handlers)
         /\ \A n \in 1..2 : Rest(n) \in Seq(Handlers)
  <1>1. ASSUME NEW n \in 1..2 PROVE Rest(n) \in Seq(Handlers)
    <2>1. Len(work) \in Nat /\ pos \in Nat \ {0}
      BY DEF TypeOK
    <2>2. \A i \in pos..Len(work) : work[i] \in Handlers
      BY <2>1, ElementOfSeq DEF TypeOK
    <2>3. SubSeq(work, pos, Len(work)) \in Seq(Handlers)
      BY <2>1, <2>2, SubSeqProperties
    <2> QED BY <2>3, EmptySeq DEF Rest
  <1>2. pending["add"] \in Seq(Handlers) /\ pending["remove"] \in Seq(Handlers)
    BY DEF TypeOK, Lists
  <1> QED BY <1>1, <1>2, ConcatProperties DEF adds, removes

\* A post.
LEMMA PostEffect ==
  ASSUME TypeOK, NEW l \in Lists, NEW h \in Handlers, AddElement(l, h)
  PROVE  /\ adds' = IF l = "add" THEN Append(adds, h) ELSE adds
         /\ removes' = IF l = "remove" THEN Append(removes, h) ELSE removes
         /\ \A g \in Handlers : Stored(g)' <=> Stored(g) \/ g = h
         /\ UNCHANGED <<events, loopVars, fault>>
  <1>1. UNCHANGED <<events, loopVars, fault>> /\ pending' = [pending EXCEPT ![l] = Append(@, h)]
    BY DEF AddElement
  <1>2. Rest(1)' = Rest(1) /\ Rest(2)' = Rest(2)
    BY <1>1 DEF Rest, loopVars
  <1>3. \A k \in Lists : pending'[k] = IF k = l THEN Append(pending[k], h) ELSE pending[k]
    BY <1>1 DEF TypeOK
  <1>4. \A q \in Seq(Handlers), r \in Seq(Handlers) : q \o Append(r, h) = Append(q \o r, h)
    <2> TAKE q \in Seq(Handlers), r \in Seq(Handlers)
    <2>1. Append(r, h) = r \o <<h>> /\ q \o r \in Seq(Handlers) /\ <<h>> \in Seq(Handlers)
      BY AppendIsConcat, ConcatProperties
    <2>2. Append(q \o r, h) = (q \o r) \o <<h>>
      BY <2>1, AppendIsConcat
    <2> QED BY <2>1, <2>2, ConcatAssociative
  <1>8. /\ Rest(1) \in Seq(Handlers) /\ Rest(2) \in Seq(Handlers)
        /\ pending["add"] \in Seq(Handlers) /\ pending["remove"] \in Seq(Handlers)
    BY VectorTypes DEF TypeOK, Lists
  <1>9. "add" \in Lists /\ "remove" \in Lists
    BY DEF Lists
  <1>5. adds' = IF l = "add" THEN Append(adds, h) ELSE adds
    <2>1. adds' = Rest(1) \o pending'["add"]
      BY <1>2 DEF adds
    <2>2. CASE l = "add"
      BY <1>3, <1>4, <1>8, <1>9, <2>1, <2>2, Zenon DEF adds
    <2>3. CASE l # "add"
      BY <1>3, <1>9, <2>1, <2>3, Zenon DEF adds
    <2> QED BY <2>2, <2>3
  <1>6. removes' = IF l = "remove" THEN Append(removes, h) ELSE removes
    <2>1. removes' = Rest(2) \o pending'["remove"]
      BY <1>2 DEF removes
    <2>2. CASE l = "remove"
      BY <1>3, <1>4, <1>8, <1>9, <2>1, <2>2, Zenon DEF removes
    <2>3. CASE l # "remove"
      BY <1>3, <1>9, <2>1, <2>3, Zenon DEF removes
    <2> QED BY <2>2, <2>3
  <1>7. ASSUME NEW g \in Handlers PROVE Stored(g)' <=> Stored(g) \/ g = h
    <2>1. \A k \in Lists : ToSet(pending'[k]) = IF k = l THEN ToSet(pending[k]) \cup {h} ELSE ToSet(pending[k])
      <3> TAKE k \in Lists
      <3>1. pending[k] \in Seq(Handlers)
        BY DEF TypeOK
      <3>2. CASE k = l
        <4>1. \A x : Holds(pending'[k], x) <=> Holds(pending[k], x) \/ x = h
          BY <1>3, <3>1, <3>2, AppendHolds
        <4>2. pending'[k] \in Seq(Handlers)
          BY <1>3, <3>1, <3>2, AppendProperties
        <4>3. \A q, x : x \in ToSet(q) <=> Holds(q, x)
          BY DEF Holds, ToSet
        <4>4. \A x : x \in ToSet(pending'[k]) <=> x \in ToSet(pending[k]) \cup {h}
          BY <4>1, <4>3
        <4> QED BY <3>2, <4>4
      <3> QED BY <1>3, <3>2
    <2>2. work' = work
      BY <1>1 DEF loopVars
    <2> QED BY ZenonT(40), <2>1, <2>2 DEF Stored
  <1> QED BY <1>1, <1>5, <1>6, <1>7

\* The finalizers take the first element that is left.
LEMMA ElementEffect ==
  ASSUME TypeOK, NEW l, NEW h \in Handlers, Element(l, h), UNCHANGED <<pending, stage, turn, work>>
  PROVE  /\ l = "add" => adds = <<h>> \o adds' /\ adds' \in Seq(Handlers)
         /\ l = "remove" => removes = <<h>> \o removes' /\ removes' \in Seq(Handlers)
         /\ l # "add" => adds' = adds
         /\ l # "remove" => removes' = removes
         /\ \A g \in Handlers : Stored(g)' <=> Stored(g)
         /\ Stored(h)
  <1>1. /\ stage = "elements" /\ pos \in 1..Len(work) /\ h = work[pos] /\ pos' = pos + 1
        /\ Current = l /\ Len(work) \in Nat /\ work \in Seq(Handlers)
    BY DEF Element, TypeOK
  <1>2. /\ turn = 1 <=> l = "add"
        /\ turn = 2 <=> l = "remove"
    BY <1>1 DEF Current, HandleOrder, TypeOK
  <1>3. SubSeq(work, pos, Len(work)) = <<h>> \o SubSeq(work, pos + 1, Len(work))
    BY <1>1, SubSeqRecursiveFirst
  <1>4. \A i \in (pos + 1)..Len(work) : work[i] \in Handlers
    BY <1>1, ElementOfSeq
  <1>5. SubSeq(work, pos + 1, Len(work)) \in Seq(Handlers)
    BY <1>1, <1>4, SubSeqProperties
  <1>6. \A p \in Seq(Handlers) : SubSeq(work, pos, Len(work)) \o p = <<h>> \o (SubSeq(work, pos + 1, Len(work)) \o p)
    <2> TAKE p \in Seq(Handlers)
    <2>1. <<h>> \in Seq(Handlers)
      OBVIOUS
    <2> QED BY SMTT(30), <1>3, <1>5, <2>1, ConcatAssociative
  <1>7. pending["add"] \in Seq(Handlers) /\ pending["remove"] \in Seq(Handlers)
    BY DEF TypeOK, Lists
  <1>8. CASE turn = 1
    <2>1. adds = <<h>> \o adds' /\ adds' \in Seq(Handlers)
      BY <1>1, <1>5, <1>6, <1>7, <1>8, ConcatProperties DEF adds, Rest
    <2>2. removes' = removes
      BY <1>8 DEF removes, Rest
    <2> QED BY <1>1, <1>2, <1>8, <2>1, <2>2 DEF Stored, ToSet
  <1>9. CASE turn = 2
    <2>1. removes = <<h>> \o removes' /\ removes' \in Seq(Handlers)
      BY <1>1, <1>5, <1>6, <1>7, <1>9, ConcatProperties DEF removes, Rest
    <2>2. adds' = adds
      BY <1>9 DEF adds, Rest
    <2> QED BY <1>1, <1>2, <1>9, <2>1, <2>2 DEF Stored, ToSet
  <1>10. CASE turn # 1 /\ turn # 2
    <2>1. adds' = adds /\ removes' = removes
      BY <1>10 DEF adds, removes, Rest
    <2> QED BY <1>1, <1>2, <1>10, <2>1 DEF Stored, ToSet
  <1> QED BY <1>8, <1>9, <1>10

\* No other step changes what is still to be finalized.
LEMMA QuietEffect ==
  ASSUME TypeOK,
         \/ EnterProcess \/ EpollWait \/ TakePending \/ Drain \/ Swap \/ EndElements \/ LeaveProcess
         \/ UNCHANGED <<pending, stage, turn, work, pos>>
  PROVE  /\ adds' = adds /\ removes' = removes
         /\ \A g \in Handlers : Stored(g)' => Stored(g)
  <1>1. CASE UNCHANGED <<pending, stage, turn, work, pos>>
    BY <1>1 DEF adds, removes, Rest, Stored
  <1>2. CASE EnterProcess \/ EpollWait \/ TakePending \/ Drain \/ LeaveProcess
    <2>1. stage # "elements" /\ stage' # "elements" /\ UNCHANGED <<pending, work>>
      BY <1>2 DEF EnterProcess, EpollWait, TakePending, Drain, LeaveProcess, queueVars
    <2> QED BY <2>1 DEF adds, removes, Rest, Stored
  <1>3. CASE Swap
    <2>1. /\ stage = "swap" /\ stage' = "elements" /\ work' = pending[Current] /\ pos' = 1 /\ turn' = turn
          /\ pending' = [pending EXCEPT ![Current] = <<>>]
      BY <1>3 DEF Swap
    <2>2. Current \in Lists /\ (turn = 1 <=> Current = "add") /\ (turn = 2 <=> Current = "remove")
      BY DEF Current, HandleOrder, TypeOK, Lists
    <2>3. /\ \A l \in Lists : pending[l] \in Seq(Handlers)
          /\ \A l \in Lists : pending'[l] = IF l = Current THEN <<>> ELSE pending[l]
      BY <2>1, <2>2 DEF TypeOK
    <2>4. SubSeq(work', pos', Len(work')) = pending[Current]
      BY <2>1, <2>2, <2>3, SubSeqFull
    <2>5. \A q \in Seq(Handlers) : q \o <<>> = q /\ <<>> \o q = q
      BY ConcatEmptySeq
    <2>6. adds' = adds
      <3>1. CASE turn = 1
        <4>1. Rest(1) = <<>> /\ Rest(1)' = pending["add"] /\ pending'["add"] = <<>>
          BY <2>1, <2>2, <2>3, <2>4, <3>1 DEF Rest, Lists
        <4> QED BY <2>3, <2>5, <4>1 DEF adds, Lists
      <3>2. CASE turn # 1
        BY <2>1, <2>2, <2>3, <3>2 DEF adds, Rest, Lists
      <3> QED BY <3>1, <3>2
    <2>7. removes' = removes
      <3>1. CASE turn = 2
        <4>1. Rest(2) = <<>> /\ Rest(2)' = pending["remove"] /\ pending'["remove"] = <<>>
          BY <2>1, <2>2, <2>3, <2>4, <3>1 DEF Rest, Lists
        <4> QED BY <2>3, <2>5, <4>1 DEF removes, Lists
      <3>2. CASE turn # 2
        BY <2>1, <2>2, <2>3, <3>2 DEF removes, Rest, Lists
      <3> QED BY <3>1, <3>2
    <2>8. ASSUME NEW g \in Handlers, Stored(g)' PROVE Stored(g)
      <3>1. g \in ToSet(work') \/ \E l \in Lists : g \in ToSet(pending'[l])
        BY <2>8 DEF Stored
      <3>2. ToSet(<<>>) = {}
        BY DEF ToSet
      <3>3. \E l \in Lists : g \in ToSet(pending[l])
        BY <2>1, <2>2, <2>3, <3>1, <3>2
      <3> QED BY <3>3 DEF Stored
    <2> QED BY <2>6, <2>7, <2>8
  <1>4. CASE EndElements
    <2>1. stage = "elements" /\ stage' # "elements" /\ pos > Len(work) /\ work' = <<>> /\ pending' = pending
      BY <1>4 DEF EndElements, queueVars
    <2>2. SubSeq(work, pos, Len(work)) = <<>>
      BY <2>1, SubSeqEmpty DEF TypeOK
    <2>3. ToSet(<<>>) = {}
      BY DEF ToSet
    <2> QED BY <2>1, <2>2, <2>3 DEF adds, removes, Rest, Stored
  <1> QED BY <1>1, <1>2, <1>3, <1>4


-----------------------------------------------------------------------------
(* The places of the calls.                                                *)

\* A call that names a handler stands in one of five places; the others name none.
LEMMA FrameTypes ==
  ASSUME LoopTypeOK
  PROVE  \A c \in Callers :
           /\ frame[c].pc \in {"idle", "signal", "join", "once", "post"} \cup AttachSteps
           /\ frame[c].pc \in {"once", "post"} \cup AttachSteps <=> frame[c].h \in Handlers
           /\ frame[c].pc \in {"idle", "signal", "join"} <=> frame[c].h = NoHandler
           /\ frame[c] = Idle => frame[c].pc = "idle"
  <1> TAKE c \in Callers
  <1>1. frame[c] \in Frames
    BY DEF LoopTypeOK
  <1>2. \/ frame[c].pc \in {"idle", "signal", "join"} /\ frame[c].h = NoHandler
        \/ frame[c].pc \in {"create", "assign", "add", "once", "post"} /\ frame[c].h \in Handlers
    BY <1>1 DEF Frames
  <1> QED BY <1>2, EPollAssumption DEF AttachSteps, Idle

LEMMA SetFrameEffect ==
  ASSUME LoopTypeOK, NEW c \in Callers, NEW p, NEW x, SetFrame(c, p, x)
  PROVE  \A d \in Callers : /\ frame'[d].pc = IF d = c THEN p ELSE frame[d].pc
                            /\ frame'[d].h = IF d = c THEN x ELSE frame[d].h
  BY DEF LoopTypeOK, SetFrame

LEMMA ClearFrameEffect ==
  ASSUME LoopTypeOK, NEW c \in Callers, ClearFrame(c)
  PROVE  \A d \in Callers : /\ frame'[d].pc = IF d = c THEN "idle" ELSE frame[d].pc
                            /\ frame'[d].h = IF d = c THEN NoHandler ELSE frame[d].h
  BY DEF LoopTypeOK, ClearFrame, Idle

\* Nobody else attaches a handler whose Event is not made while it is in nobody's hands.
LEMMA NotInUse ==
  ASSUME LoopTypeOK, PlaceInv, PostInv, NEW h \in Handlers, evt[h] = "none", ~InUse(h)
  PROVE  ~Coming(h)
  <1> SUFFICES ASSUME NEW d \in Callers, frame[d].h = h, frame[d].pc \in AttachSteps
               PROVE  FALSE
    BY DEF Coming
  <1>1. d = Loop /\ (cur = h \/ run = "close")
    BY DEF InUse
  <1>2. run # "close"
    BY <1>1 DEF PlaceInv
  <1>3. evt[h] = "assigned"
    BY <1>1, <1>2 DEF PostInv
  <1> QED BY <1>3


\* No step puts a call in a place that does not fit its handler.
LEMMA FrameStep ==
  ASSUME LoopTypeOK, RegInv, LoopNext
  PROVE  FrameInv'
  <1> USE FrameTypes DEF RegInv
  <1>1. ASSUME UNCHANGED <<frame, evt, obj, once>> PROVE FrameInv'
    BY <1>1 DEF FrameInv
  <1>2. CASE RunStep \/ ModifyEvent \/ \E f \in Fds : Kernel(f)
    <2>1. CASE \/ CheckStop \/ EndProcess \/ CollectEvents \/ LastWakeup \/ LastProcess \/ Callback \/ Quiet
               \/ ModifyEvent \/ \E f \in Fds : Kernel(f)
      BY <1>1, <2>1 DEF CheckStop, EndProcess, CollectEvents, LastWakeup, LastProcess, Callback, Quiet,
                        ModifyEvent, Kernel, handlerVars
    <2>2. ASSUME NEW h \in Handlers, CloseCollected(h) PROVE FrameInv'
      <3>1. evt[h] # "none" /\ SetFrame(Loop, "once", h) /\ UNCHANGED <<evt, obj, once>>
        BY <2>2 DEF CloseCollected, TableInv
      <3>2. \A d \in Callers : /\ frame'[d].pc = IF d = Loop THEN "once" ELSE frame[d].pc
                               /\ frame'[d].h = IF d = Loop THEN h ELSE frame[d].h
        BY <3>1, SetFrameEffect DEF Callers
      <3> QED BY <3>1, <3>2 DEF FrameInv, AttachSteps
    <2>3. ASSUME NEW kept, Release(cur, kept), cur \in Handlers, UNCHANGED <<evt, once>> PROVE FrameInv'
      <3>1. evt[cur] = "assigned"
        BY <2>3 DEF PostInv
      <3>2. CASE obj[cur] = "released" /\ cur \notin kept
        <4>1. obj' = [obj EXCEPT ![cur] = "dead"] /\ SetFrame(Loop, "once", cur)
          BY <2>3, <3>2 DEF Release
        <4>2. \A d \in Callers : /\ frame'[d].pc = IF d = Loop THEN "once" ELSE frame[d].pc
                                 /\ frame'[d].h = IF d = Loop THEN cur ELSE frame[d].h
          BY <4>1, SetFrameEffect DEF Callers
        <4>3. \A g \in Handlers : obj[g] = "owned" => obj'[g] = "owned"
          BY <3>2, <4>1 DEF LoopTypeOK
        <4> QED BY <2>3, <3>1, <4>2, <4>3 DEF FrameInv, AttachSteps
      <3> QED BY <1>1, <2>3, <3>2 DEF Release
    <2>4. CASE EndCallback
      BY <2>3, <2>4, EventLoopAssumption DEF EndCallback
    <2>5. CASE TaskClose
      <3>1. SetFrame(Loop, "once", cur) /\ cur \in Handlers /\ UNCHANGED <<evt, obj, once>>
        BY <2>5, EventLoopAssumption DEF TaskClose
      <3>2. \A d \in Callers : /\ frame'[d].pc = IF d = Loop THEN "once" ELSE frame[d].pc
                               /\ frame'[d].h = IF d = Loop THEN cur ELSE frame[d].h
        BY <3>1, SetFrameEffect DEF Callers
      <3>3. evt[cur] = "assigned"
        BY <3>1 DEF PostInv
      <3> QED BY <3>1, <3>2, <3>3 DEF FrameInv, AttachSteps
    <2>6. CASE EndTask
      <3>1. cur \in Handlers /\ UNCHANGED <<evt, once>>
        BY <2>6, EventLoopAssumption DEF EndTask
      <3>2. CASE cur \in internal
        BY <2>3, <2>6, <3>1, <3>2 DEF EndTask
      <3> QED BY <1>1, <2>6, <3>1, <3>2 DEF EndTask
    <2> QED BY <1>2, <2>1, <2>2, <2>4, <2>5, <2>6 DEF RunStep
  <1>3. ASSUME NEW c \in Callers, NEW h \in Handlers,
               \/ New(c, h) \/ Attach(c, h) \/ Execute(c, h)
               \/ ReadyEvent(c, h) \/ CloseEvent(c, h) \/ Cancel(c, h) \/ Drop(c, h)
        PROVE  FrameInv'
    <2>1. CASE New(c, h)
      BY <2>1 DEF New, FrameInv, LoopTypeOK
    <2>2. CASE Attach(c, h) \/ Execute(c, h)
      <3>1. evt[h] = "none" /\ SetFrame(c, "create", h) /\ UNCHANGED <<evt, once>>
        BY <2>2 DEF Attach, Execute, TableInv
      <3>2. ~Coming(h)
        <4>1. CASE Attach(c, h)
          BY <3>1, <4>1, NotInUse DEF Attach
        <4>2. CASE Execute(c, h)
          BY <3>1, <4>2 DEF Execute, Coming, FrameInv, AttachSteps
        <4> QED BY <2>2, <4>1, <4>2
      <3>3. \A g \in Handlers : (obj[g] = "owned" \/ g = h) => obj'[g] = "owned"
        BY <2>2 DEF Attach, Execute, LoopTypeOK
      <3>4. \A d \in Callers : /\ frame'[d].pc = IF d = c THEN "create" ELSE frame[d].pc
                               /\ frame'[d].h = IF d = c THEN h ELSE frame[d].h
        BY <3>1, SetFrameEffect
      <3>5. \A d \in Callers : frame[d].h = h => frame[d].pc \notin AttachSteps
        BY <3>2 DEF Coming
      <3> QED BY <3>1, <3>3, <3>4, <3>5 DEF FrameInv, AttachSteps
    <2>3. CASE ReadyEvent(c, h)
      BY <1>1, <2>3 DEF ReadyEvent, handlerVars
    <2>4. CASE CloseEvent(c, h) \/ Cancel(c, h)
      <3>1. evt[h] = "assigned" /\ SetFrame(c, "once", h) /\ UNCHANGED <<evt, obj, once>>
        BY <2>4 DEF CloseEvent, Cancel
      <3>2. \A d \in Callers : /\ frame'[d].pc = IF d = c THEN "once" ELSE frame[d].pc
                               /\ frame'[d].h = IF d = c THEN h ELSE frame[d].h
        BY <3>1, SetFrameEffect
      <3> QED BY <3>1, <3>2 DEF FrameInv, AttachSteps
    <2>5. CASE Drop(c, h)
      <3>1. obj[h] = "owned" /\ ~InUse(h) /\ UNCHANGED <<evt, once>>
        BY <2>5 DEF Drop
      <3>2. \A d \in Callers : frame[d].pc = "create" => obj'[frame[d].h] = "owned"
        <4> SUFFICES ASSUME NEW d \in Callers, frame[d].pc = "create" PROVE obj'[frame[d].h] = "owned"
          OBVIOUS
        <4>1. frame[d].h \in Handlers /\ evt[frame[d].h] = "none" /\ obj[frame[d].h] = "owned"
          BY DEF FrameInv, AttachSteps
        <4>2. frame[d].h # h
          BY <3>1, <4>1, NotInUse DEF Coming, AttachSteps
        <4>3. \A g \in Handlers : g # h => obj'[g] = obj[g]
          BY <2>5 DEF Drop, LoopTypeOK
        <4> QED BY <4>1, <4>2, <4>3
      <3>3. CASE UNCHANGED frame
        BY <3>1, <3>2, <3>3 DEF FrameInv
      <3>4. CASE SetFrame(c, "once", h) /\ evt[h] = "assigned"
        <4>1. \A d \in Callers : /\ frame'[d].pc = IF d = c THEN "once" ELSE frame[d].pc
                                 /\ frame'[d].h = IF d = c THEN h ELSE frame[d].h
          BY <3>4, SetFrameEffect
        <4> QED BY <3>1, <3>2, <3>4, <4>1 DEF FrameInv, AttachSteps
      <3> QED BY <2>5, <3>3, <3>4 DEF Drop
    <2> QED BY <1>3, <2>1, <2>2, <2>3, <2>4, <2>5
  <1>4. ASSUME NEW c \in Callers, NEW p \in {"signal", "join", "idle"}, UNCHANGED <<evt, obj>>,
               \A d \in Callers : /\ frame'[d].pc = IF d = c THEN p ELSE frame[d].pc
                                  /\ frame'[d].h = IF d = c THEN NoHandler ELSE frame[d].h,
               UNCHANGED once \/ (frame[c].pc = "post" /\ once' = [once EXCEPT ![frame[c].h] = "done"])
        PROVE  FrameInv'
    <2>1. ASSUME NEW d \in Callers, frame'[d].pc = "post" PROVE once'[frame'[d].h] = "running"
      <3>1. d # c /\ frame[d].pc = "post" /\ frame[d].h \in Handlers /\ frame'[d].h = frame[d].h
        BY <1>4, <2>1
      <3>2. frame[c].pc = "post" => frame[c].h # frame[d].h
        BY <3>1 DEF FrameInv
      <3> QED BY <1>4, <3>1, <3>2 DEF FrameInv, LoopTypeOK
    <2> QED BY <1>4, <2>1 DEF FrameInv, AttachSteps
  <1>5. ASSUME NEW c \in Callers, CallStep(c) \/ Stop(c) PROVE FrameInv'
    <2>1. CASE CreateEvent(c)
      <3> DEFINE h == frame[c].h
      <3>1. /\ frame[c].pc = "create" /\ evt' = [evt EXCEPT ![h] = "created"] /\ UNCHANGED <<obj, once>>
            /\ SetFrame(c, "assign", h)
        BY <2>1 DEF CreateEvent
      <3>2. \A d \in Callers : /\ frame'[d].pc = IF d = c THEN "assign" ELSE frame[d].pc
                               /\ frame'[d].h = IF d = c THEN h ELSE frame[d].h
        BY <3>1, SetFrameEffect
      <3>3. h \in Handlers /\ \A d \in Callers \ {c} : frame[d].h = h => frame[d].pc \notin AttachSteps
        BY <3>1 DEF FrameInv, AttachSteps
      <3>4. \A g \in Handlers : evt'[g] = IF g = h THEN "created" ELSE evt[g]
        BY <3>1 DEF LoopTypeOK
      <3> HIDE DEF h
      <3> QED BY <3>1, <3>2, <3>3, <3>4 DEF FrameInv, AttachSteps
    <2>2. CASE AssignEvent(c)
      <3> DEFINE h == frame[c].h
      <3>1. /\ frame[c].pc = "assign" /\ evt' = [evt EXCEPT ![h] = "assigned"] /\ UNCHANGED <<obj, once>>
            /\ SetFrame(c, "add", h)
        BY <2>2 DEF AssignEvent
      <3>2. \A d \in Callers : /\ frame'[d].pc = IF d = c THEN "add" ELSE frame[d].pc
                               /\ frame'[d].h = IF d = c THEN h ELSE frame[d].h
        BY <3>1, SetFrameEffect
      <3>3. h \in Handlers /\ \A d \in Callers \ {c} : frame[d].h = h => frame[d].pc \notin AttachSteps
        BY <3>1 DEF FrameInv, AttachSteps
      <3>4. \A g \in Handlers : evt'[g] = IF g = h THEN "assigned" ELSE evt[g]
        BY <3>1 DEF LoopTypeOK
      <3> HIDE DEF h
      <3> QED BY <3>1, <3>2, <3>3, <3>4 DEF FrameInv, AttachSteps
    <2>3. CASE Add(c)
      BY <1>4, <2>3, ClearFrameEffect DEF Add
    <2>4. CASE CloseOnce(c)
      <3> DEFINE h == frame[c].h
      <3>1. frame[c].pc = "once" /\ UNCHANGED <<evt, obj>> /\ h \in Handlers /\ evt[h] # "none"
        BY <2>4 DEF CloseOnce, FrameInv
      <3>2. CASE once[h] = "open"
        <4>1. once' = [once EXCEPT ![h] = "running"] /\ SetFrame(c, "post", h)
          BY <2>4, <3>2 DEF CloseOnce
        <4>2. \A d \in Callers : /\ frame'[d].pc = IF d = c THEN "post" ELSE frame[d].pc
                                 /\ frame'[d].h = IF d = c THEN h ELSE frame[d].h
          BY <4>1, SetFrameEffect
        <4>3. \A g \in Handlers : once'[g] = IF g = h THEN "running" ELSE once[g]
          BY <4>1 DEF LoopTypeOK
        <4>4. \A d \in Callers : frame[d].pc = "post" => frame[d].h # h
          BY <3>2 DEF FrameInv
        <4> HIDE DEF h
        <4> QED BY <3>1, <4>2, <4>3, <4>4 DEF FrameInv, AttachSteps
      <3>3. CASE once[h] # "open"
        BY <1>4, <2>4, <3>1, <3>3, ClearFrameEffect DEF CloseOnce
      <3> QED BY <3>2, <3>3
    <2>5. CASE PostRemove(c)
      BY <1>4, <2>5, ClearFrameEffect DEF PostRemove
    <2>6. CASE StopWakeup(c)
      <3>1. \A d \in Callers : /\ frame'[d].pc = IF d = c THEN "join" ELSE frame[d].pc
                               /\ frame'[d].h = IF d = c THEN NoHandler ELSE frame[d].h
        BY <2>6, SetFrameEffect DEF StopWakeup
      <3> QED BY <1>4, <2>6, <3>1 DEF StopWakeup
    <2>8. CASE Stop(c)
      <3>1. \A d \in Callers : /\ frame'[d].pc = IF d = c THEN "signal" ELSE frame[d].pc
                               /\ frame'[d].h = IF d = c THEN NoHandler ELSE frame[d].h
        BY <2>8, SetFrameEffect DEF Stop
      <3> QED BY <1>4, <2>8, <3>1 DEF Stop
    <2>7. CASE Join(c)
      BY <1>4, <2>7, ClearFrameEffect DEF Join
    <2> QED BY <1>5, <2>1, <2>2, <2>3, <2>4, <2>5, <2>6, <2>7, <2>8 DEF CallStep
  <1> QED BY <1>2, <1>3, <1>5 DEF LoopNext, CallStart

-----------------------------------------------------------------------------
(* Run() and the tables.                                                   *)

\* The stage of Process() and the place in Run() fit together.
LEMMA PlaceStep ==
  ASSUME LoopTypeOK, RegInv, LoopNext
  PROVE  PlaceInv'
  <1> USE FrameTypes DEF RegInv
  <1>1. ASSUME UNCHANGED <<run, stage, cur>>, frame'[Loop].pc \in AttachSteps => frame[Loop].pc \in AttachSteps
        PROVE  PlaceInv'
    BY <1>1 DEF PlaceInv
  <1>2. ASSUME NEW c \in Callers, NEW p, NEW h, SetFrame(c, p, h), UNCHANGED <<run, stage, cur>>,
               p \in AttachSteps => c # Loop \/ frame[c].pc \in AttachSteps
        PROVE  PlaceInv'
    <2>1. \A d \in Callers : frame'[d].pc = IF d = c THEN p ELSE frame[d].pc
      BY <1>2, SetFrameEffect
    <2> QED BY <1>1, <1>2, <2>1 DEF Callers
  <1>3. ASSUME NEW c \in Callers, ClearFrame(c), UNCHANGED <<run, stage, cur>> PROVE PlaceInv'
    <2>1. \A d \in Callers : frame'[d].pc = IF d = c THEN "idle" ELSE frame[d].pc
      BY <1>3, ClearFrameEffect
    <2> QED BY <1>1, <1>3, <2>1 DEF Callers, AttachSteps
  <1>4. CASE CheckStop \/ EndProcess \/ CollectEvents \/ LastWakeup \/ LastProcess
    <2>1. frame[Loop].pc \in AttachSteps => run \in {"process", "last"}
      BY DEF PlaceInv
    <2>2. CASE CheckStop \/ LastProcess
      BY <2>1, <2>2 DEF CheckStop, LastProcess, EnterProcess, epollVars, handlerVars, PlaceInv
    <2>3. CASE EndProcess
      BY <2>3 DEF EndProcess, LeaveProcess, LoopFree, Callers, handlerVars, PlaceInv, AttachSteps, Idle
    <2>4. CASE CollectEvents \/ LastWakeup
      BY <2>1, <2>4 DEF CollectEvents, LastWakeup, WakeupOnly, loopVars, epollVars, handlerVars, PlaceInv
    <2> QED BY <1>4, <2>2, <2>3, <2>4
  <1>5. CASE Callback
    <2>1. stage \in {"next", "elements"} /\ stage' = stage /\ UNCHANGED <<run, frame>>
      BY <1>5 DEF Callback, TakeFd, AddFinalize, ReadyFinalize, Element, handlerVars
    <2> QED BY <2>1 DEF PlaceInv
  <1>6. CASE Quiet
    <2>1. cur = NoHandler /\ cur' = NoHandler /\ stage # "idle" /\ UNCHANGED <<run, frame>>
      BY <1>6 DEF Quiet, LoopFree, EpollWait, TakePending, Drain, Swap, EndElements, RemoveFinalize, Element,
                  handlerVars, runVars
    <2> QED BY <2>1 DEF PlaceInv
  <1>7. CASE EndCallback \/ EndTask
    <2>1. UNCHANGED <<run, stage>> /\ (cur' = NoHandler \/ cur' = cur)
      BY <1>7 DEF EndCallback, EndTask, Release, Return, epollVars
    <2>2. UNCHANGED frame \/ SetFrame(Loop, "once", cur)
      BY <1>7 DEF EndCallback, EndTask, Release
    <2>3. frame'[Loop].pc \in AttachSteps => frame[Loop].pc \in AttachSteps
      BY <2>2, SetFrameEffect DEF Callers, AttachSteps
    <2> QED BY <2>1, <2>3 DEF PlaceInv
  <1>8. CASE TaskClose \/ \E h \in Handlers : CloseCollected(h)
    BY <1>2, <1>8 DEF TaskClose, CloseCollected, Callers, epollVars, AttachSteps
  <1>9. CASE ModifyEvent \/ \E f \in Fds : Kernel(f)
    BY <1>1, <1>9 DEF ModifyEvent, Modify, Kernel, KernelReady, loopVars, handlerVars, runVars
  <1>10. ASSUME NEW c \in Callers, CallStep(c) \/ Stop(c) PROVE PlaceInv'
    <2>1. CASE Add(c) \/ PostRemove(c) \/ Join(c)
      BY <1>3, <2>1 DEF Add, PostRemove, Join, AddElement, loopVars, epollVars, runVars
    <2>2. CASE CreateEvent(c) \/ AssignEvent(c)
      BY <1>2, <2>2 DEF CreateEvent, AssignEvent, epollVars, runVars, AttachSteps
    <2>3. CASE StopWakeup(c) \/ Stop(c)
      BY <1>2, <2>3 DEF StopWakeup, Stop, WakeupOnly, loopVars, epollVars, runVars, AttachSteps
    <2>4. CASE CloseOnce(c)
      BY <1>2, <1>3, <2>4 DEF CloseOnce, epollVars, AttachSteps
    <2> QED BY <1>10, <2>1, <2>2, <2>3, <2>4 DEF CallStep
  <1>11. ASSUME NEW c \in Callers, NEW h \in Handlers,
                \/ New(c, h) \/ Attach(c, h) \/ Execute(c, h)
                \/ ReadyEvent(c, h) \/ CloseEvent(c, h) \/ Cancel(c, h) \/ Drop(c, h)
         PROVE  PlaceInv'
    <2>1. CASE New(c, h) \/ ReadyEvent(c, h)
      BY <1>1, <2>1 DEF New, ReadyEvent, AddElement, loopVars, epollVars, handlerVars, runVars
    <2>2. CASE Attach(c, h) \/ Execute(c, h)
      <3>1. UNCHANGED <<run, stage, cur>> /\ SetFrame(c, "create", h) /\ (c = Loop => cur # NoHandler)
        BY <2>2 DEF Attach, Execute, CanCall, epollVars, runVars
      <3>2. \A d \in Callers : frame'[d].pc = IF d = c THEN "create" ELSE frame[d].pc
        BY <3>1, SetFrameEffect
      <3> QED BY <3>1, <3>2 DEF PlaceInv, Callers
    <2>3. CASE CloseEvent(c, h) \/ Cancel(c, h)
      BY <1>2, <2>3 DEF CloseEvent, Cancel, epollVars, runVars, AttachSteps
    <2>4. CASE Drop(c, h)
      BY <1>1, <1>2, <2>4 DEF Drop, epollVars, runVars, AttachSteps
    <2> QED BY <1>11, <2>1, <2>2, <2>3, <2>4
  <1> QED BY <1>4, <1>5, <1>6, <1>7, <1>8, <1>9, <1>10, <1>11 DEF LoopNext, RunStep, CallStart

\* An Event is in the table from its making to its close; the loop keeps only handlers that live.
LEMMA TableStep ==
  ASSUME LoopTypeOK, RegInv, LoopNext
  PROVE  TableInv'
  <1> USE FrameTypes DEF RegInv
  <1>1. ASSUME UNCHANGED <<obj, evt, once, table, internal, closing, toClose, run>> PROVE TableInv'
    BY <1>1 DEF TableInv, Alive
  <1>2. CASE CheckStop \/ CollectEvents \/ LastWakeup \/ LastProcess \/ EndProcess
    <2>1. UNCHANGED <<obj, evt, once, table, internal>>
      BY <1>2 DEF CheckStop, CollectEvents, LastWakeup, LastProcess, EndProcess, handlerVars
    <2>2. CASE CheckStop \/ LastWakeup \/ LastProcess \/ EndProcess
      <3>1. run' # "close" /\ toClose' = toClose /\ toClose = {}
        BY <2>2 DEF TableInv, CheckStop, LastWakeup, LastProcess, EndProcess, LeaveProcess, PlaceInv
      <3>2. closing' \subseteq closing
        BY <2>2 DEF CheckStop, LastWakeup, LastProcess, EndProcess
      <3> QED BY <2>1, <3>1, <3>2 DEF TableInv, Alive
    <2>3. CASE CollectEvents
      BY <2>1, <2>3 DEF TableInv, Alive, CollectEvents, LoopTypeOK
    <2> QED BY <1>2, <2>2, <2>3
  <1>3. CASE Callback \/ Quiet \/ ModifyEvent \/ TaskClose \/ \E f \in Fds : Kernel(f)
    BY <1>1, <1>3 DEF Callback, Quiet, ModifyEvent, TaskClose, Kernel, handlerVars, runVars
  <1>4. ASSUME NEW h \in Handlers, CloseCollected(h) PROVE TableInv'
    BY <1>4 DEF TableInv, Alive, CloseCollected
  <1>5. ASSUME NEW kept \in SUBSET internal, Release(cur, kept), cur \in Handlers,
               UNCHANGED <<evt, once, table, run, closing, toClose>>
        PROVE  TableInv'
    <2>1. /\ internal' = kept
          /\ \/ obj[cur] = "released" /\ cur \notin kept /\ obj' = [obj EXCEPT ![cur] = "dead"]
             \/ UNCHANGED obj
      BY <1>5 DEF Release
    <2> QED BY <1>5, <2>1 DEF TableInv, Alive, LoopTypeOK
  <1>6. CASE EndCallback
    BY <1>5, <1>6, EventLoopAssumption DEF EndCallback
  <1>7. CASE EndTask
    <2>1. CASE cur \in internal
      BY <1>5, <1>7, <2>1, EventLoopAssumption DEF EndTask
    <2>2. CASE cur \notin internal
      BY <1>1, <1>7, <2>2 DEF EndTask
    <2> QED BY <2>1, <2>2
  <1>8. ASSUME NEW c \in Callers, CallStep(c) \/ Stop(c) PROVE TableInv'
    <2>1. CASE Add(c) \/ StopWakeup(c) \/ Join(c) \/ Stop(c)
      BY <1>1, <2>1 DEF Add, StopWakeup, Join, Stop, runVars
    <2>2. CASE CreateEvent(c) \/ AssignEvent(c)
      <3> DEFINE h == frame[c].h
      <3>1. /\ h \in Handlers /\ (once[h] = "open" \/ evt[h] # "none")
            /\ \/ evt[h] = "none" /\ obj[h] = "owned" /\ evt' = [evt EXCEPT ![h] = "created"] /\ table' = table \cup {h}
               \/ evt[h] = "created" /\ evt' = [evt EXCEPT ![h] = "assigned"] /\ table' = table
            /\ UNCHANGED <<obj, once, internal, closing, toClose, run>>
        BY <2>2 DEF CreateEvent, AssignEvent, FrameInv, TableInv, AttachSteps, runVars
      <3> HIDE DEF h
      <3> QED BY <3>1 DEF TableInv, Alive, LoopTypeOK
    <2>3. CASE CloseOnce(c)
      <3> DEFINE h == frame[c].h
      <3>1. h \in Handlers /\ evt[h] # "none" /\ UNCHANGED <<obj, evt, internal, closing, toClose, run>>
        BY <2>3 DEF CloseOnce, FrameInv
      <3>2. \/ once' = [once EXCEPT ![h] = "running"] /\ table' = table \ {h}
            \/ UNCHANGED <<once, table>>
        BY <2>3 DEF CloseOnce
      <3> HIDE DEF h
      <3> QED BY <3>1, <3>2 DEF TableInv, Alive, LoopTypeOK
    <2>4. CASE PostRemove(c)
      <3> DEFINE h == frame[c].h
      <3>1. h \in Handlers /\ evt[h] # "none" /\ once[h] = "running" /\ once' = [once EXCEPT ![h] = "done"]
        BY <2>4 DEF PostRemove, FrameInv
      <3>2. UNCHANGED <<obj, evt, table, internal, closing, toClose, run>>
        BY <2>4 DEF PostRemove, runVars
      <3> HIDE DEF h
      <3> QED BY <3>1, <3>2 DEF TableInv, Alive, LoopTypeOK
    <2> QED BY <1>8, <2>1, <2>2, <2>3, <2>4 DEF CallStep
  <1>9. ASSUME NEW c \in Callers, NEW h \in Handlers,
               \/ New(c, h) \/ Attach(c, h) \/ Execute(c, h)
               \/ ReadyEvent(c, h) \/ CloseEvent(c, h) \/ Cancel(c, h) \/ Drop(c, h)
        PROVE  TableInv'
    <2>1. CASE Attach(c, h) \/ ReadyEvent(c, h) \/ CloseEvent(c, h) \/ Cancel(c, h)
      BY <1>1, <2>1 DEF Attach, ReadyEvent, CloseEvent, Cancel, handlerVars, runVars
    <2>2. CASE New(c, h) \/ Execute(c, h)
      <3>1. /\ obj[h] = "unborn" /\ obj' = [obj EXCEPT ![h] = "owned"] /\ internal' \subseteq internal \cup {h}
            /\ UNCHANGED <<evt, once, table, closing, toClose, run>>
        BY <2>2 DEF New, Execute, runVars
      <3> QED BY <3>1 DEF TableInv, Alive, LoopTypeOK
    <2>3. CASE Drop(c, h)
      <3>1. /\ obj[h] = "owned" /\ UNCHANGED <<evt, once, table, internal, closing, toClose, run>>
            /\ \/ obj' = [obj EXCEPT ![h] = "released"]
               \/ obj' = [obj EXCEPT ![h] = "dead"] /\ h \notin internal
        BY <2>3 DEF Drop, runVars
      <3> QED BY <3>1 DEF TableInv, Alive, LoopTypeOK
    <2> QED BY <1>9, <2>1, <2>2, <2>3
  <1> QED BY <1>2, <1>3, <1>4, <1>6, <1>7, <1>8, <1>9 DEF LoopNext, RunStep, CallStart

-----------------------------------------------------------------------------
(* The way of an Event through the demultiplexer.                          *)

\* Who is attaching after a step of a call.
LEMMA ComingKept ==
  ASSUME LoopTypeOK, NEW c \in Callers, frame[c].pc \in AttachSteps => frame[c].h \notin Handlers,
         NEW p, p \notin AttachSteps, NEW x, SetFrame(c, p, x) \/ ClearFrame(c)
  PROVE  \A g \in Handlers : Coming(g)' <=> Coming(g)
  <1>1. \A d \in Callers : d # c => frame'[d].pc = frame[d].pc /\ frame'[d].h = frame[d].h
    BY SetFrameEffect, ClearFrameEffect
  <1>2. frame'[c].pc \notin AttachSteps
    BY SetFrameEffect, ClearFrameEffect DEF AttachSteps
  <1> QED BY <1>1, <1>2 DEF Coming

LEMMA ComingStarts ==
  ASSUME LoopTypeOK, NEW c \in Callers, NEW h \in Handlers, frame[c] = Idle, SetFrame(c, "create", h)
  PROVE  \A g \in Handlers : Coming(g)' <=> Coming(g) \/ g = h
  <1>1. \A d \in Callers : /\ frame'[d].pc = IF d = c THEN "create" ELSE frame[d].pc
                           /\ frame'[d].h = IF d = c THEN h ELSE frame[d].h
    BY SetFrameEffect
  <1>2. frame[c].pc = "idle"
    BY DEF Idle
  <1> QED BY <1>1, <1>2 DEF Coming, AttachSteps

LEMMA ComingGoesOn ==
  ASSUME LoopTypeOK, NEW c \in Callers, frame[c].pc \in AttachSteps, NEW p \in AttachSteps,
         SetFrame(c, p, frame[c].h)
  PROVE  \A g \in Handlers : Coming(g)' <=> Coming(g)
  BY SetFrameEffect DEF Coming

LEMMA ComingEnds ==
  ASSUME LoopTypeOK, FrameInv, NEW c \in Callers, frame[c].pc = "add", ClearFrame(c)
  PROVE  \A g \in Handlers : Coming(g)' <=> Coming(g) /\ g # frame[c].h
  <1>1. \A d \in Callers : /\ frame'[d].pc = IF d = c THEN "idle" ELSE frame[d].pc
                           /\ frame'[d].h = IF d = c THEN NoHandler ELSE frame[d].h
    BY ClearFrameEffect
  <1>2. \A d \in Callers : frame[d].h = frame[c].h /\ frame[d].pc \in AttachSteps => d = c
    BY DEF FrameInv, AttachSteps
  <1> QED BY <1>1, <1>2 DEF Coming, AttachSteps

\* Steps that post nothing, take nothing and call nothing.
LEMMA PostKept ==
  ASSUME LoopTypeOK, PostInv, UNCHANGED <<adds, removes, events, evt>>, cur' \in {cur, NoHandler},
         \A g \in Handlers : Stored(g)' => Stored(g),
         \A g \in Handlers : Coming(g)' <=> Coming(g),
         \A g \in Handlers : once'[g] = once[g] \/ (once[g] = "open" /\ once'[g] = "running")
  PROVE  PostInv'
  <1>1. \A g \in Handlers : Registered(g)' <=> Registered(g)
    BY DEF Registered
  <1>2. \A g \in Handlers : cur' = g => cur = g
    BY EPollAssumption
  <1> QED BY <1>1, <1>2 DEF PostInv, Ahead

\* An Event that the loop thread takes from the first vector, or for a callback.
LEMMA PostCallback ==
  ASSUME LoopTypeOK, RegInv, FiledByHandle, Callback
  PROVE  PostInv'
  <1>1. cur = NoHandler /\ UNCHANGED <<frame, evt, once>>
    BY DEF Callback, LoopFree, handlerVars
  <1>2. \A g \in Handlers : Coming(g)' <=> Coming(g)
    BY <1>1 DEF Coming
  <1>3. ASSUME NEW b \in batch, TakeFd(b, Alive(events[b[1]])) PROVE PostInv'
    <2>1. b[1] \in Fds /\ UNCHANGED <<events, pending, stage, turn, work, pos>>
      BY <1>3 DEF TakeFd, queueVars, LoopTypeOK, TypeOK
    <2>2. cur' # NoHandler => cur' = events[b[1]] /\ events[b[1]] \in Handlers
      BY <1>1, <1>3, <2>1 DEF TakeFd, Call, LoopTypeOK, TypeOK
    <2>3. cur' # NoHandler => Registered(cur')
      BY <2>1, <2>2, EPollAssumption DEF Registered, FiledByHandle
    <2>4. adds' = adds /\ removes' = removes /\ \A g \in Handlers : Stored(g)' => Stored(g)
      BY <2>1, QuietEffect DEF LoopTypeOK
    <2>5. \A g \in Handlers : Registered(g)' <=> Registered(g)
      BY <2>1 DEF Registered
    <2>6. \A g \in Handlers : cur' = g => Registered(g)
      BY <2>3, EPollAssumption
    <2> QED BY <1>1, <1>2, <2>4, <2>5, <2>6 DEF RegInv, PostInv, Ahead
  <1>4. ASSUME NEW h \in Handlers, ReadyFinalize(h, Alive(h)) PROVE PostInv'
    <2>1. Element("ready", h) /\ UNCHANGED <<events, pending, stage, turn, work>>
      BY <1>4 DEF ReadyFinalize, queueVars
    <2>2. \A g \in Handlers : cur' = g => Registered(g)
      <3>1. cur' = NoHandler \/ (cur' = h /\ Registered(h))
        BY <1>1, <1>4, Zenon DEF ReadyFinalize, Call
      <3>2. ASSUME NEW g \in Handlers, cur' = g PROVE Registered(g)
        <4>1. cur' # NoHandler
          BY <3>2, EPollAssumption
        <4>2. g = h /\ Registered(h)
          BY <3>1, <3>2, <4>1
        <4> QED BY <4>2
      <3> QED BY <3>2
    <2>3. adds' = adds /\ removes' = removes /\ \A g \in Handlers : Stored(g)' <=> Stored(g)
      <3>1. \A l : Element(l, h) /\ l # "add" /\ l # "remove" =>
               adds' = adds /\ removes' = removes /\ \A g \in Handlers : Stored(g)' <=> Stored(g)
        BY <2>1, ElementEffect DEF LoopTypeOK
      <3> QED BY <2>1, <3>1
    <2>4. \A g \in Handlers : Registered(g)' <=> Registered(g)
      BY <2>1 DEF Registered
    <2> QED BY <1>1, <1>2, <2>2, <2>3, <2>4 DEF RegInv, PostInv, Ahead
  <1>5. ASSUME NEW h \in Handlers, AddFinalize(h, Alive(h)) PROVE PostInv'
    <2>1. Element("add", h) /\ UNCHANGED <<pending, stage, turn, work>>
      BY <1>5 DEF AddFinalize, queueVars
    <2>2. /\ adds = <<h>> \o adds' /\ adds' \in Seq(Handlers) /\ removes' = removes
          /\ Stored(h) /\ \A g \in Handlers : Stored(g)' => Stored(g)
      BY <2>1, ElementEffect DEF LoopTypeOK
    <2>3. /\ \A g : Holds(adds, g) <=> Holds(adds', g) \/ g = h
          /\ Distinct(adds') /\ ~Holds(adds', h)
      <3>1. Distinct(adds)
        BY DEF RegInv, PostInv
      <3> QED BY <2>2, <3>1, TakeFirst
    <2>4. evt[h] = "assigned" /\ ~Coming(h)
      BY <2>3 DEF RegInv, PostInv
    <2>5. CASE Handle[h] = NoFd
      <3>1. events' = events /\ cur' \in {h, NoHandler}
        BY <1>1, <1>5, <2>5 DEF AddFinalize, Call
      <3>2. \A g \in Handlers : Registered(g)' <=> Registered(g)
        BY <3>1 DEF Registered
      <3>3. ~Registered(h)
        BY <2>5 DEF Registered
      <3>4. \A g \in Handlers : cur' = g => g = h
        BY <3>1, EPollAssumption
      <3> QED BY <1>1, <1>2, <2>2, <2>3, <2>4, <2>5, <3>2, <3>3, <3>4 DEF RegInv, PostInv, Ahead
    <2>6. CASE Handle[h] # NoFd
      <3>1. events' = [events EXCEPT ![Handle[h]] = h] /\ cur' = NoHandler /\ Handle[h] \in Fds
        BY <1>1, <1>5, <2>6, EPollAssumption DEF AddFinalize
      <3>2. Registered(h)' /\ \A g \in Handlers : Registered(g)' => Registered(g) \/ g = h
        BY <2>6, <3>1 DEF Registered, LoopTypeOK, TypeOK
      <3>3. \A g \in Handlers : Registered(g) => Registered(g)'
        <4> SUFFICES ASSUME NEW g \in Handlers, Registered(g) PROVE Registered(g)'
          OBVIOUS
        <4>1. CASE Handle[g] = Handle[h]
          <5>1. Open(g) /\ Open(h)
            BY <2>2, <2>4 DEF Open, EventHeld, Stored, RegInv, PostInv
          <5> QED BY <2>6, <3>2, <4>1, <5>1 DEF RegInv, OwnerInv
        <4>2. CASE Handle[g] # Handle[h]
          BY <3>1, <4>2, EPollAssumption DEF Registered, LoopTypeOK, TypeOK
        <4> QED BY <4>1, <4>2
      <3>4. \A g \in Handlers : cur' # g
        BY <3>1, EPollAssumption
      <3> QED BY <1>1, <1>2, <2>2, <2>3, <2>4, <2>6, <3>2, <3>3, <3>4 DEF RegInv, PostInv, Ahead
    <2> QED BY <2>5, <2>6
  <1> QED BY <1>3, <1>4, <1>5 DEF Callback

\* An Event that the loop thread takes out of epoll.
LEMMA PostRemoval ==
  ASSUME LoopTypeOK, RegInv, NEW h \in Handlers, RemoveFinalize(h), UNCHANGED handlerVars
  PROVE  PostInv'
  <1>1. cur = NoHandler /\ cur' = NoHandler /\ UNCHANGED <<frame, evt, once>>
    BY DEF RemoveFinalize, Element, handlerVars
  <1>2. \A g \in Handlers : (Coming(g)' <=> Coming(g)) /\ cur' # g
    BY <1>1, EPollAssumption DEF Coming
  <1>3. Element("remove", h) /\ UNCHANGED <<pending, stage, turn, work>>
    BY DEF RemoveFinalize, queueVars
  <1>4. /\ removes = <<h>> \o removes' /\ removes' \in Seq(Handlers) /\ adds' = adds
        /\ Stored(h) /\ \A g \in Handlers : Stored(g)' => Stored(g)
    BY <1>3, ElementEffect DEF LoopTypeOK
  <1>5. /\ \A g : Holds(removes, g) <=> Holds(removes', g) \/ g = h
        /\ Distinct(removes') /\ ~Holds(removes', h)
    <2>1. Distinct(removes)
      BY DEF RegInv, PostInv
    <2> QED BY <1>4, <2>1, TakeFirst
  <1>6. evt[h] # "none" /\ once[h] = "done"
    BY <1>4, <1>5 DEF RegInv, PostInv
  <1>7. \A g \in Handlers : Registered(g)' => Registered(g)
    BY EPollAssumption DEF RemoveFinalize, Registered, LoopTypeOK, TypeOK
  <1>8. \A g \in Handlers : g # h /\ Registered(g) => Registered(g)'
    <2> SUFFICES ASSUME NEW g \in Handlers, g # h, Registered(g) PROVE Registered(g)'
      OBVIOUS
    <2>1. CASE Handle[g] = Handle[h]
      <3>1. Open(g) /\ Open(h) /\ Handle[g] # NoFd
        BY <1>4, <1>6 DEF Open, EventHeld, Stored, RegInv, PostInv, Registered
      <3> QED BY <2>1, <3>1 DEF RegInv, OwnerInv
    <2>2. CASE Handle[g] # Handle[h]
      BY <2>2, EPollAssumption DEF RemoveFinalize, Registered, LoopTypeOK, TypeOK
    <2> QED BY <2>1, <2>2
  <1> QED BY <1>1, <1>2, <1>4, <1>5, <1>6, <1>7, <1>8 DEF RegInv, PostInv, Ahead

\* A post of the loop's calls: Add, Remove, Ready.
LEMMA PostPost ==
  ASSUME LoopTypeOK, RegInv, NEW c \in Callers,
         Add(c) \/ PostRemove(c) \/ \E h \in Handlers : ReadyEvent(c, h)
  PROVE  PostInv'
  <1> USE FrameTypes DEF RegInv, Lists
  <1>1. CASE Add(c)
    <2> DEFINE h == frame[c].h
    <2>1. frame[c].pc = "add" /\ AddElement("add", h) /\ ClearFrame(c) /\ UNCHANGED <<evt, once>>
      BY <1>1 DEF Add
    <2>2. h \in Handlers /\ evt[h] = "assigned" /\ Coming(h)
      BY <2>1 DEF FrameInv, Coming, AttachSteps
    <2>3. \A g \in Handlers : Coming(g)' <=> Coming(g) /\ g # h
      BY <2>1, ComingEnds
    <2> HIDE DEF h
    <2>4. /\ adds' = Append(adds, h) /\ removes' = removes /\ UNCHANGED <<events, cur>>
          /\ \A g \in Handlers : Stored(g)' <=> Stored(g) \/ g = h
      BY <2>1, <2>2, PostEffect DEF LoopTypeOK, loopVars
    <2>5. ~Holds(adds, h)
      BY <2>2 DEF PostInv
    <2>6. /\ \A g : Holds(adds', g) <=> Holds(adds, g) \/ g = h
          /\ Distinct(adds')
      BY <2>2, <2>4, <2>5, AppendHolds, VectorTypes DEF LoopTypeOK, PostInv
    <2>7. \A g \in Handlers : Registered(g)' <=> Registered(g)
      BY <2>4 DEF Registered
    <2> QED BY <2>1, <2>2, <2>3, <2>4, <2>6, <2>7 DEF PostInv, Ahead
  <1>2. CASE PostRemove(c)
    <2> DEFINE h == frame[c].h
    <2>1. /\ frame[c].pc = "post" /\ AddElement("remove", h) /\ ClearFrame(c) /\ UNCHANGED evt
          /\ once' = [once EXCEPT ![h] = "done"]
      BY <1>2 DEF PostRemove
    <2>2. h \in Handlers /\ evt[h] # "none" /\ once[h] = "running"
      BY <2>1 DEF FrameInv
    <2>3. \A g \in Handlers : Coming(g)' <=> Coming(g)
      <3>1. frame[c].pc \notin AttachSteps /\ "idle" \notin AttachSteps
        BY <2>1 DEF AttachSteps
      <3> QED BY <2>1, <3>1, ComingKept
    <2> HIDE DEF h
    <2>4. /\ removes' = Append(removes, h) /\ adds' = adds /\ UNCHANGED <<events, cur>>
          /\ \A g \in Handlers : Stored(g)' <=> Stored(g) \/ g = h
      BY <2>1, <2>2, PostEffect DEF LoopTypeOK, loopVars
    <2>5. ~Holds(removes, h)
      BY <2>2 DEF PostInv
    <2>6. /\ \A g : Holds(removes', g) <=> Holds(removes, g) \/ g = h
          /\ Distinct(removes')
      BY <2>2, <2>4, <2>5, AppendHolds, VectorTypes DEF LoopTypeOK, PostInv
    <2>7. \A g \in Handlers : Registered(g)' <=> Registered(g)
      BY <2>4 DEF Registered
    <2>8. \A g \in Handlers : once'[g] = IF g = h THEN "done" ELSE once[g]
      BY <2>1 DEF LoopTypeOK
    <2> QED BY <2>1, <2>2, <2>3, <2>4, <2>6, <2>7, <2>8 DEF PostInv, Ahead
  <1>3. ASSUME NEW h \in Handlers, ReadyEvent(c, h) PROVE PostInv'
    <2>1. AddElement("ready", h) /\ evt[h] = "assigned" /\ UNCHANGED <<evt, once, frame>>
      BY <1>3 DEF ReadyEvent, handlerVars
    <2>2. /\ adds' = adds /\ removes' = removes /\ UNCHANGED <<events, cur>>
          /\ \A g \in Handlers : Stored(g)' <=> Stored(g) \/ g = h
      BY <2>1, PostEffect DEF LoopTypeOK, loopVars
    <2>3. \A g \in Handlers : (Coming(g)' <=> Coming(g)) /\ (Registered(g)' <=> Registered(g))
      BY <2>1, <2>2 DEF Coming, Registered
    <2> QED BY <2>1, <2>2, <2>3 DEF PostInv, Ahead
  <1> QED BY <1>1, <1>2, <1>3

\* Steps of Attach before the post.
LEMMA PostAttach ==
  ASSUME LoopTypeOK, RegInv, NEW c \in Callers,
         \/ CreateEvent(c) \/ AssignEvent(c)
         \/ \E h \in Handlers : Attach(c, h) \/ Execute(c, h)
  PROVE  PostInv'
  <1> USE FrameTypes DEF RegInv
  <1>1. UNCHANGED <<epollVars, once>>
    BY DEF CreateEvent, AssignEvent, Attach, Execute
  <1>2. /\ adds' = adds /\ removes' = removes /\ cur' = cur
        /\ \A g \in Handlers : (Stored(g)' => Stored(g)) /\ (Registered(g)' <=> Registered(g))
    BY <1>1, QuietEffect DEF LoopTypeOK, epollVars, Registered
  <1>3. ASSUME NEW h \in Handlers, Attach(c, h) \/ Execute(c, h) PROVE PostInv'
    <2>1. evt[h] = "none" /\ evt' = evt
      BY <1>3 DEF Attach, Execute, TableInv
    <2>2. \A g \in Handlers : Coming(g)' <=> Coming(g) \/ g = h
      BY <1>3, ComingStarts DEF Attach, Execute, CanCall
    <2> QED BY <1>1, <1>2, <2>1, <2>2 DEF PostInv, Ahead
  <1>4. CASE CreateEvent(c) \/ AssignEvent(c)
    <2> DEFINE h == frame[c].h
    <2>1. h \in Handlers /\ Coming(h)
      BY <1>4 DEF CreateEvent, AssignEvent, Coming, AttachSteps
    <2>2. \/ evt[h] = "none" /\ evt' = [evt EXCEPT ![h] = "created"]
          \/ evt[h] = "created" /\ evt' = [evt EXCEPT ![h] = "assigned"]
      BY <1>4 DEF CreateEvent, AssignEvent, FrameInv
    <2>3. \A g \in Handlers : Coming(g)' <=> Coming(g)
      BY <1>4, ComingGoesOn DEF CreateEvent, AssignEvent, AttachSteps
    <2> HIDE DEF h
    <2>4. /\ \A g \in Handlers : g # h => evt'[g] = evt[g]
          /\ evt[h] # "assigned" /\ evt'[h] # "none"
      BY <2>1, <2>2 DEF LoopTypeOK
    <2>5. \A g \in Handlers : Ahead(g)' <=> Ahead(g)
      BY <1>2, <2>3 DEF Ahead
    <2>6. \A g \in Handlers : Handle[g] # NoFd /\ evt'[g] # "none" /\ (once[g] # "done" \/ Holds(removes, g))
                                => Registered(g) \/ Ahead(g)
      BY <2>1, <2>4 DEF PostInv, Ahead
    <2> QED BY <1>1, <1>2, <2>3, <2>4, <2>5, <2>6 DEF PostInv
  <1> QED BY <1>3, <1>4

\* Where an Event may be, step by step.
LEMMA PostStep ==
  ASSUME LoopTypeOK, RegInv, FiledByHandle, LoopNext
  PROVE  PostInv'
  <1> USE FrameTypes DEF RegInv
  <1>1. ASSUME UNCHANGED <<events, evt>>, cur' \in {cur, NoHandler},
               \/ EnterProcess \/ EpollWait \/ TakePending \/ Drain \/ Swap \/ EndElements \/ LeaveProcess
               \/ UNCHANGED <<pending, stage, turn, work, pos>>,
               \A g \in Handlers : Coming(g)' <=> Coming(g),
               \A g \in Handlers : once'[g] = once[g] \/ (once[g] = "open" /\ once'[g] = "running")
        PROVE  PostInv'
    <2>1. UNCHANGED <<adds, removes>> /\ \A g \in Handlers : Stored(g)' => Stored(g)
      BY <1>1, QuietEffect DEF LoopTypeOK
    <2> QED BY <1>1, <2>1, PostKept
  <1>2. ASSUME UNCHANGED <<events, evt, frame, once>>, cur' \in {cur, NoHandler},
               \/ EnterProcess \/ EpollWait \/ TakePending \/ Drain \/ Swap \/ EndElements \/ LeaveProcess
               \/ UNCHANGED <<pending, stage, turn, work, pos>>
        PROVE  PostInv'
    <2>1. \A g \in Handlers : Coming(g)' <=> Coming(g)
      BY <1>2 DEF Coming
    <2> QED BY <1>1, <1>2, <2>1
  <1>3. ASSUME NEW c \in Callers, NEW x, SetFrame(c, "once", x), frame[c].pc \notin AttachSteps,
               UNCHANGED <<pending, stage, turn, work, pos, events, evt, once>>, cur' \in {cur, NoHandler}
        PROVE  PostInv'
    <2>1. \A g \in Handlers : Coming(g)' <=> Coming(g)
      BY <1>3, ComingKept DEF AttachSteps
    <2> QED BY <1>1, <1>3, <2>1
  <1>4. CASE CheckStop \/ EndProcess \/ LastProcess
    BY <1>2, <1>4 DEF CheckStop, EndProcess, LastProcess, EnterProcess, LeaveProcess, handlerVars, epollVars
  <1>5. CASE CollectEvents \/ LastWakeup \/ ModifyEvent \/ \E f \in Fds : Kernel(f)
    BY <1>2, <1>5 DEF CollectEvents, LastWakeup, WakeupOnly, ModifyEvent, Modify, Kernel, KernelReady, queueVars,
                      loopVars, epollVars, handlerVars
  <1>6. ASSUME NEW h \in Handlers, CloseCollected(h) PROVE PostInv'
    BY <1>3, <1>6 DEF CloseCollected, epollVars, Idle, Callers, AttachSteps
  <1>7. CASE Callback
    BY <1>7, PostCallback
  <1>8. CASE Quiet
    <2>1. CASE EpollWait \/ TakePending \/ Drain \/ Swap \/ EndElements
      BY <1>2, <1>8, <2>1 DEF Quiet, EpollWait, TakePending, Drain, Swap, EndElements, handlerVars
    <2>2. ASSUME NEW h \in Handlers, RemoveFinalize(h) PROVE PostInv'
      BY <1>8, <2>2, PostRemoval DEF Quiet
    <2> QED BY <1>8, <2>1, <2>2 DEF Quiet
  <1>9. CASE TaskClose
    BY <1>3, <1>9 DEF TaskClose, epollVars, Idle, Callers, AttachSteps
  <1>10. CASE EndCallback \/ EndTask
    <2>1. /\ UNCHANGED <<pending, stage, turn, work, pos, events, evt, once>> /\ cur' \in {cur, NoHandler}
          /\ frame[Loop] = Idle /\ (UNCHANGED frame \/ SetFrame(Loop, "once", cur))
      BY <1>10 DEF EndCallback, EndTask, Release, Return, queueVars, epollVars
    <2> QED BY <1>2, <1>3, <2>1 DEF Idle, Callers, AttachSteps
  <1>11. ASSUME NEW c \in Callers, CallStep(c) \/ Stop(c) PROVE PostInv'
    <2>1. CASE CreateEvent(c) \/ AssignEvent(c)
      BY <2>1, PostAttach
    <2>2. CASE Add(c) \/ PostRemove(c)
      BY <2>2, PostPost
    <2>3. CASE CloseOnce(c)
      <3>1. \A g \in Handlers : Coming(g)' <=> Coming(g)
        BY <2>3, ComingKept DEF CloseOnce, AttachSteps
      <3>2. \A g \in Handlers : once'[g] = once[g] \/ (once[g] = "open" /\ once'[g] = "running")
        BY <2>3 DEF CloseOnce, LoopTypeOK
      <3> QED BY <1>1, <2>3, <3>1, <3>2 DEF CloseOnce, epollVars
    <2>4. CASE StopWakeup(c) \/ Join(c) \/ Stop(c)
      <3>1. \A g \in Handlers : Coming(g)' <=> Coming(g)
        BY <2>4, ComingKept DEF StopWakeup, Join, Stop, Idle, AttachSteps
      <3>2. UNCHANGED <<pending, stage, turn, work, pos, events, cur, evt, once>>
        BY <2>4 DEF StopWakeup, Join, Stop, WakeupOnly, loopVars, epollVars
      <3> QED BY <1>1, <3>1, <3>2
    <2> QED BY <1>11, <2>1, <2>2, <2>3, <2>4 DEF CallStep
  <1>12. ASSUME NEW c \in Callers, NEW h \in Handlers,
                \/ New(c, h) \/ Attach(c, h) \/ Execute(c, h)
                \/ ReadyEvent(c, h) \/ CloseEvent(c, h) \/ Cancel(c, h) \/ Drop(c, h)
         PROVE  PostInv'
    <2>1. CASE New(c, h)
      BY <1>2, <2>1 DEF New, epollVars
    <2>2. CASE Attach(c, h) \/ Execute(c, h)
      BY <2>2, PostAttach
    <2>3. CASE ReadyEvent(c, h)
      BY <2>3, PostPost
    <2>4. CASE CloseEvent(c, h) \/ Cancel(c, h)
      BY <1>3, <2>4 DEF CloseEvent, Cancel, CanCall, epollVars, Idle, AttachSteps
    <2>5. CASE Drop(c, h)
      BY <1>2, <1>3, <2>5 DEF Drop, CanCall, epollVars, Idle, AttachSteps
    <2> QED BY <1>12, <2>1, <2>2, <2>3, <2>4, <2>5
  <1> QED BY <1>4, <1>5, <1>6, <1>7, <1>8, <1>9, <1>10, <1>11, <1>12 DEF LoopNext, RunStep, CallStart

\* The loop keeps a function until it has run.
LEMMA TaskStep ==
  ASSUME LoopTypeOK, RegInv, FiledByHandle, LoopNext
  PROVE  TaskInv'
  <1> USE FrameTypes DEF RegInv
  <1>1. ASSUME internal \subseteq internal', cur' \in {cur, NoHandler}, \A g \in Tasks : Ahead(g)' => Ahead(g)
        PROVE  TaskInv'
    BY <1>1, EPollAssumption, EventLoopAssumption DEF TaskInv
  <1>2. ASSUME internal \subseteq internal', cur' \in {cur, NoHandler},
               \/ EnterProcess \/ EpollWait \/ TakePending \/ Drain \/ Swap \/ EndElements \/ LeaveProcess
               \/ UNCHANGED <<pending, stage, turn, work, pos>>,
               \A g \in Handlers : Coming(g)' <=> Coming(g)
        PROVE  TaskInv'
    <2>1. adds' = adds
      BY <1>2, QuietEffect DEF LoopTypeOK
    <2> QED BY <1>1, <1>2, <2>1, EventLoopAssumption DEF Ahead
  <1>3. UNCHANGED frame => \A g \in Handlers : Coming(g)' <=> Coming(g)
    BY DEF Coming
  <1>4. ASSUME NEW c \in Callers, NEW x, SetFrame(c, "once", x), frame[c].pc \notin AttachSteps
        PROVE  \A g \in Handlers : Coming(g)' <=> Coming(g)
    BY <1>4, ComingKept DEF AttachSteps
  <1>5. CASE CheckStop \/ EndProcess \/ LastProcess
    BY <1>2, <1>3, <1>5 DEF CheckStop, EndProcess, LastProcess, EnterProcess, LeaveProcess, handlerVars, epollVars
  <1>6. CASE CollectEvents \/ LastWakeup \/ ModifyEvent \/ \E f \in Fds : Kernel(f)
    BY <1>2, <1>3, <1>6 DEF CollectEvents, LastWakeup, WakeupOnly, ModifyEvent, Modify, Kernel, KernelReady,
                            queueVars, loopVars, epollVars, handlerVars
  <1>7. CASE TaskClose \/ \E h \in Handlers : CloseCollected(h)
    BY <1>2, <1>4, <1>7 DEF TaskClose, CloseCollected, epollVars, Idle, Callers, AttachSteps
  <1>8. CASE Callback
    <2>1. cur = NoHandler /\ UNCHANGED <<internal, frame>>
      BY <1>8 DEF Callback, LoopFree, handlerVars
    <2>2. ASSUME NEW h \in Handlers, cur' \in {h, NoHandler}, h \in Tasks => Ahead(h),
                 \A g \in Handlers : Holds(adds', g) => Holds(adds, g)
          PROVE  TaskInv'
      BY <1>3, <2>1, <2>2, EPollAssumption, EventLoopAssumption DEF TaskInv, Ahead
    <2>3. ASSUME NEW b \in batch, TakeFd(b, Alive(events[b[1]])) PROVE TaskInv'
      <3>1. b[1] \in Fds /\ UNCHANGED <<pending, stage, turn, work, pos>>
        BY <2>3 DEF TakeFd, queueVars, LoopTypeOK, TypeOK
      <3>2. adds' = adds
        BY <3>1, QuietEffect DEF LoopTypeOK
      <3>3. CASE cur' = NoHandler
        BY <1>1, <1>3, <2>1, <3>2, <3>3, EventLoopAssumption DEF Ahead
      <3>4. CASE cur' # NoHandler
        <4>1. cur' = events[b[1]] /\ events[b[1]] \in Handlers
          BY <2>1, <2>3, <3>1, <3>4 DEF TakeFd, Call, LoopTypeOK, TypeOK
        <4>2. events[b[1]] \notin Tasks
          BY <3>1, <4>1, EPollAssumption, EventLoopAssumption DEF FiledByHandle
        <4> QED BY <2>2, <3>2, <4>1, <4>2
      <3> QED BY <3>3, <3>4
    <2>4. ASSUME NEW h \in Handlers, ReadyFinalize(h, Alive(h)) PROVE TaskInv'
      <3>1. Element("ready", h) /\ UNCHANGED <<pending, stage, turn, work>>
        BY <2>4 DEF ReadyFinalize, queueVars
      <3>2. \A l : Element(l, h) /\ l # "add" => adds' = adds
        BY <3>1, ElementEffect DEF LoopTypeOK
      <3>3. adds' = adds
        BY <3>1, <3>2
      <3>4. CASE Registered(h)
        <4>1. h \notin Tasks /\ cur' \in {h, NoHandler}
          BY <2>4, <3>4, EventLoopAssumption DEF ReadyFinalize, Call, Registered
        <4> QED BY <2>2, <3>3, <4>1
      <3>5. CASE ~Registered(h)
        BY <1>1, <1>3, <2>1, <2>4, <3>3, <3>5, EventLoopAssumption DEF ReadyFinalize, Ahead
      <3> QED BY <3>4, <3>5
    <2>5. ASSUME NEW h \in Handlers, AddFinalize(h, Alive(h)) PROVE TaskInv'
      <3>1. Element("add", h) /\ UNCHANGED <<pending, stage, turn, work>> /\ cur' \in {h, NoHandler}
        BY <2>1, <2>5 DEF AddFinalize, Call, queueVars
      <3>2. adds = <<h>> \o adds' /\ adds' \in Seq(Handlers)
        BY <3>1, ElementEffect DEF LoopTypeOK
      <3>3. \A g : Holds(adds, g) <=> Holds(adds', g) \/ g = h
        BY <3>2, TakeFirst
      <3> QED BY <2>2, <3>1, <3>3 DEF Ahead
    <2> QED BY <1>8, <2>3, <2>4, <2>5 DEF Callback
  <1>9. CASE Quiet
    <2>1. CASE EpollWait \/ TakePending \/ Drain \/ Swap \/ EndElements
      BY <1>2, <1>3, <1>9, <2>1 DEF Quiet, EpollWait, TakePending, Drain, Swap, EndElements, handlerVars
    <2>2. ASSUME NEW h \in Handlers, RemoveFinalize(h) PROVE TaskInv'
      <3>1. Element("remove", h) /\ UNCHANGED <<pending, stage, turn, work, cur>>
        BY <2>2 DEF RemoveFinalize, queueVars
      <3>2. \A l : Element(l, h) /\ l # "add" => adds' = adds
        BY <3>1, ElementEffect DEF LoopTypeOK
      <3>3. adds' = adds
        BY <3>1, <3>2
      <3> QED BY <1>1, <1>3, <1>9, <3>1, <3>3, EventLoopAssumption DEF Quiet, handlerVars, Ahead
    <2> QED BY <1>9, <2>1, <2>2 DEF Quiet
  <1>10. CASE EndCallback \/ EndTask
    <2>1. frame[Loop] = Idle /\ (UNCHANGED frame \/ SetFrame(Loop, "once", cur))
      BY <1>10 DEF EndCallback, EndTask, Release
    <2>2. UNCHANGED <<pending, stage, turn, work, pos>>
      BY <1>10 DEF EndCallback, EndTask, Release, Return, queueVars, epollVars
    <2>3. \A g \in Handlers : Coming(g)' <=> Coming(g)
      BY <1>3, <1>4, <2>1 DEF Idle, Callers, AttachSteps
    <2>4. CASE internal' = internal
      <3>1. cur' \in {cur, NoHandler}
        BY <1>10 DEF EndCallback, EndTask, Release, Return, epollVars
      <3> QED BY <1>2, <2>2, <2>3, <2>4, <3>1
    <2>5. CASE EndTask /\ internal' # internal
      <3>1. internal' = internal \ {cur} /\ cur' = NoHandler /\ cur \in Handlers
        BY <2>5, EventLoopAssumption DEF EndTask, Release, Return
      <3>2. ~Ahead(cur)
        BY <3>1 DEF PostInv
      <3>3. \A g \in Handlers : Ahead(g)' <=> Ahead(g)
        BY <2>2, <2>3, QuietEffect DEF LoopTypeOK, Ahead
      <3> QED BY <3>1, <3>2, <3>3, EPollAssumption, EventLoopAssumption DEF TaskInv
    <2> QED BY <1>10, <2>4, <2>5 DEF EndCallback, Release
  <1>11. ASSUME NEW c \in Callers, CallStep(c) \/ Stop(c) PROVE TaskInv'
    <2>1. CASE CreateEvent(c) \/ AssignEvent(c)
      BY <1>2, <2>1, ComingGoesOn DEF CreateEvent, AssignEvent, epollVars, AttachSteps
    <2>2. CASE Add(c)
      <3>1. frame[c].h \in Handlers /\ frame[c].pc = "add" /\ AddElement("add", frame[c].h) /\ ClearFrame(c)
        BY <2>2 DEF Add
      <3>2. adds' = Append(adds, frame[c].h) /\ cur' = cur /\ internal' = internal
        BY <2>2, <3>1, PostEffect DEF Add, LoopTypeOK, Lists, loopVars
      <3>3. \A g : Holds(adds', g) <=> Holds(adds, g) \/ g = frame[c].h
        BY <3>1, <3>2, AppendHolds, VectorTypes DEF LoopTypeOK
      <3>4. Coming(frame[c].h) /\ \A g \in Handlers : Coming(g)' => Coming(g)
        BY <3>1, ComingEnds DEF Coming, AttachSteps
      <3> QED BY <1>1, <3>2, <3>3, <3>4, EventLoopAssumption DEF Ahead
    <2>3. CASE PostRemove(c)
      <3>1. frame[c].h \in Handlers /\ AddElement("remove", frame[c].h) /\ internal' = internal
        BY <2>3 DEF PostRemove
      <3>2. adds' = adds /\ cur' = cur
        BY <3>1, PostEffect DEF LoopTypeOK, Lists, loopVars
      <3>3. \A g \in Handlers : Coming(g)' <=> Coming(g)
        BY <2>3, ComingKept DEF PostRemove, AttachSteps
      <3> QED BY <1>1, <3>1, <3>2, <3>3, EventLoopAssumption DEF Ahead
    <2>4. CASE CloseOnce(c) \/ StopWakeup(c) \/ Join(c) \/ Stop(c)
      <3>1. \A g \in Handlers : Coming(g)' <=> Coming(g)
        BY <2>4, ComingKept DEF CloseOnce, StopWakeup, Join, Stop, Idle, AttachSteps
      <3>2. UNCHANGED <<pending, stage, turn, work, pos, cur, internal>>
        BY <2>4 DEF CloseOnce, StopWakeup, Join, Stop, WakeupOnly, loopVars, epollVars
      <3> QED BY <1>2, <3>1, <3>2
    <2> QED BY <1>11, <2>1, <2>2, <2>3, <2>4 DEF CallStep
  <1>12. ASSUME NEW c \in Callers, NEW h \in Handlers,
                \/ New(c, h) \/ Attach(c, h) \/ Execute(c, h)
                \/ ReadyEvent(c, h) \/ CloseEvent(c, h) \/ Cancel(c, h) \/ Drop(c, h)
         PROVE  TaskInv'
    <2>1. CASE New(c, h)
      BY <1>2, <1>3, <2>1 DEF New, epollVars
    <2>2. CASE Attach(c, h) \/ Execute(c, h)
      <3>1. \A g \in Handlers : Coming(g)' <=> Coming(g) \/ g = h
        BY <2>2, ComingStarts DEF Attach, Execute, CanCall
      <3>2. adds' = adds /\ cur' = cur
        BY <2>2, QuietEffect DEF Attach, Execute, epollVars, LoopTypeOK
      <3>3. internal \subseteq internal' /\ (h \in Tasks => h \in internal')
        BY <2>2, EventLoopAssumption DEF Attach, Execute, Internal
      <3> QED BY <3>1, <3>2, <3>3, EventLoopAssumption DEF TaskInv, Ahead
    <2>3. CASE ReadyEvent(c, h)
      <3>1. AddElement("ready", h) /\ UNCHANGED <<internal, frame>>
        BY <2>3 DEF ReadyEvent, handlerVars
      <3>2. adds' = adds /\ cur' = cur
        BY <3>1, PostEffect DEF LoopTypeOK, Lists, loopVars
      <3> QED BY <1>1, <1>3, <3>1, <3>2, EventLoopAssumption DEF Ahead
    <2>4. CASE CloseEvent(c, h) \/ Cancel(c, h) \/ Drop(c, h)
      BY <1>2, <1>3, <1>4, <2>4 DEF CloseEvent, Cancel, Drop, CanCall, epollVars, Idle, AttachSteps
    <2> QED BY <1>12, <2>1, <2>2, <2>3, <2>4
  <1> QED BY <1>5, <1>6, <1>7, <1>8, <1>9, <1>10, <1>11, <1>12 DEF LoopNext, RunStep, CallStart

-----------------------------------------------------------------------------
(* The owner of a descriptor.                                              *)

\* No step opens a descriptor but the making of its handler.
LEMMA OwnerKept ==
  ASSUME LoopTypeOK, OwnerInv,
         \A g \in Handlers :
           \/ Handle[g] = NoFd
           \/ Open(g)
           \/ /\ evt'[g] = evt[g] /\ (Alive(g)' => Alive(g)) /\ (InFrame(g)' => InFrame(g))
              /\ (Stored(g)' => Stored(g)) /\ (Registered(g)' => Registered(g))
              /\ g \in table' \cup closing' => g \in table \cup closing
  PROVE  OwnerInv'
  <1>1. ASSUME NEW g \in Handlers, Handle[g] # NoFd, Open(g)' PROVE Open(g)
    BY <1>1 DEF Open, EventHeld, Stored
  <1> QED BY <1>1 DEF OwnerInv

\* A new frame, or one less.
LEMMA InFrameEffect ==
  ASSUME LoopTypeOK, NEW c \in Callers
  PROVE  /\ \A p, x : SetFrame(c, p, x) => \A g : InFrame(g)' => InFrame(g) \/ g = x
         /\ ClearFrame(c) => \A g \in Handlers : InFrame(g)' => InFrame(g)
  BY SetFrameEffect, ClearFrameEffect, EPollAssumption DEF InFrame

LEMMA OwnerStep ==
  ASSUME LoopTypeOK, RegInv, FiledByHandle, CalledWhileRegistered, LoopNext
  PROVE  OwnerInv'
  <1> USE FrameTypes DEF RegInv
  <1>1. (UNCHANGED frame => \A g \in Handlers : InFrame(g)' => InFrame(g))
        /\ (UNCHANGED obj => \A g \in Handlers : Alive(g)' => Alive(g))
        /\ (UNCHANGED events => \A g \in Handlers : Registered(g)' => Registered(g))
    BY DEF InFrame, Alive, Registered
  <1>2. \/ EnterProcess \/ EpollWait \/ TakePending \/ Drain \/ Swap \/ EndElements \/ LeaveProcess
        \/ UNCHANGED <<pending, stage, turn, work, pos>>
        => \A g \in Handlers : Stored(g)' => Stored(g)
    BY QuietEffect DEF LoopTypeOK
  <1>3. ASSUME UNCHANGED <<obj, evt, frame, events>>, table' \cup closing' \subseteq table \cup closing,
               \/ EnterProcess \/ EpollWait \/ TakePending \/ Drain \/ Swap \/ EndElements \/ LeaveProcess
               \/ UNCHANGED <<pending, stage, turn, work, pos>>
        PROVE  OwnerInv'
    BY <1>1, <1>2, <1>3, OwnerKept
  <1>4. CASE CheckStop \/ LastProcess \/ EndProcess
    BY <1>3, <1>4 DEF CheckStop, EndProcess, LastProcess, EnterProcess, LeaveProcess, handlerVars, epollVars
  <1>5. CASE CollectEvents \/ LastWakeup \/ ModifyEvent \/ \E f \in Fds : Kernel(f)
    BY <1>3, <1>5 DEF CollectEvents, LastWakeup, WakeupOnly, ModifyEvent, Modify, Kernel, KernelReady,
                      queueVars, loopVars, epollVars, handlerVars, runVars
  <1>6. ASSUME NEW c \in Callers, NEW p, NEW x \in Handlers, Open(x) \/ Handle[x] = NoFd, SetFrame(c, p, x),
               UNCHANGED <<evt, events, pending, stage, turn, work, pos, closing>>, table' \subseteq table,
               \A g \in Handlers : Alive(g)' => Alive(g)
        PROVE  OwnerInv'
    <2>1. \A g \in Handlers : InFrame(g)' => InFrame(g) \/ g = x
      BY <1>6, InFrameEffect
    <2> QED BY <1>1, <1>2, <1>6, <2>1, OwnerKept
  <1>7. ASSUME NEW h \in Handlers, CloseCollected(h) PROVE OwnerInv'
    <2>1. Open(h)
      BY <1>7 DEF CloseCollected, TableInv, Open, EventHeld
    <2> QED BY <1>1, <1>6, <1>7, <2>1 DEF CloseCollected, epollVars, Callers
  <1>8. CASE TaskClose
    BY <1>1, <1>6, <1>8, EventLoopAssumption DEF TaskClose, epollVars, Callers
  <1>9. CASE Callback
    <2>1. UNCHANGED <<obj, evt, frame, table, closing>>
      BY <1>9 DEF Callback, handlerVars
    <2>2. ASSUME NEW b \in batch, TakeFd(b, Alive(events[b[1]])) PROVE OwnerInv'
      BY <1>3, <2>1, <2>2 DEF TakeFd, queueVars
    <2>3. ASSUME NEW h \in Handlers, NEW l, Element(l, h), UNCHANGED <<pending, stage, turn, work>>,
                 \A g \in Handlers : Registered(g)' => Registered(g) \/ g = h
          PROVE  OwnerInv'
      <3>1. Stored(h) /\ \A g \in Handlers : Stored(g)' => Stored(g)
        BY <2>3, ElementEffect DEF LoopTypeOK
      <3>2. Open(h)
        BY <3>1 DEF PostInv, Open, EventHeld, Stored
      <3> QED BY <1>1, <2>1, <2>3, <3>1, <3>2, OwnerKept
    <2>4. ASSUME NEW h \in Handlers, ReadyFinalize(h, Alive(h)) PROVE OwnerInv'
      BY <1>1, <2>3, <2>4 DEF ReadyFinalize, queueVars
    <2>5. ASSUME NEW h \in Handlers, AddFinalize(h, Alive(h)) PROVE OwnerInv'
      <3>1. \A g \in Handlers : Registered(g)' => Registered(g) \/ g = h
        BY <2>5, EPollAssumption DEF AddFinalize, Registered, LoopTypeOK, TypeOK
      <3> QED BY <2>3, <2>5, <3>1 DEF AddFinalize, queueVars
    <2> QED BY <1>9, <2>2, <2>4, <2>5 DEF Callback
  <1>10. CASE Quiet
    <2>1. CASE EpollWait \/ TakePending \/ Drain \/ Swap \/ EndElements
      BY <1>3, <1>10, <2>1 DEF Quiet, EpollWait, TakePending, Drain, Swap, EndElements, handlerVars, runVars
    <2>2. ASSUME NEW h \in Handlers, RemoveFinalize(h) PROVE OwnerInv'
      <3>1. Element("remove", h) /\ UNCHANGED <<pending, stage, turn, work>>
        BY <2>2 DEF RemoveFinalize, queueVars
      <3>2. \A g \in Handlers : Stored(g)' => Stored(g)
        BY <3>1, ElementEffect DEF LoopTypeOK
      <3>3. \A g \in Handlers : Registered(g)' => Registered(g)
        BY <2>2, EPollAssumption DEF RemoveFinalize, Registered, LoopTypeOK, TypeOK
      <3> QED BY <1>1, <1>10, <3>2, <3>3, OwnerKept DEF Quiet, handlerVars, runVars
    <2> QED BY <1>10, <2>1, <2>2 DEF Quiet
  <1>11. ASSUME NEW kept, Release(cur, kept), cur \in Handlers, UNCHANGED <<evt, table, closing>>
         PROVE  OwnerInv'
    <2>1. UNCHANGED <<pending, stage, turn, work, pos, events>>
      BY <1>11 DEF Release, Return, queueVars
    <2>2. CASE obj[cur] = "released" /\ cur \notin kept
      <3>1. Open(cur)
        BY <1>11, <2>2 DEF PostInv, Open, EventHeld, Alive
      <3>2. SetFrame(Loop, "once", cur) /\ \A g \in Handlers : Alive(g)' => Alive(g)
        BY <1>11, <2>2 DEF Release, Alive, LoopTypeOK
      <3> QED BY <1>6, <1>11, <2>1, <3>1, <3>2 DEF Callers
    <2> QED BY <1>3, <1>11, <2>1, <2>2 DEF Release
  <1>12. CASE EndCallback
    BY <1>11, <1>12, EventLoopAssumption DEF EndCallback
  <1>13. CASE EndTask
    <2>1. CASE cur \in internal
      BY <1>11, <1>13, <2>1, EventLoopAssumption DEF EndTask
    <2>2. CASE cur \notin internal
      BY <1>3, <1>13, <2>2 DEF EndTask, epollVars
    <2> QED BY <2>1, <2>2
  <1>14. ASSUME NEW c \in Callers, CallStep(c) \/ Stop(c) PROVE OwnerInv'
    <2>1. CASE CreateEvent(c) \/ AssignEvent(c)
      <3> DEFINE h == frame[c].h
      <3>1. h \in Handlers /\ SetFrame(c, frame'[c].pc, h) /\ InFrame(h)
            /\ (evt[h] = "none" => obj[h] = "owned")
        BY <2>1, SetFrameEffect DEF CreateEvent, AssignEvent, FrameInv, InFrame, AttachSteps
      <3>2. Open(h)
        BY <3>1 DEF Open, EventHeld, Alive
      <3>3. \A g \in Handlers : InFrame(g)' => InFrame(g) \/ g = h
        BY <3>1, InFrameEffect
      <3>4. /\ UNCHANGED <<obj, pending, stage, turn, work, pos, events, closing>> /\ table' \subseteq table \cup {h}
            /\ \A g \in Handlers : g # h => evt'[g] = evt[g]
        BY <2>1, <3>1 DEF CreateEvent, AssignEvent, epollVars, runVars, LoopTypeOK
      <3> HIDE DEF h
      <3> QED BY <1>1, <1>2, <3>2, <3>3, <3>4, OwnerKept
    <2>2. ASSUME NEW h \in Handlers, Open(h), NEW l \in Lists, AddElement(l, h), UNCHANGED <<obj, evt, table, closing>>,
                 \A g \in Handlers : InFrame(g)' => InFrame(g)
          PROVE  OwnerInv'
      <3>1. UNCHANGED events /\ \A g \in Handlers : Stored(g)' <=> Stored(g) \/ g = h
        BY <2>2, PostEffect DEF LoopTypeOK
      <3> QED BY <1>1, <2>2, <3>1, OwnerKept
    <2>3. CASE Add(c) \/ PostRemove(c)
      <3> DEFINE h == frame[c].h
      <3>1. /\ h \in Handlers /\ evt[h] # "none" /\ UNCHANGED <<obj, evt, table, closing>> /\ ClearFrame(c)
            /\ \E l \in Lists : AddElement(l, h)
        BY <2>3 DEF Add, PostRemove, FrameInv, Lists, AttachSteps, runVars
      <3>2. Open(h)
        BY <3>1 DEF Open, EventHeld, InFrame
      <3>3. \A g \in Handlers : InFrame(g)' => InFrame(g)
        BY <3>1, InFrameEffect
      <3> HIDE DEF h
      <3> QED BY <2>2, <3>1, <3>2, <3>3
    <2>4. CASE CloseOnce(c)
      <3> DEFINE h == frame[c].h
      <3>1. h \in Handlers /\ evt[h] # "none" /\ UNCHANGED <<obj, evt, pending, stage, turn, work, pos, events, closing>>
        BY <2>4 DEF CloseOnce, FrameInv, epollVars
      <3>2. Open(h) /\ table' \subseteq table
        BY <2>4, <3>1 DEF CloseOnce, Open, EventHeld, InFrame
      <3>3. SetFrame(c, "post", h) \/ ClearFrame(c)
        BY <2>4 DEF CloseOnce
      <3>4. \A g \in Handlers : InFrame(g)' => InFrame(g) \/ g = h
        BY <3>3, InFrameEffect
      <3> HIDE DEF h
      <3> QED BY <1>1, <1>2, <3>1, <3>2, <3>4, OwnerKept
    <2>5. CASE StopWakeup(c) \/ Stop(c) \/ Join(c)
      <3>1. UNCHANGED <<obj, evt, pending, stage, turn, work, pos, events, table, closing>>
        BY <2>5 DEF StopWakeup, Stop, Join, WakeupOnly, loopVars, epollVars, runVars
      <3>2. \A g \in Handlers : InFrame(g)' => InFrame(g)
        BY <2>5, InFrameEffect, EPollAssumption DEF StopWakeup, Stop, Join
      <3> QED BY <1>1, <1>2, <3>1, <3>2, OwnerKept
    <2> QED BY <1>14, <2>1, <2>3, <2>4, <2>5 DEF CallStep
  <1>15. ASSUME NEW c \in Callers, NEW h \in Handlers,
                \/ New(c, h) \/ Attach(c, h) \/ Execute(c, h)
                \/ ReadyEvent(c, h) \/ CloseEvent(c, h) \/ Cancel(c, h) \/ Drop(c, h)
         PROVE  OwnerInv'
    <2>1. CASE New(c, h) \/ Execute(c, h)
      <3>1. /\ UNCHANGED <<evt, pending, stage, turn, work, pos, events, table, closing>>
            /\ obj' = [obj EXCEPT ![h] = "owned"] /\ (Handle[h] # NoFd => FdFree(Handle[h]))
            /\ UNCHANGED frame \/ SetFrame(c, "create", h)
        BY <2>1, EventLoopAssumption DEF New, Execute, epollVars, runVars, Internal
      <3>2. \A g \in Handlers : g # h => (Alive(g)' => Alive(g)) /\ (InFrame(g)' => InFrame(g))
        BY <1>1, <3>1, InFrameEffect DEF Alive, LoopTypeOK
      <3>3. ASSUME NEW g \in Handlers, g # h, Open(g)' PROVE Open(g)
        BY <1>1, <1>2, <3>1, <3>2, <3>3 DEF Open, EventHeld, Stored
      <3>4. \A g \in Handlers : Handle[h] # NoFd /\ Handle[g] = Handle[h] => ~Open(g)
        BY <3>1 DEF FdFree
      <3> QED BY <3>3, <3>4 DEF OwnerInv
    <2>2. CASE Attach(c, h)
      <3>1. /\ evt[h] = "none" /\ UNCHANGED <<obj, evt, pending, stage, turn, work, pos, events, table, closing>>
            /\ SetFrame(c, "create", h) /\ obj[h] = "owned"
        BY <2>2 DEF Attach, epollVars, runVars
      <3>2. Open(h)
        BY <3>1 DEF Open, Alive
      <3> QED BY <1>1, <1>6, <3>1, <3>2
    <2>3. CASE ReadyEvent(c, h)
      <3>1. AddElement("ready", h) /\ evt[h] = "assigned" /\ UNCHANGED <<obj, evt, frame, table, closing>>
        BY <2>3 DEF ReadyEvent, handlerVars, runVars
      <3>2. Alive(h) \/ Registered(h) \/ Handle[h] = NoFd
        BY <2>3, EPollAssumption DEF ReadyEvent, Alive, CalledWhileRegistered
      <3>3. Open(h) \/ Handle[h] = NoFd
        BY <3>1, <3>2 DEF Open, EventHeld
      <3>4. UNCHANGED events /\ \A g \in Handlers : Stored(g)' <=> Stored(g) \/ g = h
        BY <3>1, PostEffect DEF Lists, LoopTypeOK
      <3> QED BY <1>1, <3>1, <3>3, <3>4, OwnerKept
    <2>4. CASE CloseEvent(c, h) \/ Cancel(c, h)
      <3>1. /\ evt[h] = "assigned" /\ UNCHANGED <<obj, evt, pending, stage, turn, work, pos, events, table, closing>>
            /\ SetFrame(c, "once", h) /\ Alive(h)
        BY <2>4 DEF CloseEvent, Cancel, Alive, epollVars, runVars
      <3>2. Open(h)
        BY <3>1 DEF Open, EventHeld
      <3> QED BY <1>1, <1>6, <3>1, <3>2
    <2>5. CASE Drop(c, h)
      <3>1. /\ obj[h] = "owned" /\ UNCHANGED <<evt, pending, stage, turn, work, pos, events, table, closing>>
            /\ UNCHANGED frame \/ (evt[h] = "assigned" /\ SetFrame(c, "once", h))
        BY <2>5 DEF Drop, epollVars, runVars
      <3>2. \A g \in Handlers : Alive(g)' => Alive(g)
        BY <2>5 DEF Drop, Alive, LoopTypeOK
      <3>3. evt[h] = "assigned" => Open(h)
        BY <3>1 DEF Open, EventHeld, Alive
      <3>4. CASE UNCHANGED frame
        BY <1>1, <1>2, <3>1, <3>2, <3>4, OwnerKept
      <3> QED BY <1>6, <3>1, <3>2, <3>3, <3>4
    <2> QED BY <1>15, <2>1, <2>2, <2>3, <2>4, <2>5
  <1> QED BY <1>4, <1>5, <1>7, <1>8, <1>9, <1>10, <1>12, <1>13, <1>14, <1>15 DEF LoopNext, RunStep, CallStart

-----------------------------------------------------------------------------
\* Where every Event of the loop is, for any number of handlers, descriptors and threads:
\* with its caller, in the table, in the vectors, in epoll, and who owns its descriptor
\* (event_loop.cc:92-111, 129-169; epoll.cc:109-131, 218-268; event.cc:26-32, 49-54).
THEOREM LoopRegInv == LoopSpec => []RegInv
  <1>1. LoopInit => RegInv
    <2> SUFFICES ASSUME LoopInit PROVE RegInv
      OBVIOUS
    <2>1. adds = <<>> /\ removes = <<>> /\ \A g : ~Stored(g)
      <3>1. pending["add"] = <<>> /\ pending["remove"] = <<>> /\ pending["ready"] = <<>> /\ work = <<>> /\ stage = "idle"
        BY DEF LoopInit, Init, Lists
      <3>2. ToSet(<<>>) = {} /\ <<>> \o <<>> = <<>>
        BY DEF ToSet
      <3>3. Rest(1) = <<>> /\ Rest(2) = <<>>
        BY <3>1 DEF Rest
      <3> QED BY <3>1, <3>2, <3>3 DEF adds, removes, Stored, Lists
    <2>2. \A g : ~Holds(<<>>, g) /\ Distinct(<<>>)
      BY DEF Holds, Distinct
    <2>3. \A c \in Callers : frame[c].pc = "idle" /\ frame[c].h = NoHandler
      BY DEF LoopInit, Idle
    <2>4. \A g \in Handlers : ~Coming(g) /\ ~Ahead(g) /\ ~Registered(g) /\ ~Open(g) /\ cur # g
      BY <2>1, <2>2, <2>3, EPollAssumption
      DEF Coming, Ahead, AttachSteps, Registered, Open, Alive, LoopInit, Init
    <2>5. FrameInv /\ PlaceInv
      BY <2>3 DEF FrameInv, PlaceInv, AttachSteps, LoopInit, Init, Callers
    <2>6. TableInv
      BY DEF TableInv, LoopInit
    <2>7. PostInv
      BY <2>1, <2>2, <2>4 DEF PostInv, LoopInit
    <2>8. OwnerInv /\ TaskInv
      BY <2>4, EventLoopAssumption DEF OwnerInv, TaskInv
    <2> QED BY <2>5, <2>6, <2>7, <2>8 DEF RegInv
  <1>2. /\ LoopTypeOK /\ FiledByHandle /\ CalledWhileRegistered /\ RegInv /\ [LoopNext]_vars => RegInv'
    <2> SUFFICES ASSUME LoopTypeOK, FiledByHandle, CalledWhileRegistered, RegInv, [LoopNext]_vars PROVE RegInv'
      OBVIOUS
    <2>1. CASE LoopNext
      BY <2>1, FrameStep, PlaceStep, TableStep, PostStep, OwnerStep, TaskStep DEF RegInv
    <2>2. CASE UNCHANGED vars
      <3>1. UNCHANGED <<adds, removes>> /\ UNCHANGED <<frame, evt, obj, once, run, stage, cur, internal>>
        BY <2>2, QuietEffect DEF vars, epollVars, handlerVars, runVars, LoopTypeOK
      <3>2. /\ \A g \in Handlers : Coming(g)' <=> Coming(g)
            /\ \A g \in Handlers : Registered(g)' <=> Registered(g)
            /\ \A g \in Handlers : Open(g)' <=> Open(g)
            /\ \A g \in Handlers : Stored(g)' <=> Stored(g)
        BY <2>2 DEF vars, epollVars, handlerVars, runVars, Coming, Registered, Open, EventHeld, Stored, Alive, InFrame
      <3>3. FrameInv' /\ PlaceInv' /\ TableInv'
        BY <2>2 DEF RegInv, FrameInv, PlaceInv, TableInv, Alive, vars, epollVars, handlerVars, runVars
      <3>4. PostInv' /\ OwnerInv' /\ TaskInv'
        BY <3>1, <3>2, EventLoopAssumption DEF RegInv, PostInv, OwnerInv, TaskInv, Ahead
      <3> QED BY <3>3, <3>4 DEF RegInv
    <2> QED BY <2>1, <2>2
  <1> QED BY <1>1, <1>2, LoopTypeCorrect, LoopImplementsEPoll, EPollFiledByHandle, PTL DEF LoopSpec, ImplementsEPoll

-----------------------------------------------------------------------------
(* What can be thrown.                                                     *)

\* The first two vectors as the properties see them.
LEMMA DueVectors ==
  ASSUME TypeOK
  PROVE  /\ \A h : Holds(adds, h) <=> h \in Due("add")
         /\ \A h : Holds(removes, h) <=> h \in Due("remove")
  <1>1. /\ \A n \in 1..2 : Rest(n) \in Seq(Handlers)
        /\ pending["add"] \in Seq(Handlers) /\ pending["remove"] \in Seq(Handlers)
        /\ turn = 1 <=> Current = "add"
        /\ turn = 2 <=> Current = "remove"
    BY VectorTypes DEF TypeOK, Lists, Current, HandleOrder
  <1>2. \A h : \A q, r : q \in Seq(Handlers) /\ r \in Seq(Handlers) => (Holds(q \o r, h) <=> Holds(q, h) \/ Holds(r, h))
    <2> SUFFICES ASSUME NEW h, NEW q \in Seq(Handlers), NEW r \in Seq(Handlers)
                 PROVE  Holds(q \o r, h) <=> Holds(q, h) \/ Holds(r, h)
      OBVIOUS
    <2>1. /\ Len(q \o r) = Len(q) + Len(r) /\ Len(q) \in Nat /\ Len(r) \in Nat
          /\ \A i \in 1..(Len(q) + Len(r)) : (q \o r)[i] = IF i <= Len(q) THEN q[i] ELSE r[i - Len(q)]
      BY ConcatProperties, LenProperties
    <2> DEFINE s == q \o r
    <2> HIDE DEF s
    <2>2. ASSUME NEW i \in 1..Len(s), s[i] = h PROVE Holds(q, h) \/ Holds(r, h)
      <3>1. CASE i <= Len(q)
        BY <2>1, <2>2, <3>1 DEF Holds, s
      <3>2. CASE i > Len(q)
        <4>1. i - Len(q) \in 1..Len(r) /\ r[i - Len(q)] = h
          BY <2>1, <2>2, <3>2 DEF s
        <4> QED BY <4>1 DEF Holds
      <3> QED BY <2>1, <3>1, <3>2 DEF s
    <2>3. ASSUME NEW i \in 1..Len(q), q[i] = h PROVE Holds(s, h)
      <3>1. i \in 1..Len(s) /\ s[i] = h
        BY <2>1, <2>3 DEF s
      <3> QED BY <3>1 DEF Holds
    <2>4. ASSUME NEW i \in 1..Len(r), r[i] = h PROVE Holds(s, h)
      <3>1. i + Len(q) \in 1..Len(s) /\ s[i + Len(q)] = h
        BY <2>1, <2>4 DEF s
      <3> QED BY <3>1 DEF Holds
    <2> QED BY <2>2, <2>3, <2>4 DEF Holds, s
  <1>3. \A h : ~Holds(<<>>, h) /\ \A q : h \in ToSet(q) <=> Holds(q, h)
    BY DEF ToSet, Holds
  <1>4. \A h : Holds(adds, h) <=> Holds(Rest(1), h) \/ Holds(pending["add"], h)
    BY <1>1, <1>2 DEF adds
  <1>5. \A h : Holds(removes, h) <=> Holds(Rest(2), h) \/ Holds(pending["remove"], h)
    BY <1>1, <1>2 DEF removes
  <1>6. ASSUME NEW h PROVE Holds(adds, h) <=> h \in Due("add")
    BY <1>1, <1>3, <1>4 DEF Due, Rest
  <1>7. ASSUME NEW h PROVE Holds(removes, h) <=> h \in Due("remove")
    BY <1>1, <1>3, <1>5 DEF Due, Rest
  <1> QED BY <1>6, <1>7

\* AddFinalize finds the place of the descriptor free.
LEMMA AddFindsFree ==
  ASSUME LoopTypeOK, RegInv, FiledByHandle, NEW h \in Handlers, AddFinalize(h, Alive(h)), Handle[h] # NoFd
  PROVE  events[Handle[h]] = NoHandler
  <1>1. Element("add", h) /\ UNCHANGED <<pending, stage, turn, work>>
    BY DEF AddFinalize, queueVars
  <1>2. Stored(h) /\ adds = <<h>> \o adds' /\ adds' \in Seq(Handlers)
    BY <1>1, ElementEffect DEF LoopTypeOK
  <1>3. Holds(adds, h)
    BY <1>2, TakeFirst
  <1>4. Open(h) /\ ~Registered(h)
    BY <1>2, <1>3 DEF RegInv, PostInv, Ahead, Open, EventHeld, Stored
  <1>5. SUFFICES ASSUME NEW g \in Handlers, g = events[Handle[h]] PROVE FALSE
    BY EPollAssumption DEF LoopTypeOK, TypeOK
  <1>6. Handle[g] = Handle[h] /\ Registered(g)
    BY <1>5, EPollAssumption DEF FiledByHandle, Registered
  <1>7. Open(g)
    BY <1>6 DEF RegInv, PostInv, Open, EventHeld
  <1>8. g = h
    BY <1>4, <1>6, <1>7 DEF RegInv, OwnerInv
  <1> QED BY <1>4, <1>6, <1>8

\* Which step may fail, and how.
LEMMA ThrowStep ==
  ASSUME LoopTypeOK, RegInv, FiledByHandle, CalledWhileRegistered, LoopNext
  PROVE  OnlyAttachRaceThrows'
  <1> USE FrameTypes
  <1>1. fault = "none" /\ thrown = "none"
    BY DEF LoopNext, Crashed
  <1>2. ASSUME UNCHANGED <<fault, thrown>> PROVE OnlyAttachRaceThrows'
    BY <1>1, <1>2 DEF OnlyAttachRaceThrows, Crashed
  <1>3. CASE CheckStop \/ EndProcess \/ CollectEvents \/ LastWakeup \/ LastProcess
    BY <1>2, <1>3 DEF CheckStop, EndProcess, CollectEvents, LastWakeup, LastProcess, EnterProcess, LeaveProcess,
                      WakeupOnly, epollVars
  <1>4. CASE TaskClose \/ EndCallback \/ (\E h \in Handlers : CloseCollected(h)) \/ \E f \in Fds : Kernel(f)
    BY <1>2, <1>4 DEF TaskClose, EndCallback, Release, Return, CloseCollected, Kernel, KernelReady, epollVars, runVars
  <1>5. CASE EndTask
    <2>1. cur \in internal
      BY <1>5 DEF EndTask, RegInv, TaskInv
    <2> QED BY <1>2, <1>5, <2>1 DEF EndTask, Release, Return
  <1>6. CASE ModifyEvent
    <2>1. Registered(cur)
      BY <1>6, EPollAssumption, EventLoopAssumption DEF ModifyEvent, Modify, CalledWhileRegistered, Internal
    <2> QED BY <1>2, <1>6, <2>1 DEF ModifyEvent, Modify, runVars
  <1>7. CASE Callback
    <2>1. ASSUME NEW h \in Handlers, AddFinalize(h, Alive(h)) PROVE fault' = fault
      BY <2>1, AddFindsFree DEF AddFinalize
    <2> QED BY <1>2, <1>7, <2>1 DEF Callback, TakeFd, ReadyFinalize
  <1>8. CASE Quiet
    <2>1. CASE EpollWait \/ TakePending \/ Drain \/ Swap \/ EndElements
      BY <1>2, <1>8, <2>1 DEF Quiet, EpollWait, TakePending, Drain, Swap, EndElements, runVars
    <2>2. ASSUME NEW h \in Handlers, RemoveFinalize(h), fault' # fault PROVE OnlyAttachRaceThrows'
      <3>1. /\ Handle[h] # NoFd /\ events[Handle[h]] = NoHandler /\ fault' = "RemoveFinalize" /\ thrown' = "none"
            /\ UNCHANGED <<once, frame, evt, pending, stage, turn>> /\ Element("remove", h)
            /\ events' = [events EXCEPT ![Handle[h]] = NoHandler]
        BY <1>1, <1>8, <2>2 DEF Quiet, RemoveFinalize, queueVars, handlerVars, runVars
      <3>2. /\ removes = <<h>> \o removes' /\ removes' \in Seq(Handlers) /\ Stored(h)
        BY <2>2, ElementEffect DEF LoopTypeOK, RemoveFinalize, queueVars
      <3>3. Holds(removes, h)
        BY <3>2, TakeFirst
      <3>4. once[h] = "done" /\ evt[h] # "none"
        BY <3>2, <3>3 DEF RegInv, PostInv
      <3>5. ~Registered(h)
        BY <3>1, EPollAssumption DEF Registered
      <3>6. Ahead(h)
        BY <3>1, <3>3, <3>4, <3>5 DEF RegInv, PostInv
      <3>7. h \in Due("add") \/ Attaching(h)
        <4>1. \A c \in Callers : frame[c].h = h => frame[c].pc # "create"
          BY <3>4 DEF RegInv, FrameInv
        <4>2. Coming(h) => Attaching(h)
          BY <4>1 DEF Coming, Attaching, AttachSteps
        <4> QED BY <3>6, <4>2, DueVectors DEF Ahead, LoopTypeOK
      <3>8. Due("add")' = Due("add") /\ (Attaching(h)' <=> Attaching(h))
        BY <3>1 DEF Due, Attaching, Element, Current
      <3>9. ~Registered(h)' /\ once'[h] # "open"
        BY <3>1, <3>4, EPollAssumption DEF Registered, LoopTypeOK, TypeOK
      <3> QED BY <3>1, <3>7, <3>8, <3>9 DEF OnlyAttachRaceThrows
    <2> QED BY <1>2, <1>8, <2>1, <2>2 DEF Quiet, runVars
  <1>9. ASSUME NEW c \in Callers, CallStep(c) \/ CallStart(c) PROVE OnlyAttachRaceThrows'
    <2>1. CASE CloseOnce(c)
      <3>1. frame[c].h \in Handlers /\ evt[frame[c].h] # "none"
        BY <2>1 DEF CloseOnce, RegInv, FrameInv
      <3>2. once[frame[c].h] = "open" => frame[c].h \in table
        BY <3>1 DEF RegInv, TableInv
      <3> QED BY <1>2, <2>1, <3>2 DEF CloseOnce, epollVars
    <2>2. CASE CreateEvent(c) \/ AssignEvent(c) \/ Join(c) \/ Stop(c)
      BY <1>2, <2>2 DEF CreateEvent, AssignEvent, Join, Stop, epollVars, runVars
    <2>3. CASE Add(c) \/ PostRemove(c) \/ StopWakeup(c)
      BY <1>2, <2>3 DEF Add, PostRemove, StopWakeup, AddElement, WakeupOnly, runVars
    <2>4. ASSUME NEW h \in Handlers,
                 \/ New(c, h) \/ Attach(c, h) \/ Execute(c, h)
                 \/ ReadyEvent(c, h) \/ CloseEvent(c, h) \/ Cancel(c, h) \/ Drop(c, h)
          PROVE  OnlyAttachRaceThrows'
      BY <1>2, <2>4 DEF New, Attach, Execute, ReadyEvent, AddElement, CloseEvent, Cancel, Drop, epollVars, runVars
    <2> QED BY <1>9, <2>1, <2>2, <2>3, <2>4 DEF CallStep, CallStart
  <1> QED BY <1>3, <1>4, <1>5, <1>6, <1>7, <1>8, <1>9 DEF LoopNext, RunStep

\* The one exception that can leave the loop is `event not found' of an Event whose
\* registration is still on its way (epoll.cc:260): descriptors have one owner, and the
\* once-flag and the table of an Event agree (event_loop.cc:92-111, 129-155; event.cc:49-54).
THEOREM LoopOnlyAttachRaceThrows == LoopSpec => []OnlyAttachRaceThrows
  <1>1. LoopInit => OnlyAttachRaceThrows
    BY DEF LoopInit, Init, OnlyAttachRaceThrows, Crashed
  <1>2. /\ LoopTypeOK /\ FiledByHandle /\ CalledWhileRegistered /\ RegInv /\ OnlyAttachRaceThrows /\ [LoopNext]_vars
        => OnlyAttachRaceThrows'
    <2> SUFFICES ASSUME LoopTypeOK, FiledByHandle, CalledWhileRegistered, RegInv, OnlyAttachRaceThrows,
                        [LoopNext]_vars
                 PROVE  OnlyAttachRaceThrows'
      OBVIOUS
    <2>1. CASE LoopNext
      BY <2>1, ThrowStep
    <2>2. CASE UNCHANGED vars
      BY <2>2 DEF OnlyAttachRaceThrows, Crashed, Registered, Due, Current, Attaching, vars, epollVars, handlerVars, runVars
    <2> QED BY <2>1, <2>2
  <1> QED BY <1>1, <1>2, LoopRegInv, LoopTypeCorrect, LoopImplementsEPoll, EPollFiledByHandle, PTL
          DEF LoopSpec, ImplementsEPoll

-----------------------------------------------------------------------------
(* What epoll_wait reported.                                               *)

\* The first vector has been handled in this Process(), or is not handled in it.
PastAdds ==
  /\ <<PendingFd, NoHandler>> \notin batch
  /\ stage = "next" \/ (stage \in {"swap", "elements"} /\ turn > 1)

\* A report is of the Event that is still registered, unless it was removed since; and then
\* no Event is registered until the batch is done.
BatchInv ==
  /\ \A f \in Fds : f \in ready => events[f] # NoHandler
  /\ \A b \in batch : b[1] # PendingFd =>
       /\ b[2] # NoHandler
       /\ events[b[1]] = b[2] \/ (events[b[1]] = NoHandler /\ PastAdds)

LEMMA BatchStep ==
  ASSUME TypeOK, BatchShape, BatchInv, [EPollNext]_epollVars, fault' # "AddFinalize"
  PROVE  BatchInv'
  <1> USE EPollAssumption DEF TypeOK, BatchShape, BatchInv, PastAdds
  <1>1. ASSUME NEW l \in Lists, NEW h \in Handlers, AddElement(l, h) PROVE BatchInv'
    BY <1>1 DEF AddElement, Wakeup, loopVars
  <1>2. CASE WakeupOnly
    BY <1>2 DEF WakeupOnly, Wakeup, loopVars
  <1>3. ASSUME NEW f \in Fds, KernelReady(f) PROVE BatchInv'
    BY <1>3 DEF KernelReady, queueVars, loopVars
  <1>4. CASE EnterProcess \/ LeaveProcess
    BY <1>4 DEF EnterProcess, LeaveProcess, queueVars
  <1>5. CASE EpollWait
    <2>1. PICK S \in SUBSET ready : batch' = {Reported(f) : f \in S} /\ ready' = ready \ S
      BY <1>5 DEF EpollWait
    <2>2. events' = events
      BY <1>5 DEF EpollWait
    <2>3. ASSUME NEW b \in batch', b[1] # PendingFd PROVE b[2] # NoHandler /\ events[b[1]] = b[2]
      <3>1. PICK f \in S : b = <<f, IF f = PendingFd THEN NoHandler ELSE events[f]>>
        BY <2>1 DEF Reported
      <3> QED BY <2>3, <3>1
    <2> QED BY <2>1, <2>2, <2>3
  <1>6. ASSUME NEW b \in batch, NEW alive \in BOOLEAN, TakeFd(b, alive) PROVE BatchInv'
    BY <1>6 DEF TakeFd, queueVars
  <1>7. CASE TakePending
    BY <1>7 DEF TakePending, queueVars
  <1>8. CASE Drain
    BY <1>8 DEF Drain
  <1>9. CASE Swap
    BY <1>9 DEF Swap
  <1>10. ASSUME NEW h \in Handlers, NEW alive \in BOOLEAN, AddFinalize(h, alive) PROVE BatchInv'
    <2>1. stage = "elements" /\ turn = 1 /\ UNCHANGED <<ready, stage, batch, turn>>
      BY <1>10 DEF AddFinalize, Element, Current, HandleOrder
    <2>2. \/ events' = events
          \/ events[Handle[h]] = NoHandler /\ Handle[h] \in Fds /\ events' = [events EXCEPT ![Handle[h]] = h]
      BY <1>10 DEF AddFinalize
    <2> QED BY <2>1, <2>2
  <1>11. ASSUME NEW h \in Handlers, RemoveFinalize(h) PROVE BatchInv'
    <2>1. stage = "elements" /\ turn = 2 /\ UNCHANGED <<stage, batch, turn>>
      BY <1>11 DEF RemoveFinalize, Element, Current, HandleOrder
    <2>2. \/ UNCHANGED <<events, ready>>
          \/ /\ Handle[h] \in Fds /\ events' = [events EXCEPT ![Handle[h]] = NoHandler]
             /\ ready' = ready \ {Handle[h]}
      BY <1>11 DEF RemoveFinalize
    <2> QED BY <2>1, <2>2
  <1>12. ASSUME NEW h \in Handlers, NEW alive \in BOOLEAN, ReadyFinalize(h, alive) PROVE BatchInv'
    BY <1>12 DEF ReadyFinalize, Element, queueVars
  <1>13. CASE EndElements
    BY <1>13 DEF EndElements, HandleOrder, queueVars
  <1>14. ASSUME NEW h \in Handlers, Modify(h) PROVE BatchInv'
    BY <1>14 DEF Modify, queueVars, loopVars
  <1>15. CASE Return
    BY <1>15 DEF Return, queueVars
  <1>16. CASE UNCHANGED epollVars
    BY <1>16 DEF epollVars
  <1> QED BY ZenonT(40), <1>1, <1>2, <1>3, <1>4, <1>5, <1>6, <1>7, <1>8, <1>9, <1>10, <1>11, <1>12, <1>13, <1>14, <1>15, <1>16
          DEF EPollNext, LoopStep

\* The inductive invariant behind NoStaleDelivery: a report that is still to be looked at is
\* of the Event that is in events_, or of one that was removed in this Process() (epoll.cc:143-178).
THEOREM LoopBatchInv == LoopSpec => []BatchInv
  <1>1. LoopInit => BatchInv
    BY DEF LoopInit, Init, BatchInv
  <1>2. OnlyAttachRaceThrows' => fault' # "AddFinalize"
    BY DEF OnlyAttachRaceThrows, Crashed
  <1>3. LoopTypeOK /\ WakeupInv /\ BatchInv /\ OnlyAttachRaceThrows' /\ [LoopNext]_vars => BatchInv'
    BY <1>2, BatchStep, StepImplementsEPoll DEF LoopTypeOK, WakeupInv
  <1> QED BY <1>1, <1>3, LoopOnlyAttachRaceThrows, LoopTypeCorrect, LoopImplementsEPoll, EPollWakeupInv, PTL
          DEF LoopSpec, ImplementsEPoll

\* A report never reaches another Event than the one it was made for: Events are added
\* before the removals of the same Process() and not after them (epoll.cc:154-156), and the
\* number of a descriptor is free only when its last Event is destroyed (event.cc:26-32).
THEOREM LoopNoStaleDelivery == LoopSpec => []NoStaleDelivery
  <1>1. BatchInv => NoStaleDelivery
    BY DEF BatchInv, NoStaleDelivery
  <1> QED BY <1>1, LoopBatchInv, PTL
=============================================================================
