------------------------- MODULE StreamBufferProofs -------------------------
(***************************************************************************)
(* Proofs about one stream, for any number of user threads, any views, any *)
(* room in the send buffer and any start of the socket: its types, the     *)
(* order of what is sent, and that it implements StreamPromise.            *)
(***************************************************************************)
EXTENDS StreamBuffer, SequenceTheorems, TLAPS

\* The first chunk of a DataView, and the one after its last.
First(view) == view[1]
After(view) == First(view) + Len(view)

\* A DataView holds consecutive chunks.
Consecutive(view) == \A i \in 1..Len(view) : view[i] = First(view) + i - 1

\* The views of a list hold the chunks from a on, up to but not including b, in order.
Counts(list, a, b) ==
  /\ \A k \in 1..Len(list) : Consecutive(list[k])
  /\ \A k, n \in 1..Len(list) : n = k + 1 => First(list[n]) = After(list[k])
  /\ list = <<>> => a = b
  /\ list # <<>> => First(list[1]) = a /\ After(list[Len(list)]) = b

\* The first chunk that has not left pending_writes_.
untaken == IF pendingWrites = <<>> THEN queued + 1 ELSE First(pendingWrites[1])

\* The chunks that were sent, those in pending_out_ and those in pending_writes_, one
\* after the other, count 1, 2, 3, ... up to queued; a failed send() leaves a hole.
CountInv ==
  /\ SentInOrder
  /\ Counts(pendingWrites, untaken, queued + 1)
  /\ ~lost => Counts(pendingOut, Len(sent) + 1, untaken)

\* The lists hold what was queued; this is part of the types.
ListsOK ==
  /\ queued \in Nat
  /\ pendingWrites \in Seq(Views) /\ pendingOut \in Seq(Views) /\ sent \in Seq(Chunks)

\* The other types: flags, and the rest.
FlagsOK ==
  /\ fin \in BOOLEAN /\ nospace \in BOOLEAN /\ edge \in BOOLEAN
  /\ pendingConnect \in BOOLEAN /\ handler \in BOOLEAN /\ crash \in BOOLEAN
  /\ connected \in BOOLEAN /\ readClosed \in BOOLEAN /\ writeClosed \in BOOLEAN
  /\ shouldClose \in BOOLEAN /\ eofCalled \in BOOLEAN
  /\ established \in BOOLEAN /\ closes \in BOOLEAN /\ lost \in BOOLEAN

ScalarsOK ==
  /\ sock \in Starts \cup {"connected", "refused", "reset"}
  /\ inbox \in 0..MaxRcv /\ acked \in Nat /\ notes \in Nat
  /\ reg \in {"none", "added", "registered", "closing", "closed"}
  /\ pc \in Steps
  /\ frame \in [Users -> {"idle", "push", "ready"}]
  /\ promised \in Nat
  /\ calls \in [connected : Nat, data : Nat, eof : Nat]

\* The send buffer is not overrun.
RoomInv == acked <= Len(sent) /\ Len(sent) <= acked + SndRoom

\* What the flags say about the calls of the handler, and where.
FlagInv ==
  /\ calls.connected = IF connected THEN 1 ELSE 0
  /\ calls.eof = IF eofCalled THEN 1 ELSE 0
  /\ calls.data > 0 => connected
  /\ pc = "connect" => ~connected
  /\ pc = "read" => connected
  /\ pc \in {"connect", "modify", "read", "write", "out"} => ~eofCalled
  /\ pc \in {"out", "flush"} => ~writeClosed
  /\ pc \in {"close", "flush", "shut"} => shouldClose
  /\ eofCalled => shouldClose /\ readClosed /\ writeClosed
  /\ lost => writeClosed

\* What was promised is not closed off: from DoClose on it is in the filter, and the
\* filter is closed for writing when it has sent everything.
CloseInv ==
  /\ promised <= queued
  /\ pc \in {"flush", "shut"} /\ ~writeClosed => promised < untaken
  /\ writeClosed /\ ~lost => shouldClose /\ promised <= Len(sent)

StreamInv == StreamTypeOK /\ CountInv /\ RoomInv /\ FlagInv /\ CloseInv

-----------------------------------------------------------------------------
(* Lists of views.                                                         *)

\* One more view at the end.
LEMMA CountsAppend ==
  ASSUME NEW V, NEW list \in Seq(V), NEW a, NEW b, Counts(list, a, b),
         NEW view \in V, Consecutive(view), First(view) = b
  PROVE  Append(list, view) \in Seq(V) /\ Counts(Append(list, view), a, After(view))
  <1> DEFINE l == Append(list, view)
  <1>1. /\ l \in Seq(V) /\ Len(list) \in Nat /\ Len(l) = Len(list) + 1 /\ l # <<>>
        /\ \A k \in 1..Len(list) : l[k] = list[k]
        /\ l[Len(list) + 1] = view
    BY AppendProperties, LenProperties
  <1>2. list = <<>> <=> Len(list) = 0
    BY EmptySeq
  <1> HIDE DEF l
  <1>3. \A k \in 1..Len(l) : Consecutive(l[k])
    BY <1>1, SMT DEF Counts
  <1>4. \A k, n \in 1..Len(l) : n = k + 1 => First(l[n]) = After(l[k])
    BY <1>1, <1>2 DEF Counts
  <1>5. First(l[1]) = a
    BY <1>1, <1>2 DEF Counts
  <1> QED BY <1>1, <1>3, <1>4, <1>5 DEF Counts, l

\* The first view of a list.
LEMMA CountsHead ==
  ASSUME NEW V, NEW list \in Seq(V), list # <<>>, NEW a, NEW b, Counts(list, a, b)
  PROVE  /\ Head(list) \in V /\ Consecutive(Head(list))
         /\ First(Head(list)) = a
  <1>1. Head(list) = list[1] /\ Len(list) \in Nat \ {0}
    BY EmptySeq
  <1>2. list[1] \in V
    BY <1>1, ElementOfSeq
  <1>3. First(list[1]) = a /\ Consecutive(list[1])
    BY <1>1 DEF Counts
  <1> QED BY <1>1, <1>2, <1>3

\* The other views of a list.
LEMMA CountsTail ==
  ASSUME NEW V, NEW list \in Seq(V), list # <<>>, NEW a, NEW b, Counts(list, a, b)
  PROVE  Tail(list) \in Seq(V) /\ Counts(Tail(list), After(Head(list)), b)
  <1> DEFINE l == Tail(list)
  <1>1. /\ l \in Seq(V) /\ Len(l) = Len(list) - 1
        /\ \A k \in 1..Len(l) : l[k] = list[k + 1]
    BY HeadTailProperties
  <1>2. Len(list) \in Nat \ {0} /\ Head(list) = list[1]
    BY EmptySeq
  <1>3. l = <<>> <=> Len(l) = 0
    BY <1>1, EmptySeq
  <1> HIDE DEF l
  <1>4. \A k \in 1..Len(l) : k + 1 \in 1..Len(list) /\ l[k] = list[k + 1]
    BY <1>1, <1>2
  <1>5. \A k \in 1..Len(l) : Consecutive(l[k])
    BY <1>4 DEF Counts
  <1>6. \A k, n \in 1..Len(l) : n = k + 1 => First(l[n]) = After(l[k])
    BY <1>1, <1>2, <1>4 DEF Counts
  <1>7. ASSUME l = <<>> PROVE After(list[1]) = b
    <2>1. Len(list) = 1
      BY <1>1, <1>2, <1>3, <1>7
    <2> QED BY <2>1 DEF Counts
  <1>8. ASSUME l # <<>> PROVE First(l[1]) = After(list[1]) /\ After(l[Len(l)]) = b
    <2>1. Len(l) \in Nat \ {0} /\ l[1] = list[2] /\ l[Len(l)] = list[Len(list)]
      BY <1>1, <1>2, <1>3, <1>8
    <2>2. First(list[2]) = After(list[1])
      BY <1>1, <1>2, <2>1 DEF Counts
    <2> QED BY <2>1, <2>2 DEF Counts
  <1> QED BY <1>1, <1>2, <1>5, <1>6, <1>7, <1>8 DEF Counts, l

\* One more view in front.
LEMMA CountsPrepend ==
  ASSUME NEW V, NEW list \in Seq(V), NEW b, NEW view \in V, Consecutive(view),
         Counts(list, After(view), b)
  PROVE  <<view>> \o list \in Seq(V) /\ Counts(<<view>> \o list, First(view), b)
  <1> DEFINE l == <<view>> \o list
  <1>1. /\ l \in Seq(V) /\ Len(list) \in Nat /\ Len(l) = Len(list) + 1 /\ l[1] = view
        /\ \A k \in 1..Len(list) : l[k + 1] = list[k]
    BY ConcatProperties, LenProperties
  <1>2. (list = <<>> <=> Len(list) = 0) /\ l # <<>>
    BY <1>1, EmptySeq
  <1> HIDE DEF l
  <1>3. \A k \in 1..Len(l) : k # 1 => k - 1 \in 1..Len(list) /\ l[k] = list[k - 1]
    BY <1>1
  <1>4. \A k \in 1..Len(l) : Consecutive(l[k])
    BY <1>1, <1>3 DEF Counts
  <1>5. ASSUME NEW k \in 1..Len(l), NEW n \in 1..Len(l), n = k + 1
        PROVE  First(l[n]) = After(l[k])
    <2>1. CASE k = 1
      <3>1. l[n] = list[1] /\ list # <<>>
        BY <1>1, <1>2, <1>5, <2>1
      <3> QED BY <1>1, <2>1, <3>1 DEF Counts
    <2>2. CASE k # 1
      <3>1. k - 1 \in 1..Len(list) /\ n - 1 \in 1..Len(list) /\ n - 1 = (k - 1) + 1
        BY <1>1, <1>3, <1>5, <2>2
      <3>2. l[k] = list[k - 1] /\ l[n] = list[n - 1]
        BY <1>1, <1>3, <1>5, <2>2
      <3> QED BY <3>1, <3>2 DEF Counts
    <2> QED BY <2>1, <2>2
  <1>6. After(l[Len(l)]) = b
    <2>1. CASE list = <<>>
      BY <1>1, <1>2, <2>1 DEF Counts
    <2>2. CASE list # <<>>
      <3>1. l[Len(l)] = list[Len(list)]
        BY <1>1, <1>2, <2>2
      <3> QED BY <2>2, <3>1 DEF Counts
    <2> QED BY <2>1, <2>2
  <1> QED BY <1>1, <1>2, <1>4, <1>5, <1>6 DEF Counts, l

\* A list that goes to the end of another.
LEMMA CountsConcat ==
  ASSUME NEW V, NEW s \in Seq(V), NEW t \in Seq(V), NEW a, NEW b, NEW c,
         Counts(s, a, b), Counts(t, b, c)
  PROVE  s \o t \in Seq(V) /\ Counts(s \o t, a, c)
  <1> DEFINE l == s \o t
  <1>1. /\ l \in Seq(V) /\ Len(s) \in Nat /\ Len(t) \in Nat /\ Len(l) = Len(s) + Len(t)
        /\ \A k \in 1..Len(s) : l[k] = s[k]
        /\ \A k \in 1..Len(l) : k > Len(s) => k - Len(s) \in 1..Len(t) /\ l[k] = t[k - Len(s)]
    BY ConcatProperties, LenProperties
  <1>2. (s = <<>> <=> Len(s) = 0) /\ (t = <<>> <=> Len(t) = 0) /\ (l = <<>> <=> Len(l) = 0)
    BY <1>1, EmptySeq
  <1> HIDE DEF l
  <1>3. ASSUME NEW k \in 1..Len(l)
        PROVE  Consecutive(l[k])
    <2>1. CASE k <= Len(s)
      <3>1. k \in 1..Len(s) /\ l[k] = s[k]
        BY <1>1, <2>1
      <3> QED BY <3>1 DEF Counts
    <2>2. CASE k > Len(s)
      <3>1. k - Len(s) \in 1..Len(t) /\ l[k] = t[k - Len(s)]
        BY <1>1, <2>2
      <3> QED BY <3>1 DEF Counts
    <2> QED BY <1>1, <2>1, <2>2
  <1>4. ASSUME NEW k \in 1..Len(l), NEW n \in 1..Len(l), n = k + 1
        PROVE  First(l[n]) = After(l[k])
    <2>1. CASE n <= Len(s)
      BY <1>1, <1>4, <2>1 DEF Counts
    <2>2. CASE k = Len(s)
      <3>1. l[k] = s[Len(s)] /\ l[n] = t[1] /\ s # <<>> /\ t # <<>>
        BY <1>1, <1>2, <1>4, <2>2
      <3> QED BY <3>1 DEF Counts
    <2>3. CASE k > Len(s)
      <3>1. k - Len(s) \in 1..Len(t) /\ n - Len(s) \in 1..Len(t) /\ n - Len(s) = (k - Len(s)) + 1
        BY <1>1, <1>4, <2>3
      <3>2. l[k] = t[k - Len(s)] /\ l[n] = t[n - Len(s)]
        BY <1>1, <1>4, <2>3
      <3> QED BY <3>1, <3>2 DEF Counts
    <2> QED BY <1>1, <1>4, <2>1, <2>2, <2>3
  <1>5. CASE s = <<>> \/ t = <<>>
    BY <1>5, ConcatEmptySeq DEF Counts, l
  <1>6. CASE s # <<>> /\ t # <<>>
    <2>1. l # <<>> /\ l[1] = s[1] /\ l[Len(l)] = t[Len(t)]
      BY <1>1, <1>2, <1>6
    <2>2. First(l[1]) = a /\ After(l[Len(l)]) = c
      BY <1>6, <2>1 DEF Counts
    <2> QED BY <1>1, <1>3, <1>4, <2>1, <2>2 DEF Counts, l
  <1> QED BY <1>5, <1>6

\* What was taken from the first view goes; the rest of it stays in front.
LEMMA CountsRest ==
  ASSUME queued \in Nat, NEW list \in Seq(Views), list # <<>>, NEW a, NEW b,
         Counts(list, a, b), NEW n \in 0..Len(Head(list))
  PROVE  LET rest == Rest(Head(list), n) \o Tail(list)
         IN  rest \in Seq(Views) /\ Counts(rest, a + n, b)
  <1> DEFINE view == Head(list)
             tail == Tail(list)
             new  == SubSeq(view, n + 1, Len(view))
  <1>1. view \in Views /\ Consecutive(view) /\ First(view) = a
    BY CountsHead
  <1>2. tail \in Seq(Views) /\ Counts(tail, After(view), b)
    BY CountsTail
  <1>3. Len(view) \in Nat \ {0} /\ \A i \in 1..Len(view) : view[i] \in Chunks
    BY <1>1, EmptySeq, ElementOfSeq DEF Views
  <1>4. a \in Nat
    BY <1>1, <1>3 DEF First, Chunks
  <1>5. CASE n = Len(view)
    BY <1>1, <1>2, <1>5, ConcatEmptySeq DEF Rest, After
  <1>6. CASE n # Len(view)
    <2>1. n + 1 \in Nat /\ n + 1 <= Len(view)
      BY <1>3, <1>6
    <2>2. /\ new \in Seq(Chunks) /\ Len(new) = Len(view) - n
          /\ \A i \in 1..Len(new) : new[i] = view[n + i]
      BY <1>3, <2>1, SubSeqProperties
    <2> HIDE DEF new
    <2>3. new \in Views
      <3>1. Len(new) # 0
        BY <1>3, <2>1, <2>2
      <3> QED BY <2>2, <3>1, EmptySeq DEF Views
    <2>4. ASSUME NEW i \in 1..Len(new)
          PROVE  new[i] = a + n + i - 1
      <3>1. n + i \in 1..Len(view) /\ new[i] = view[n + i]
        BY <1>3, <2>1, <2>2
      <3>2. view[n + i] = a + (n + i) - 1
        BY <1>1, <3>1 DEF Consecutive
      <3> QED BY <1>4, <3>1, <3>2
    <2>5. First(new) = a + n
      BY <1>3, <1>4, <2>1, <2>2, <2>4 DEF First
    <2>6. After(new) = After(view)
      <3>1. After(new) = (a + n) + Len(new) /\ After(view) = a + Len(view)
        BY <1>1, <2>5 DEF After
      <3>2. n \in Nat
        BY <1>3
      <3> HIDE DEF view
      <3> QED BY <1>3, <1>4, <2>2, <3>1, <3>2
    <2>7. Consecutive(new)
      BY <2>4, <2>5 DEF Consecutive
    <2>8. <<new>> \o tail \in Seq(Views) /\ Counts(<<new>> \o tail, a + n, b)
      BY <1>2, <2>3, <2>5, <2>6, <2>7, CountsPrepend
    <2> QED BY <1>6, <2>8 DEF Rest, new
  <1> QED BY <1>5, <1>6

-----------------------------------------------------------------------------
(* What the actions do to the lists.                                       *)

\* Nothing moves.
LEMMA DataKept ==
  ASSUME CountInv, RoomInv, lost => lost',
         UNCHANGED <<pendingWrites, pendingOut, queued, sent, acked>>
  PROVE  CountInv' /\ RoomInv' /\ untaken' = untaken
  <1>1. untaken' = untaken
    BY DEF untaken
  <1>2. SentInOrder' /\ RoomInv'
    BY DEF CountInv, RoomInv, SentInOrder
  <1>3. Counts(pendingWrites, untaken, queued + 1)'
    BY <1>1 DEF CountInv, Counts
  <1>4. ASSUME ~lost' PROVE Counts(pendingOut, Len(sent) + 1, untaken)'
    BY <1>1, <1>4 DEF CountInv, Counts
  <1> QED BY <1>1, <1>2, <1>3, <1>4 DEF CountInv

\* Write puts a view at the end, with the next numbers.
LEMMA PushCounts ==
  ASSUME StreamTypeOK, CountInv, NEW u \in Users, Push(u)
  PROVE  /\ queued' \in Nat /\ queued' > queued
         /\ pendingWrites' \in Seq(Views') /\ pendingOut' \in Seq(Views') /\ sent' \in Seq(Chunks')
         /\ CountInv' /\ untaken' = untaken
  <1> DEFINE view == [i \in 1..ViewSize |-> queued + i]
  <1>1. /\ queued \in Nat /\ queued' = queued + ViewSize /\ ViewSize \in Nat \ {0}
        /\ pendingWrites' = Append(pendingWrites, view)
        /\ UNCHANGED <<pendingOut, sent, lost>>
    BY StreamAssumption DEF Push, StreamTypeOK
  <1>2. Chunks \subseteq Chunks' /\ Views \subseteq Views'
    <2>1. Chunks \subseteq Chunks'
      BY <1>1 DEF Chunks
    <2> QED BY <2>1 DEF Views
  <1>3. Seq(Views) \subseteq Seq(Views') /\ Seq(Chunks) \subseteq Seq(Chunks')
    BY <1>2
  <1>4. /\ view \in Seq(Chunks') /\ Len(view) = ViewSize
        /\ \A i \in 1..ViewSize : view[i] = queued + i
    BY <1>1 DEF Chunks
  <1>5. view \in Views'
    BY <1>1, <1>4, EmptySeq DEF Views
  <1> HIDE DEF view
  <1>6. First(view) = queued + 1 /\ Consecutive(view) /\ After(view) = queued' + 1
    <2>1. 1 \in 1..ViewSize
      BY <1>1
    <2>2. First(view) = queued + 1
      BY <1>4, <2>1 DEF First
    <2>3. \A i \in 1..ViewSize : view[i] = First(view) + i - 1
      BY <1>1, <1>4, <2>2
    <2>4. First(view) + Len(view) = queued' + 1
      BY <1>1, <1>4, <2>2
    <2> QED BY <1>4, <2>2, <2>3, <2>4 DEF Consecutive, After
  <1>7. /\ pendingWrites \in Seq(Views') /\ pendingOut \in Seq(Views') /\ sent \in Seq(Chunks')
    BY <1>3 DEF StreamTypeOK
  <1>8. Counts(pendingWrites, untaken, queued + 1)
    BY DEF CountInv
  <1>9. pendingWrites' \in Seq(Views') /\ Counts(pendingWrites', untaken, queued' + 1)
    BY <1>1, <1>5, <1>6, <1>7, <1>8, CountsAppend
  <1>10. untaken' = untaken
    <2>1. pendingWrites' # <<>> /\ pendingWrites'[1] = IF pendingWrites = <<>> THEN view ELSE pendingWrites[1]
      BY <1>1, <1>5, <1>7, AppendProperties, EmptySeq
    <2> QED BY <1>6, <2>1 DEF untaken
  <1>11. CountInv'
    BY <1>1, <1>9, <1>10 DEF CountInv, SentInOrder, Counts
  <1> QED BY <1>1, <1>7, <1>9, <1>10, <1>11

\* DoWrite and DoClose hand the whole list to the filter.
LEMMA TakeCounts ==
  ASSUME StreamTypeOK, CountInv, ~lost,
         pendingOut' = pendingOut \o pendingWrites, pendingWrites' = <<>>,
         UNCHANGED <<queued, sent, lost>>
  PROVE  /\ pendingWrites' \in Seq(Views') /\ pendingOut' \in Seq(Views') /\ sent' \in Seq(Chunks')
         /\ CountInv' /\ untaken' = queued + 1
  <1>1. /\ queued \in Nat /\ pendingWrites \in Seq(Views) /\ pendingOut \in Seq(Views)
        /\ sent \in Seq(Chunks)
    BY DEF StreamTypeOK
  <1>2. Views' = Views /\ Chunks' = Chunks
    BY DEF Views, Chunks
  <1>3. untaken' = queued + 1
    BY DEF untaken
  <1>4. pendingOut' \in Seq(Views) /\ Counts(pendingOut', Len(sent) + 1, queued + 1)
    BY <1>1, CountsConcat DEF CountInv
  <1>5. Counts(<<>>, queued + 1, queued + 1)
    BY DEF Counts
  <1>6. CountInv'
    BY <1>3, <1>4, <1>5 DEF CountInv, SentInOrder, Counts
  <1> QED BY <1>1, <1>2, <1>3, <1>4, <1>6

\* What one send() takes goes to the end of what was sent, and fits.
LEMMA OutCounts ==
  ASSUME StreamTypeOK, CountInv, RoomInv, ~lost, pendingOut # <<>>,
         NEW stop, Out(stop), ~OutFails
  PROVE  /\ pendingWrites' \in Seq(Views') /\ pendingOut' \in Seq(Views') /\ sent' \in Seq(Chunks')
         /\ CountInv' /\ RoomInv' /\ untaken' = untaken
         /\ Len(sent') >= Len(sent) /\ Len(sent') <= queued
  <1> DEFINE view  == Head(pendingOut)
             taken == IF sock = "connecting" THEN 0
                      ELSE IF Len(view) <= Room THEN Len(view) ELSE Room
             more  == SubSeq(view, 1, taken)
  <1>1. /\ queued \in Nat /\ acked \in Nat /\ pendingWrites \in Seq(Views)
        /\ pendingOut \in Seq(Views) /\ sent \in Seq(Chunks) /\ Len(sent) \in Nat
    BY DEF StreamTypeOK
  <1>2. /\ sent' = sent \o more /\ pendingOut' = Rest(view, taken) \o Tail(pendingOut)
        /\ UNCHANGED <<queued, acked, lost, pendingWrites>>
    BY DEF Out, OutFails
  <1>3. Views' = Views /\ Chunks' = Chunks /\ untaken' = untaken
    BY <1>2 DEF Views, Chunks, untaken
  <1>4. Counts(pendingOut, Len(sent) + 1, untaken)
    BY DEF CountInv
  <1>5. view \in Views /\ Consecutive(view) /\ First(view) = Len(sent) + 1
    BY <1>1, <1>4, CountsHead
  <1>6. view \in Seq(Chunks) /\ Len(view) \in Nat
    BY <1>5 DEF Views
  <1>7. Room \in Nat /\ Room = SndRoom - (Len(sent) - acked)
    BY <1>1, StreamAssumption DEF Room, RoomInv
  <1>8. taken \in 0..Len(view) /\ taken <= Room
    BY <1>6, <1>7
  <1> HIDE DEF view, taken
  <1>9. more \in Seq(Chunks) /\ Len(more) = taken /\ \A i \in 1..taken : more[i] = view[i]
    <2>1. /\ 1 \in Nat /\ taken \in Nat
      BY <1>6, <1>8
    <2>2. \A i \in 1..taken : view[i] \in Chunks
      BY <1>6, <1>8, ElementOfSeq
    <2> QED BY <1>6, <1>8, <2>1, <2>2, SubSeqProperties
  <1>10. \A i \in 1..taken : more[i] = Len(sent) + i
    BY <1>1, <1>5, <1>6, <1>8, <1>9 DEF Consecutive
  <1> HIDE DEF more
  <1>11. /\ sent' \in Seq(Chunks) /\ Len(sent') = Len(sent) + taken
         /\ \A i \in 1..Len(sent') : sent'[i] = IF i <= Len(sent) THEN sent[i]
                                                ELSE more[i - Len(sent)]
    <2>1. sent \o more \in Seq(Chunks) /\ Len(sent \o more) = Len(sent) + taken
      BY <1>1, <1>9, ConcatProperties
    <2>2. \A i \in 1..Len(sent) + Len(more) :
            (sent \o more)[i] = IF i <= Len(sent) THEN sent[i] ELSE more[i - Len(sent)]
      BY <1>1, <1>9, ConcatProperties
    <2> QED BY <1>2, <1>9, <2>1, <2>2
  <1>12. SentInOrder'
    <2> SUFFICES ASSUME NEW i \in 1..Len(sent') PROVE sent'[i] = i
      BY DEF SentInOrder
    <2>1. CASE i <= Len(sent)
      BY <1>1, <1>11, <2>1 DEF CountInv, SentInOrder
    <2>2. CASE i > Len(sent)
      <3>1. i - Len(sent) \in 1..taken /\ sent'[i] = more[i - Len(sent)]
        BY <1>1, <1>8, <1>11, <2>2
      <3> QED BY <1>1, <1>10, <3>1
    <2> QED BY <1>1, <2>1, <2>2
  <1>13. /\ pendingOut' \in Seq(Views)
         /\ Counts(pendingOut', Len(sent) + 1 + taken, untaken)
    BY <1>1, <1>2, <1>4, <1>8, CountsRest DEF view
  <1>14. Len(sent) + 1 + taken = Len(sent') + 1
    BY <1>1, <1>6, <1>8, <1>11
  <1>15. Counts(pendingOut', Len(sent') + 1, untaken)
    BY <1>13, <1>14
  <1>16. CountInv'
    BY <1>2, <1>3, <1>12, <1>15 DEF CountInv, Counts
  <1>17. RoomInv'
    BY <1>1, <1>2, <1>6, <1>7, <1>8, <1>11, StreamAssumption DEF RoomInv
  <1>18. Len(sent') <= queued
    <2>1. CASE taken = 0
      <3>1. CASE sent = <<>>
        BY <1>1, <1>11, <2>1, <3>1
      <3>2. CASE sent # <<>>
        <4>1. Len(sent) \in 1..Len(sent)
          BY <1>1, <3>2, EmptySeq
        <4>2. sent[Len(sent)] \in Chunks /\ sent[Len(sent)] = Len(sent)
          BY <1>1, <4>1, ElementOfSeq DEF CountInv, SentInOrder
        <4> QED BY <1>1, <1>11, <2>1, <4>2 DEF Chunks
      <3> QED BY <3>1, <3>2
    <2>2. CASE taken # 0
      <3>1. taken \in 1..taken /\ taken \in 1..Len(more)
        BY <1>6, <1>8, <1>9, <2>2
      <3>2. more[taken] \in Chunks
        BY <1>9, <3>1, ElementOfSeq
      <3> QED BY <1>1, <1>10, <1>11, <3>1, <3>2 DEF Chunks
    <2> QED BY <2>1, <2>2
  <1>19. Len(sent') >= Len(sent)
    BY <1>1, <1>6, <1>8, <1>11
  <1> QED BY <1>1, <1>2, <1>3, <1>11, <1>13, <1>16, <1>17, <1>18, <1>19

\* One send(), whether it fails or not.
LEMMA OutStep ==
  ASSUME StreamInv, ~writeClosed, pendingOut # <<>>, NEW stop, Out(stop)
  PROVE  /\ ListsOK' /\ CountInv' /\ RoomInv' /\ untaken' = untaken
         /\ Len(sent') >= Len(sent) /\ (sent' # sent => Len(sent') <= queued)
  <1>1. /\ StreamTypeOK /\ CountInv /\ RoomInv /\ ~lost
    BY DEF StreamInv, FlagInv
  <1>2. CASE ~OutFails
    BY <1>1, <1>2, OutCounts DEF ListsOK, StreamTypeOK, Out
  <1>3. CASE OutFails
    <2>1. /\ pendingOut' = Tail(pendingOut) /\ lost' = TRUE
          /\ UNCHANGED <<pendingWrites, queued, sent, acked>>
      BY <1>3 DEF Out
    <2>2. /\ queued \in Nat /\ pendingWrites \in Seq(Views) /\ pendingOut \in Seq(Views)
          /\ sent \in Seq(Chunks) /\ Len(sent) \in Nat
      BY <1>1 DEF StreamTypeOK
    <2>3. Views' = Views /\ Chunks' = Chunks /\ untaken' = untaken
      BY <2>1 DEF Views, Chunks, untaken
    <2>4. pendingOut' \in Seq(Views)
      BY <2>1, <2>2, HeadTailProperties
    <2>5. CountInv' /\ RoomInv'
      BY <1>1, <2>1, <2>3 DEF CountInv, RoomInv, SentInOrder, Counts
    <2> QED BY <2>1, <2>2, <2>3, <2>4, <2>5 DEF ListsOK
  <1> QED BY <1>2, <1>3

\* Every step keeps the lists in order.
LEMMA ListStep ==
  ASSUME StreamInv, StreamNext
  PROVE  ListsOK' /\ CountInv' /\ RoomInv'
  <1>1. StreamTypeOK /\ CountInv /\ RoomInv /\ ListsOK
    BY DEF StreamInv, StreamTypeOK, ListsOK
  <1>2. ASSUME UNCHANGED <<pendingWrites, pendingOut, queued, sent>>, lost => lost',
               acked' = acked \/ PeerRead
        PROVE  ListsOK' /\ CountInv' /\ RoomInv'
    <2>1. ListsOK'
      BY <1>1, <1>2 DEF ListsOK, Views, Chunks
    <2>2. CASE acked' = acked
      BY <1>1, <1>2, <2>1, <2>2, DataKept
    <2>3. CASE PeerRead
      <3>1. untaken' = untaken
        BY <1>2 DEF untaken
      <3>2. CountInv'
        BY <1>1, <1>2, <3>1 DEF CountInv, SentInOrder, Counts
      <3>3. acked \in Nat /\ Len(sent) \in Nat /\ acked < Len(sent) /\ acked' = acked + 1
        BY <1>1, <2>3 DEF StreamTypeOK, PeerRead
      <3>4. RoomInv'
        BY <1>1, <1>2, <3>3, StreamAssumption DEF RoomInv
      <3> QED BY <2>1, <3>2, <3>4
    <2> QED BY <1>2, <2>2, <2>3
  <1>3. CASE HandleStep
    <2>1. CASE EnterHandleEvents \/ DoConnect \/ ModifyEvent \/ DoRead \/ DoFinalize \/ AfterEOF
      BY <1>2, <2>1 DEF EnterHandleEvents, DoConnect, ModifyEvent, DoRead, DoFinalize, AfterEOF,
           sockVars, bufVars, history
    <2>2. CASE DoWrite \/ DoClose
      <3>1. CASE writeClosed \/ pendingWrites = <<>>
        BY <1>2, <2>2, <3>1 DEF DoWrite, DoClose, TakeWrites, sockVars, history
      <3>2. CASE ~writeClosed /\ pendingWrites # <<>>
        <4>1. /\ pendingOut' = pendingOut \o pendingWrites /\ pendingWrites' = <<>>
              /\ UNCHANGED <<queued, sent, lost, acked>> /\ ~lost
          BY <2>2, <3>2 DEF DoWrite, DoClose, TakeWrites, sockVars, history, StreamInv, FlagInv
        <4> QED BY <1>1, <4>1, TakeCounts DEF ListsOK, RoomInv
      <3> QED BY <3>1, <3>2
    <2>3. CASE FilterWrite("out", "finalize") \/ FilterWrite("flush", "shut")
      <3>1. CASE pendingOut = <<>>
        BY <1>2, <2>3, <3>1 DEF FilterWrite, Drained, sockVars, bufVars, history
      <3>2. CASE pendingOut # <<>>
        BY <2>3, <3>2, OutStep DEF FilterWrite, StreamInv, FlagInv
      <3> QED BY <3>1, <3>2
    <2>4. CASE FilterClose
      <3>1. CASE pendingOut = <<>> \/ writeClosed
        BY <1>2, <2>4, <3>1 DEF FilterClose, sockVars, bufVars, history
      <3>2. CASE pendingOut # <<>> /\ ~writeClosed
        BY <2>4, <3>2, OutStep DEF FilterClose
      <3> QED BY <3>1, <3>2
    <2> QED BY <1>3, <2>1, <2>2, <2>3, <2>4 DEF HandleStep
  <1>4. CASE LoopNext
    BY <1>2, <1>4 DEF LoopNext, Attach, Register, Unregister, Report, Notify, DropHandler,
         sockVars, bufVars, history
  <1>5. CASE SocketNext
    BY <1>2, <1>5 DEF SocketNext, Establish, Refuse, Reset, SocketStep, PeerSend, PeerFin,
         PeerRead, bufVars, history
  <1>6. ASSUME NEW u \in Users, UserStep(u)
        PROVE  ListsOK' /\ CountInv' /\ RoomInv'
    <2>1. CASE Write(u) \/ Close(u) \/ Ready(u)
      BY <1>2, <2>1 DEF Write, Close, Ready, sockVars, bufVars, history
    <2>2. CASE Push(u)
      <3>1. UNCHANGED <<sent, acked>>
        BY <2>2 DEF Push, sockVars
      <3> QED BY <1>1, <2>2, <3>1, PushCounts DEF ListsOK, RoomInv
    <2> QED BY <1>6, <2>1, <2>2 DEF UserStep
  <1> QED BY <1>3, <1>4, <1>5, <1>6 DEF StreamNext

-----------------------------------------------------------------------------
(* The invariant.                                                          *)

LEMMA TypesSplit == StreamTypeOK <=> FlagsOK /\ ScalarsOK /\ ListsOK
  BY DEF StreamTypeOK, FlagsOK, ScalarsOK, ListsOK

LEMMA StreamInitial == StreamInit => StreamInv
  <1> SUFFICES ASSUME StreamInit PROVE StreamInv
    OBVIOUS
  <1>1. StreamTypeOK
    <2>1. ScalarsOK
      BY StreamAssumption DEF StreamInit, ScalarsOK, isConnected, Steps
    <2>2. ListsOK
      BY DEF StreamInit, ListsOK
    <2>3. FlagsOK
      BY DEF StreamInit, FlagsOK, isConnected
    <2> QED BY <2>1, <2>2, <2>3, TypesSplit
  <1>2. CountInv
    BY DEF StreamInit, CountInv, SentInOrder, Counts, untaken
  <1>3. RoomInv
    BY StreamAssumption DEF StreamInit, RoomInv
  <1>4. FlagInv /\ CloseInv
    BY DEF StreamInit, FlagInv, CloseInv
  <1> QED BY <1>1, <1>2, <1>3, <1>4 DEF StreamInv

\* Every step keeps the types.
LEMMA TypeStep ==
  ASSUME ScalarsOK, queued \in Nat, StreamNext
  PROVE  ScalarsOK'
  <1> USE DEF ScalarsOK, sockVars, eventVars, flagVars, bufVars, ctlVars, history
  <1>1. CASE HandleStep
    <2>1. CASE EnterHandleEvents \/ AfterEOF
      BY <2>1 DEF EnterHandleEvents, AfterEOF, CloseEvent, Goto, Steps
    <2>2. CASE DoConnect
      BY <2>2 DEF DoConnect, Goto, Steps
    <2>3. CASE ModifyEvent
      BY <2>3 DEF ModifyEvent, Level, Goto, Steps
    <2>4. CASE DoRead
      <3>1. /\ UNCHANGED <<sock, acked, notes, reg, frame, promised>>
            /\ inbox' = 0 \/ inbox' = inbox
            /\ pc' = pc \/ pc' = "write"
            /\ calls' = calls \/ calls' = [calls EXCEPT !.data = @ + 1]
        BY <2>4 DEF DoRead, Goto
      <3> QED BY <3>1, StreamAssumption DEF Steps
    <2>5. CASE DoWrite \/ DoClose
      BY <2>5 DEF DoWrite, DoClose, TakeWrites, Goto, Steps
    <2>6. ASSUME NEW stop \in Steps, Out(stop)
          PROVE  ScalarsOK'
      <3>1. /\ UNCHANGED <<sock, inbox, acked, notes, reg, frame, promised, calls>>
            /\ pc' = pc \/ pc' = stop
        BY <2>6 DEF Out, Goto
      <3> QED BY <2>6, <3>1
    <2>7. CASE FilterWrite("out", "finalize")
      BY <2>6, <2>7 DEF FilterWrite, Drained, Goto, Steps
    <2>8. CASE FilterWrite("flush", "shut")
      BY <2>6, <2>8 DEF FilterWrite, Drained, Goto, Steps
    <2>9. CASE FilterClose
      BY <2>6, <2>9 DEF FilterClose, Goto, Steps
    <2>10. CASE DoFinalize
      BY <2>10 DEF DoFinalize, SetShouldClose, Goto, Steps
    <2> QED BY <1>1, <2>1, <2>2, <2>3, <2>4, <2>5, <2>7, <2>8, <2>9, <2>10 DEF HandleStep
  <1>2. CASE LoopNext
    <2>1. CASE Attach \/ DropHandler
      BY <2>1 DEF Attach, DropHandler
    <2>2. CASE Register \/ Unregister
      BY <2>2 DEF Register, Unregister, Level
    <2>3. CASE Report \/ Notify
      BY <2>3 DEF Report, Notify, Enter, Steps
    <2> QED BY <1>2, <2>1, <2>2, <2>3 DEF LoopNext
  <1>3. CASE SocketNext
    <2>1. Watched \in BOOLEAN
      BY DEF Watched
    <2>2. CASE Establish \/ Refuse \/ Reset
      BY <2>1, <2>2 DEF Establish, Refuse, Reset, SocketStep, Edge
    <2>3. CASE PeerSend
      BY <2>1, <2>3, StreamAssumption DEF PeerSend, Edge
    <2>4. CASE PeerFin
      BY <2>1, <2>4 DEF PeerFin, Edge
    <2>5. CASE PeerRead
      BY <2>1, <2>5 DEF PeerRead
    <2> QED BY <1>3, <2>2, <2>3, <2>4, <2>5 DEF SocketNext
  <1>4. ASSUME NEW u \in Users, UserStep(u)
        PROVE  ScalarsOK'
    <2>1. CASE Write(u)
      BY <2>1 DEF Write
    <2>2. CASE Push(u)
      BY <2>2 DEF Push
    <2>3. CASE Close(u)
      BY <2>3 DEF Close, SetShouldClose
    <2>4. CASE Ready(u)
      BY <2>4 DEF Ready
    <2> QED BY <1>4, <2>1, <2>2, <2>3, <2>4 DEF UserStep
  <1> QED BY <1>1, <1>2, <1>3, <1>4 DEF StreamNext

\* Every step keeps the types of the flags.
LEMMA BooleanStep ==
  ASSUME FlagsOK, StreamNext
  PROVE  FlagsOK'
  <1> USE DEF sockVars, flagVars, bufVars, ctlVars, history
  <1>1. CASE HandleStep
    <2>1. CASE EnterHandleEvents \/ AfterEOF \/ DoWrite \/ DoClose
      BY <2>1 DEF FlagsOK, EnterHandleEvents, AfterEOF, DoWrite, DoClose, TakeWrites
    <2>2. CASE DoConnect
      <3>1. UNCHANGED <<fin, nospace, edge, pendingConnect, handler, crash, shouldClose, eofCalled,
                        established, closes>>
        BY <2>2 DEF DoConnect
      <3>2. \/ connected' = TRUE /\ UNCHANGED <<readClosed, writeClosed, lost>>
            \/ readClosed' = TRUE /\ writeClosed' = TRUE /\ lost' = TRUE /\ UNCHANGED connected
        BY <2>2 DEF DoConnect
      <3>3. connected' \in BOOLEAN /\ readClosed' \in BOOLEAN /\ writeClosed' \in BOOLEAN /\ lost' \in BOOLEAN
        BY <3>2, Zenon DEF FlagsOK
      <3> QED BY <3>1, <3>3 DEF FlagsOK
    <2>3. CASE ModifyEvent
      BY <2>3 DEF FlagsOK, ModifyEvent, Level
    <2>4. CASE DoRead
      <3>1. UNCHANGED <<fin, nospace, edge, pendingConnect, handler, connected, writeClosed,
                        shouldClose, eofCalled, established, closes, lost>>
        BY <2>4 DEF DoRead
      <3>2. /\ readClosed' = TRUE \/ readClosed' = readClosed
            /\ crash' = TRUE \/ crash' = crash
        BY <2>4 DEF DoRead
      <3>3. readClosed' \in BOOLEAN /\ crash' \in BOOLEAN
        BY <3>2, Zenon DEF FlagsOK
      <3> QED BY <3>1, <3>3 DEF FlagsOK
    <2>5. ASSUME NEW stop, Out(stop)
          PROVE  FlagsOK'
      <3>1. UNCHANGED <<fin, edge, pendingConnect, handler, crash, connected, readClosed,
                        shouldClose, eofCalled, established, closes>>
        BY <2>5 DEF Out
      <3>2. nospace' = nospace \/ nospace' \in BOOLEAN
        BY <2>5 DEF Out
      <3>3. \/ writeClosed' = TRUE /\ lost' = TRUE
            \/ UNCHANGED <<writeClosed, lost>>
        BY <2>5 DEF Out
      <3>4. nospace' \in BOOLEAN /\ writeClosed' \in BOOLEAN /\ lost' \in BOOLEAN
        BY <3>2, <3>3, Zenon DEF FlagsOK
      <3> QED BY <3>1, <3>4 DEF FlagsOK
    <2>6. CASE FilterWrite("out", "finalize") \/ FilterWrite("flush", "shut")
      BY <2>5, <2>6 DEF FlagsOK, FilterWrite, Drained
    <2>7. CASE FilterClose
      <3>1. CASE pendingOut = <<>> \/ writeClosed
        <4>1. /\ readClosed' = TRUE /\ writeClosed' = TRUE
              /\ UNCHANGED <<fin, nospace, edge, pendingConnect, handler, crash, connected, shouldClose,
                             eofCalled, established, closes, lost>>
          BY <2>7, <3>1 DEF FilterClose
        <4>2. readClosed' \in BOOLEAN /\ writeClosed' \in BOOLEAN
          BY <4>1, Zenon
        <4> QED BY <4>1, <4>2 DEF FlagsOK
      <3>2. CASE ~(pendingOut = <<>> \/ writeClosed)
        <4>1. Out(IF OutFails THEN "shut" ELSE "finalize")
          BY <2>7, <3>2 DEF FilterClose
        <4> QED BY <2>5, <4>1
      <3> QED BY <3>1, <3>2
    <2>8. CASE DoFinalize
      <3>1. UNCHANGED <<fin, nospace, edge, pendingConnect, handler, crash, connected, readClosed,
                        writeClosed, established, closes, lost>>
        BY <2>8 DEF DoFinalize
      <3>2. /\ shouldClose' = TRUE \/ shouldClose' = shouldClose
            /\ eofCalled' = TRUE \/ eofCalled' = eofCalled
        BY <2>8 DEF DoFinalize, SetShouldClose
      <3>3. shouldClose' \in BOOLEAN /\ eofCalled' \in BOOLEAN
        BY <3>2, Zenon DEF FlagsOK
      <3> QED BY <3>1, <3>3 DEF FlagsOK
    <2> QED BY <1>1, <2>1, <2>2, <2>3, <2>4, <2>6, <2>7, <2>8 DEF HandleStep
  <1>2. CASE LoopNext
    <2>1. CASE Attach
      BY <2>1 DEF FlagsOK, Attach
    <2>2. ASSUME UNCHANGED <<fin, nospace, pendingConnect, flagVars, crash, established, closes, lost>>,
                 edge' = edge \/ edge' \in BOOLEAN, handler' = handler \/ handler' = FALSE
          PROVE  FlagsOK'
      <3>1. edge' \in BOOLEAN /\ handler' \in BOOLEAN
        BY <2>2, Zenon DEF FlagsOK
      <3>2. UNCHANGED <<fin, nospace, pendingConnect, flagVars, crash, established, closes, lost>>
        BY <2>2
      <3> QED BY <3>1, <3>2 DEF FlagsOK
    <2>3. CASE DropHandler
      BY <2>2, <2>3 DEF DropHandler
    <2>4. CASE Register \/ Unregister
      BY <2>2, <2>4 DEF Register, Unregister, Level
    <2>5. CASE Report \/ Notify
      BY <2>2, <2>5 DEF Report, Notify
    <2> QED BY <1>2, <2>1, <2>3, <2>4, <2>5 DEF LoopNext
  <1>3. CASE SocketNext
    <2>1. ASSUME UNCHANGED <<pendingConnect, flagVars, handler, crash, closes, lost>>,
                 edge' \in BOOLEAN, fin' = fin \/ fin' = TRUE, nospace' = nospace \/ nospace' = FALSE,
                 established' = established \/ established' = TRUE
          PROVE  FlagsOK'
      <3>1. fin' \in BOOLEAN /\ nospace' \in BOOLEAN /\ established' \in BOOLEAN
        BY <2>1, Zenon DEF FlagsOK
      <3>2. UNCHANGED <<pendingConnect, flagVars, handler, crash, closes, lost>> /\ edge' \in BOOLEAN
        BY <2>1
      <3> QED BY <3>1, <3>2 DEF FlagsOK
    <2>2. CASE Establish \/ Refuse \/ Reset
      BY <2>1, <2>2 DEF FlagsOK, Establish, Refuse, Reset, SocketStep, Edge, Watched
    <2>3. CASE PeerSend \/ PeerFin
      BY <2>1, <2>3 DEF FlagsOK, PeerSend, PeerFin, Edge, Watched
    <2>4. CASE PeerRead
      BY <2>1, <2>4 DEF FlagsOK, PeerRead, Watched
    <2> QED BY <1>3, <2>2, <2>3, <2>4 DEF SocketNext
  <1>4. ASSUME NEW u \in Users, UserStep(u)
        PROVE  FlagsOK'
    <2>1. CASE Write(u) \/ Push(u) \/ Ready(u)
      BY <2>1 DEF FlagsOK, Write, Push, Ready
    <2>2. CASE Close(u)
      BY <2>2 DEF FlagsOK, Close, SetShouldClose
    <2> QED BY <1>4, <2>1, <2>2 DEF UserStep
  <1> QED BY <1>1, <1>2, <1>3, <1>4 DEF StreamNext

\* Every step keeps what the flags say.
LEMMA FlagStep ==
  ASSUME ScalarsOK, FlagInv, StreamNext
  PROVE  FlagInv'
  <1> USE DEF FlagInv, ScalarsOK, flagVars, ctlVars, history
  <1>1. CASE HandleStep
    <2>1. CASE EnterHandleEvents \/ ModifyEvent \/ AfterEOF
      BY <2>1 DEF EnterHandleEvents, ModifyEvent, AfterEOF, Goto
    <2>2. CASE DoConnect
      BY <2>2 DEF DoConnect, Goto
    <2>3. CASE DoRead
      BY <2>3 DEF DoRead, Goto
    <2>4. CASE DoWrite
      BY <2>4 DEF DoWrite, TakeWrites, Goto
    <2>5. CASE DoClose
      BY <2>5 DEF DoClose, TakeWrites, Goto
    <2>6. CASE FilterWrite("out", "finalize") \/ FilterWrite("flush", "shut")
      BY <2>6 DEF FilterWrite, Drained, Out, Goto
    <2>7. CASE FilterClose
      BY <2>7 DEF FilterClose, Out, Goto
    <2>8. CASE DoFinalize
      BY <2>8 DEF DoFinalize, SetShouldClose, EOFDue, Goto
    <2> QED BY <1>1, <2>1, <2>2, <2>3, <2>4, <2>5, <2>6, <2>7, <2>8 DEF HandleStep
  <1>2. CASE LoopNext
    BY <1>2 DEF LoopNext, Attach, Register, Unregister, Report, Notify, DropHandler, Enter
  <1>3. CASE SocketNext
    BY <1>3 DEF SocketNext, Establish, Refuse, Reset, PeerSend, PeerFin, PeerRead
  <1>4. ASSUME NEW u \in Users, UserStep(u)
        PROVE  FlagInv'
    BY <1>4 DEF UserStep, Write, Push, Close, SetShouldClose, Ready
  <1> QED BY <1>1, <1>2, <1>3, <1>4 DEF StreamNext

\* Every step keeps the promise within reach: what is promised is taken from the list
\* before the filter shuts down, and sent before it is closed.
LEMMA CloseStep ==
  ASSUME StreamInv, StreamNext
  PROVE  CloseInv'
  <1>1. StreamTypeOK /\ CountInv /\ RoomInv /\ FlagInv /\ CloseInv
    BY DEF StreamInv
  <1>2. queued \in Nat /\ promised \in Nat /\ Len(sent) \in Nat
    BY <1>1 DEF StreamTypeOK
  <1>3. ASSUME UNCHANGED <<pendingWrites, queued, sent, promised, writeClosed>>, lost => lost',
               shouldClose => shouldClose',
               pc' \in {"flush", "shut"} /\ ~writeClosed => pc \in {"flush", "shut"}
        PROVE  CloseInv'
    BY <1>1, <1>3 DEF CloseInv, untaken
  <1>4. ASSUME NEW stop, Out(stop), ~writeClosed, pendingOut # <<>>, pc \in {"out", "flush", "shut"},
               pc = "out" => stop = "finalize"
        PROVE  CloseInv'
    <2>1. untaken' = untaken /\ UNCHANGED <<queued, promised, shouldClose>>
      BY <1>4, OutStep DEF Out
    <2>2. \/ writeClosed' = TRUE /\ lost' = TRUE
          \/ UNCHANGED <<writeClosed, lost>> /\ pc' \in {pc, stop}
      BY <1>4 DEF Out, Goto
    <2> QED BY <1>1, <1>4, <2>1, <2>2 DEF CloseInv
  <1>5. CASE HandleStep
    <2>1. CASE EnterHandleEvents \/ ModifyEvent \/ DoRead \/ AfterEOF
      BY <1>3, <2>1 DEF EnterHandleEvents, ModifyEvent, DoRead, AfterEOF, Goto,
           sockVars, flagVars, bufVars, history
    <2>2. CASE DoConnect
      BY <1>1, <2>2 DEF DoConnect, Goto, CloseInv, bufVars, untaken
    <2>3. CASE DoWrite
      BY <1>1, <2>3 DEF DoWrite, TakeWrites, Goto, CloseInv, flagVars, history
    <2>4. CASE DoClose
      <3>1. untaken' = queued + 1 \/ writeClosed
        BY <2>4 DEF DoClose, TakeWrites, untaken, history
      <3> QED BY <1>1, <1>2, <2>4, <3>1 DEF DoClose, TakeWrites, CloseInv, flagVars, history
    <2>5. CASE FilterWrite("out", "finalize")
      <3>1. CASE pendingOut = <<>>
        BY <1>3, <2>5, <3>1 DEF FilterWrite, Drained, Goto, sockVars, flagVars, bufVars, history
      <3>2. CASE pendingOut # <<>>
        BY <1>1, <1>4, <2>5, <3>2 DEF FilterWrite, FlagInv
      <3> QED BY <3>1, <3>2
    <2>6. CASE FilterWrite("flush", "shut")
      <3>1. CASE pendingOut = <<>>
        BY <1>3, <2>6, <3>1 DEF FilterWrite, Drained, Goto, sockVars, flagVars, bufVars, history
      <3>2. CASE pendingOut # <<>>
        BY <1>1, <1>4, <2>6, <3>2 DEF FilterWrite, FlagInv
      <3> QED BY <3>1, <3>2
    <2>7. CASE FilterClose
      <3>1. CASE pendingOut = <<>> /\ ~writeClosed
        <4>1. UNCHANGED <<queued, promised, sent, lost, shouldClose>> /\ pc' = "finalize"
          BY <2>7, <3>1 DEF FilterClose, Goto, history
        <4>2. shouldClose /\ ~lost /\ promised < untaken
          BY <1>1, <2>7, <3>1 DEF FilterClose, FlagInv, CloseInv
        <4>3. untaken = Len(sent) + 1
          BY <1>1, <3>1, <4>2 DEF CountInv, Counts
        <4>4. promised <= queued
          BY <1>1 DEF CloseInv
        <4> QED BY <1>2, <4>1, <4>2, <4>3, <4>4 DEF CloseInv
      <3>2. CASE writeClosed
        BY <1>1, <2>7, <3>2 DEF FilterClose, CloseInv, Goto, history
      <3>3. CASE pendingOut # <<>> /\ ~writeClosed
        BY <1>4, <2>7, <3>3 DEF FilterClose
      <3> QED BY <3>1, <3>2, <3>3
    <2>8. CASE DoFinalize
      BY <1>1, <1>2, <2>8 DEF DoFinalize, SetShouldClose, Goto, CloseInv, FlagInv, bufVars, untaken
    <2> QED BY <1>5, <2>1, <2>2, <2>3, <2>4, <2>5, <2>6, <2>7, <2>8 DEF HandleStep
  <1>6. CASE LoopNext
    BY <1>3, <1>6 DEF LoopNext, Attach, Register, Unregister, Report, Notify, DropHandler, Enter,
         sockVars, flagVars, bufVars, ctlVars, history
  <1>7. CASE SocketNext
    BY <1>3, <1>7 DEF SocketNext, Establish, Refuse, Reset, PeerSend, PeerFin, PeerRead,
         sockVars, flagVars, bufVars, ctlVars, history
  <1>8. ASSUME NEW u \in Users, UserStep(u)
        PROVE  CloseInv'
    <2>1. CASE Write(u) \/ Ready(u)
      BY <1>3, <2>1 DEF Write, Ready, sockVars, flagVars, bufVars, history
    <2>2. CASE Close(u)
      <3>1. UNCHANGED <<queued, sent, writeClosed, lost, pc>> /\ untaken' = untaken
        BY <2>2 DEF Close, bufVars, untaken
      <3>2. shouldClose' /\ promised' = IF shouldClose THEN promised ELSE queued
        BY <2>2 DEF Close, SetShouldClose
      <3> QED BY <1>1, <1>2, <3>1, <3>2 DEF CloseInv, FlagInv
    <2>3. CASE Push(u)
      <3>1. queued' > queued /\ queued' \in Nat /\ untaken' = untaken
        BY <1>1, <2>3, PushCounts
      <3>2. UNCHANGED <<sent, writeClosed, lost, pc, promised, shouldClose>>
        BY <2>3 DEF Push, flagVars
      <3> QED BY <1>1, <1>2, <3>1, <3>2 DEF CloseInv
    <2> QED BY <1>8, <2>1, <2>2, <2>3 DEF UserStep
  <1> QED BY <1>5, <1>6, <1>7, <1>8 DEF StreamNext

LEMMA InvStep == StreamInv /\ [StreamNext]_streamVars => StreamInv'
  <1>1. ASSUME StreamInv, StreamNext PROVE StreamInv'
    <2>1. FlagsOK /\ ScalarsOK /\ queued \in Nat /\ FlagInv
      BY <1>1, TypesSplit DEF StreamInv, ListsOK
    <2>2. ListsOK' /\ CountInv' /\ RoomInv'
      BY <1>1, ListStep
    <2>3. FlagsOK' /\ ScalarsOK' /\ FlagInv'
      BY <1>1, <2>1, BooleanStep, TypeStep, FlagStep
    <2>4. StreamTypeOK'
      BY <2>2, <2>3 DEF StreamTypeOK, FlagsOK, ScalarsOK, ListsOK
    <2>5. CloseInv'
      BY <1>1, CloseStep
    <2> QED BY <2>2, <2>3, <2>4, <2>5 DEF StreamInv
  <1>2. ASSUME StreamInv, UNCHANGED streamVars PROVE StreamInv'
    <2> USE <1>2 DEF streamVars, sockVars, eventVars, flagVars, bufVars, ctlVars, history
    <2>1. untaken' = untaken /\ Views' = Views /\ Chunks' = Chunks
      BY DEF untaken, Views, Chunks
    <2>2. StreamTypeOK'
      BY <2>1 DEF StreamInv, StreamTypeOK
    <2>3. CountInv' /\ RoomInv' /\ FlagInv' /\ CloseInv'
      BY <2>1 DEF StreamInv, CountInv, SentInOrder, Counts, RoomInv, FlagInv, CloseInv
    <2> QED BY <2>2, <2>3 DEF StreamInv
  <1> QED BY <1>1, <1>2

-----------------------------------------------------------------------------
(* StreamPromise.                                                          *)

\* Every step of the stream is one of StreamPromise, or changes nothing it speaks of.
LEMMA PromiseStep ==
  ASSUME StreamInv, StreamNext
  PROVE  [Promise!Next]_(Promise!promiseVars)
  <1> USE DEF Promise!promiseVars
  <1>1. StreamTypeOK /\ CountInv /\ RoomInv /\ FlagInv /\ CloseInv
    BY DEF StreamInv
  <1>2. queued \in Nat /\ Len(sent) \in Nat /\ calls \in [connected : Nat, data : Nat, eof : Nat]
    BY <1>1 DEF StreamTypeOK
  <1>3. ASSUME UNCHANGED <<calls, shouldClose, queued, promised, sent, lost>>
        PROVE  [Promise!Next]_(Promise!promiseVars)
    BY <1>3
  <1>4. ASSUME NEW stop, Out(stop), ~writeClosed, pendingOut # <<>>
        PROVE  [Promise!Next]_(Promise!promiseVars)
    <2>1. UNCHANGED <<calls, shouldClose, queued, promised>> /\ calls.eof = 0
      BY <1>1, <1>4 DEF Out, FlagInv
    <2>2. CASE OutFails
      <3>1. lost' = TRUE /\ UNCHANGED sent
        BY <1>4, <2>2 DEF Out
      <3>2. Promise!Lose
        BY <2>1, <3>1 DEF Promise!Lose
      <3> QED BY <3>2 DEF Promise!Next
    <2>3. CASE ~OutFails
      <3>1. UNCHANGED lost /\ Len(sent') >= Len(sent) /\ (sent' # sent => Len(sent') <= queued)
        BY <1>4, <2>3, OutStep DEF Out
      <3>2. Len(sent') \in Nat
        BY <1>4, OutStep DEF ListsOK
      <3>3. CASE Len(sent') = Len(sent)
        BY <2>1, <3>1, <3>3
      <3>4. CASE Len(sent') # Len(sent)
        <4>1. Promise!Send
          BY <1>2, <2>1, <3>1, <3>2, <3>4 DEF Promise!Send
        <4> QED BY <4>1 DEF Promise!Next
      <3> QED BY <3>3, <3>4
    <2> QED BY <2>2, <2>3
  <1>5. ASSUME SetShouldClose, UNCHANGED <<calls, queued, sent, lost>>
        PROVE  [Promise!Next]_(Promise!promiseVars)
    <2>1. CASE shouldClose
      BY <1>1, <1>5, <2>1 DEF SetShouldClose, StreamTypeOK
    <2>2. CASE ~shouldClose
      <3>1. Promise!End
        BY <1>5, <2>2 DEF SetShouldClose, Promise!End
      <3> QED BY <3>1 DEF Promise!Next
    <2> QED BY <2>1, <2>2
  <1>6. CASE HandleStep
    <2>1. CASE EnterHandleEvents \/ ModifyEvent \/ DoWrite \/ DoClose \/ AfterEOF
      BY <1>3, <2>1 DEF EnterHandleEvents, ModifyEvent, DoWrite, DoClose, TakeWrites, AfterEOF,
           flagVars, history
    <2>2. CASE DoConnect
      <3>1. /\ calls.eof = 0 /\ calls.data = 0 /\ calls.connected = 0
            /\ UNCHANGED <<shouldClose, queued, promised, sent>>
        BY <1>1, <1>2, <2>2 DEF DoConnect, FlagInv
      <3>2. CASE UNCHANGED calls /\ lost' = TRUE
        <4>1. Promise!Lose
          BY <3>1, <3>2 DEF Promise!Lose
        <4> QED BY <4>1 DEF Promise!Next
      <3>3. CASE calls' = [calls EXCEPT !.connected = @ + 1] /\ UNCHANGED lost
        <4>1. Promise!HandleConnected
          BY <3>1, <3>3 DEF Promise!HandleConnected, Promise!Call
        <4> QED BY <4>1 DEF Promise!Next
      <3> QED BY <2>2, <3>2, <3>3 DEF DoConnect
    <2>3. CASE DoRead
      <3>1. /\ calls.eof = 0 /\ calls.connected > 0
            /\ UNCHANGED <<shouldClose, queued, promised, sent, lost>>
        BY <1>1, <2>3 DEF DoRead, FlagInv
      <3>2. CASE UNCHANGED calls
        BY <1>3, <3>1, <3>2
      <3>3. CASE calls' = [calls EXCEPT !.data = @ + 1]
        <4>1. Promise!HandleData
          BY <3>1, <3>3 DEF Promise!HandleData, Promise!Call
        <4> QED BY <4>1 DEF Promise!Next
      <3> QED BY <2>3, <3>2, <3>3 DEF DoRead
    <2>4. CASE FilterWrite("out", "finalize") \/ FilterWrite("flush", "shut")
      <3>1. CASE pendingOut = <<>>
        BY <1>3, <2>4, <3>1 DEF FilterWrite, Drained, flagVars, history
      <3>2. CASE pendingOut # <<>>
        BY <1>1, <1>4, <2>4, <3>2 DEF FilterWrite, FlagInv
      <3> QED BY <3>1, <3>2
    <2>5. CASE FilterClose
      <3>1. CASE pendingOut = <<>> \/ writeClosed
        BY <1>3, <2>5, <3>1 DEF FilterClose, history
      <3>2. CASE pendingOut # <<>> /\ ~writeClosed
        BY <1>4, <2>5, <3>2 DEF FilterClose
      <3> QED BY <3>1, <3>2
    <2>6. CASE DoFinalize
      <3>1. CASE ~shouldClose /\ readClosed
        BY <1>5, <2>6, <3>1 DEF DoFinalize
      <3>2. CASE ~(~shouldClose /\ readClosed) /\ EOFDue
        <4>1. shouldClose /\ writeClosed /\ ~eofCalled
          BY <3>2 DEF EOFDue
        <4>2. calls.eof = 0 /\ (lost \/ promised <= Len(sent))
          BY <1>1, <4>1 DEF FlagInv, CloseInv
        <4>3. /\ calls' = [calls EXCEPT !.eof = @ + 1]
              /\ UNCHANGED <<shouldClose, queued, promised, sent, lost>>
          BY <2>6, <3>2 DEF DoFinalize
        <4>4. promised \in Nat
          BY <1>1 DEF StreamTypeOK
        <4>5. lost \/ Len(sent) >= promised
          BY <1>2, <4>2, <4>4
        <4>6. Promise!HandleEOF
          BY <4>1, <4>2, <4>3, <4>5 DEF Promise!HandleEOF, Promise!Call
        <4> QED BY <4>6 DEF Promise!Next
      <3>3. CASE ~(~shouldClose /\ readClosed) /\ ~EOFDue
        BY <1>3, <2>6, <3>3 DEF DoFinalize
      <3> QED BY <3>1, <3>2, <3>3
    <2> QED BY <1>6, <2>1, <2>2, <2>3, <2>4, <2>5, <2>6 DEF HandleStep
  <1>7. CASE LoopNext
    BY <1>3, <1>7 DEF LoopNext, Attach, Register, Unregister, Report, Notify, DropHandler,
         flagVars, history
  <1>8. CASE SocketNext
    BY <1>3, <1>8 DEF SocketNext, Establish, Refuse, Reset, PeerSend, PeerFin, PeerRead,
         flagVars, history
  <1>9. ASSUME NEW u \in Users, UserStep(u)
        PROVE  [Promise!Next]_(Promise!promiseVars)
    <2>1. CASE Write(u) \/ Ready(u)
      BY <1>3, <2>1 DEF Write, Ready, flagVars, history
    <2>2. CASE Close(u)
      BY <1>5, <2>2 DEF Close
    <2>3. CASE Push(u)
      <3>1. queued' > queued /\ UNCHANGED <<calls, shouldClose, promised, sent, lost>>
        BY <1>1, <2>3, PushCounts DEF Push, flagVars
      <3>2. Promise!Queue
        BY <3>1 DEF Promise!Queue
      <3> QED BY <3>2 DEF Promise!Next
    <2> QED BY <1>9, <2>1, <2>2, <2>3 DEF UserStep
  <1> QED BY <1>6, <1>7, <1>8, <1>9 DEF StreamNext

-----------------------------------------------------------------------------
(* The theorems.                                                           *)

\* The invariant on which the others rest: what the lists, the flags and the place in
\* HandleEvents say together (stream_buffer.cc:78-246, tcp_stream_buffer_filter.cc:48-118).
THEOREM StreamInvariant == StreamSpec => []StreamInv
  <1> QED BY StreamInitial, InvStep, PTL DEF StreamSpec

\* Types, and that nothing is in pending_writes_, in pending_out_ or sent that was not
\* written.
THEOREM StreamTypeCorrect == StreamSpec => []StreamTypeOK
  <1>1. StreamInv => StreamTypeOK
    BY DEF StreamInv
  <1> QED BY StreamInvariant, <1>1, PTL

\* What send() has taken is what was written, in order, whatever the size of the views and
\* wherever a send() stops (tcp_stream_buffer_filter.cc:79-118).
THEOREM StreamSentInOrder == StreamSpec => []SentInOrder
  <1>1. StreamInv => SentInOrder
    BY DEF StreamInv, CountInv
  <1> QED BY StreamInvariant, <1>1, PTL

\* The stream implements StreamPromise: HandleConnected once and before HandleData,
\* HandleEOF once, last, and not before what was promised is sent or the connection lost.
THEOREM StreamKeepsPromise == StreamSpec => KeepsPromise
  <1>1. StreamInit => Promise!Init
    BY DEF StreamInit, Promise!Init
  <1>2. StreamInv /\ [StreamNext]_streamVars => [Promise!Next]_(Promise!promiseVars)
    <2>1. ASSUME UNCHANGED streamVars PROVE UNCHANGED Promise!promiseVars
      BY <2>1 DEF streamVars, flagVars, history, Promise!promiseVars
    <2> QED BY <2>1, PromiseStep
  <1> QED BY StreamInvariant, <1>1, <1>2, PTL DEF StreamSpec, KeepsPromise, Promise!Spec
=============================================================================
