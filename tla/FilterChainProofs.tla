-------------------------- MODULE FilterChainProofs --------------------------
(***************************************************************************)
(* Proofs about a stream with several filters, for any number of filters,  *)
(* any number of chunks and any room in the send buffer: its types, that   *)
(* no filter is bypassed, that filters are closed from the top down, and   *)
(* that the stream implements StreamPromise.                               *)
(***************************************************************************)
EXTENDS FilterChain, SequenceTheorems, TLAPS

\* A filter that is neither closed nor closing.
Untouched(f) == ~f.byeSent /\ ~f.readClosed /\ ~f.writeClosed

\* No data has come to the user or from it.
NoData == sent = 0 /\ calls.data = 0 /\ \A i \in 1..Last : chain[i].out = 0

\* How far the filters are connected, and that data waits for that.
ConnectInv ==
  /\ NothingBypasses
  /\ addAllowed => pc = "callback" /\ back.connected
  /\ pc = "callback" /\ back.connected => addAllowed
  /\ back.connected /\ pc # "callback" => Last = goal
  /\ pc = "connect" => ~back.connected
  /\ pc \in {"read", "write"} => back.connected
  /\ calls.connected = IF back.connected THEN Last ELSE Last - 1
  /\ NoData \/ (Last = goal /\ back.connected) \/ shouldClose
  /\ pc \in {"connect", "callback"} => NoData

\* A filter is added to filters that are open: only the last one can be closed before
\* should_close_ is set, and when it is not connected the stream sees to that at once.
OpenInv ==
  /\ pc \in {"connect", "callback"} => \A i \in 1..Last : Untouched(chain[i])
  /\ ~shouldClose => \A i \in 1..(Last - 1) : Untouched(chain[i])
  /\ ~shouldClose /\ ~back.connected => Untouched(back) \/ (pc = "finalize" /\ back.readClosed)

\* Where DoClose stands, and what is closed then.
CloseInv ==
  /\ ClosedFromTheTop
  /\ pc \in {"flush", "close", "shut"} => shouldClose
  /\ pc \in {"close", "shut"} => \A j \in (at + 1)..Last : Closed(chain[j])
  /\ pc = "shut" => chain[at].out = 0 \/ chain[at].writeClosed
  /\ calls.eof = IF eofCalled THEN 1 ELSE 0
  /\ eofCalled => AllClosed /\ shouldClose

\* Every chunk is sent, in the last filter or in the list, unless the connection was
\* lost; what was promised has left the list when DoClose comes to a filter, and the
\* last filter when that is closed.
CountInv ==
  /\ sent + back.out + pendingWrites <= queued
  /\ ~lost => sent + back.out + pendingWrites = queued
  /\ promised <= queued
  /\ ~lost /\ pc \in {"close", "shut"} /\ ~back.writeClosed => promised + pendingWrites <= queued
  /\ ~lost /\ back.writeClosed => shouldClose /\ promised <= sent

ChainInv == ChainTypeOK /\ ConnectInv /\ OpenInv /\ CloseInv /\ CountInv

-----------------------------------------------------------------------------
(* The chain.                                                              *)

\* A filter of the chain changes.
LEMMA ChainUpdate ==
  ASSUME chain \in Seq(Filter), NEW i \in 1..Last, NEW f \in Filter, chain' = [chain EXCEPT ![i] = f]
  PROVE  /\ chain' \in Seq(Filter) /\ Last' = Last
         /\ chain'[i] = f /\ \A j \in 1..Last : j # i => chain'[j] = chain[j]
  <1>1. chain' \in Seq(Filter) /\ Len(chain') = Len(chain)
    BY ExceptSeq DEF Last
  <1>2. \A j \in 1..Last : chain'[j] = IF j = i THEN f ELSE chain[j]
    BY ExceptSeq DEF Last
  <1> QED BY <1>1, <1>2 DEF Last

LEMMA ChainFilter ==
  ASSUME ChainTypeOK, NEW i \in 1..Last
  PROVE  chain[i] \in Filter /\ Last \in Nat \ {0} /\ Last \in 1..Last
  BY ElementOfSeq DEF ChainTypeOK, Last

LEMMA BackFilter ==
  ASSUME ChainTypeOK
  PROVE  Last \in Nat \ {0} /\ Last \in 1..Last /\ back \in Filter /\ back.out \in 0..MaxWrites
  <1>1. Last \in 1..Last /\ Last \in Nat \ {0}
    BY DEF ChainTypeOK
  <1>2. back \in Filter
    BY <1>1, ChainFilter DEF back
  <1> QED BY <1>1, <1>2 DEF Filter

\* One field of a filter changes.
LEMMA FilterOut ==
  ASSUME NEW f \in Filter, NEW n \in 0..MaxWrites
  PROVE  [f EXCEPT !.out = n] \in Filter
  BY DEF Filter

LEMMA FilterFlag ==
  ASSUME NEW f \in Filter, NEW b \in BOOLEAN
  PROVE  /\ [f EXCEPT !.connected = b] \in Filter /\ [f EXCEPT !.readClosed = b] \in Filter
         /\ [f EXCEPT !.writeClosed = b] \in Filter
         /\ [f EXCEPT !.byeSent = b] \in Filter /\ [f EXCEPT !.byeIn = b] \in Filter
  BY DEF Filter

\* What Out does.
LEMMA OutEffect ==
  ASSUME ChainTypeOK, NEW i \in 1..Last, NEW n \in 0..MaxWrites, sent + n <= MaxWrites, Out(i, n),
         n = 0 => chain[i].out = 0
  PROVE  /\ chain' \in Seq(Filter) /\ Last' = Last
         /\ \A j \in 1..Last : j # i => chain'[j] = chain[j]
         /\ chain'[i].connected = chain[i].connected /\ chain'[i].readClosed = chain[i].readClosed
         /\ chain'[i].byeSent = chain[i].byeSent
         /\ unread' \in 0..SndRoom /\ sent' \in 0..MaxWrites
         /\ sent' >= sent /\ sent' + chain'[i].out <= sent + n
         /\ n = 0 => UNCHANGED <<chain, sent, lost>>
         /\ \/ lost' = TRUE /\ chain'[i].writeClosed /\ sent' = sent
            \/ /\ lost' = lost /\ chain'[i].writeClosed = chain[i].writeClosed
               /\ sent' + chain'[i].out = sent + n
  <1>1. /\ chain \in Seq(Filter) /\ chain[i] \in Filter /\ unread \in 0..SndRoom /\ sent \in 0..MaxWrites
        /\ SndRoom \in Nat /\ MaxWrites \in Nat
    BY ChainFilter, ChainAssumption DEF ChainTypeOK
  <1>2. CASE n = 0
    BY <1>1, <1>2 DEF Out, sendVars, Last, Filter
  <1>3. CASE n # 0 /\ link = "reset"
    <2> DEFINE f == [chain[i] EXCEPT !.out = n - 1, !.writeClosed = TRUE]
    <2>1. f \in Filter
      <3>1. n - 1 \in 0..MaxWrites /\ TRUE \in BOOLEAN
        BY <1>1, <1>3
      <3>2. [chain[i] EXCEPT !.out = n - 1] \in Filter
        BY <1>1, <3>1, FilterOut
      <3>3. [[chain[i] EXCEPT !.out = n - 1] EXCEPT !.writeClosed = TRUE] \in Filter
        BY <3>1, <3>2, FilterFlag
      <3> QED BY <3>3
    <2>2. chain' = [chain EXCEPT ![i] = f]
      BY <1>3 DEF Out
    <2>3. /\ f.connected = chain[i].connected /\ f.readClosed = chain[i].readClosed
          /\ f.byeSent = chain[i].byeSent /\ f.writeClosed /\ f.out = n - 1
      BY <1>1 DEF Filter
    <2>4. lost' = TRUE /\ UNCHANGED <<unread, sent>>
      BY <1>3 DEF Out
    <2> HIDE DEF f
    <2>5. /\ chain' \in Seq(Filter) /\ Last' = Last
          /\ chain'[i] = f /\ \A j \in 1..Last : j # i => chain'[j] = chain[j]
      BY <1>1, <2>1, <2>2, ChainUpdate
    <2>6. n \in Nat /\ n - 1 \in Nat /\ sent + (n - 1) <= sent + n
      BY <1>1, <1>3
    <2>7. chain'[i].writeClosed /\ chain'[i].out = n - 1
      BY <2>3, <2>5
    <2>8. /\ chain'[i].connected = chain[i].connected /\ chain'[i].readClosed = chain[i].readClosed
          /\ chain'[i].byeSent = chain[i].byeSent
      BY <2>3, <2>5
    <2>9. /\ unread' \in 0..SndRoom /\ sent' \in 0..MaxWrites
          /\ sent' >= sent /\ sent' + chain'[i].out <= sent + n
      BY <1>1, <2>4, <2>6, <2>7
    <2> QED BY <1>3, <2>4, <2>5, <2>7, <2>8, <2>9
  <1>4. CASE n # 0 /\ link # "reset"
    <2> DEFINE taken == IF n <= Room THEN n ELSE Room
               f     == [chain[i] EXCEPT !.out = n - taken]
    <2>1. taken \in 0..n /\ taken <= SndRoom - unread
      BY <1>1 DEF Room
    <2>2. /\ chain' = [chain EXCEPT ![i] = f] /\ sent' = sent + taken /\ unread' = unread + taken
          /\ UNCHANGED lost
      BY <1>4 DEF Out
    <2> HIDE DEF taken
    <2>3. f \in Filter
      <3>1. n - taken \in 0..MaxWrites
        BY <1>1, <2>1
      <3> QED BY <1>1, <3>1, FilterOut
    <2>4. /\ f.connected = chain[i].connected /\ f.readClosed = chain[i].readClosed
          /\ f.byeSent = chain[i].byeSent /\ f.writeClosed = chain[i].writeClosed /\ f.out = n - taken
      BY <1>1 DEF Filter
    <2> HIDE DEF f
    <2>5. /\ chain' \in Seq(Filter) /\ Last' = Last
          /\ chain'[i] = f /\ \A j \in 1..Last : j # i => chain'[j] = chain[j]
      BY <1>1, <2>2, <2>3, ChainUpdate
    <2> QED BY <1>1, <1>4, <2>1, <2>2, <2>4, <2>5
  <1> QED BY <1>2, <1>3, <1>4

\* What CloseFilter does to the filter that DoClose has come to.
LEMMA ShutdownEffect ==
  ASSUME ChainTypeOK, NEW i \in 1..Last, NEW complete \in BOOLEAN, Shutdown(i, complete)
  PROVE  /\ chain' \in Seq(Filter) /\ Last' = Last
         /\ \A j \in 1..Last : j # i => chain'[j] = chain[j]
         /\ chain'[i].connected = chain[i].connected /\ chain'[i].out = chain[i].out
         /\ complete => Closed(chain'[i])
         /\ ~complete => chain'[i].readClosed = chain[i].readClosed
                      /\ chain'[i].writeClosed = chain[i].writeClosed
         /\ unread' \in 0..SndRoom /\ nospace' \in BOOLEAN /\ arrived' \in 0..MaxRcv
         /\ arrived' <= arrived
  <1> DEFINE f     == chain[i]
             gone  == ~f.byeSent /\ link = "reset"
             says  == i > 1 /\ ~f.byeSent /\ ~gone
             waits == i > 1 /\ ~f.byeIn /\ ~gone
             sends == says /\ Room > 0
             finds == waits /\ i \in byes
             said  == f.byeSent \/ sends
             heard == f.byeIn \/ finds
             nr    == f.readClosed \/ complete
             nw    == f.writeClosed \/ complete
             g     == [f EXCEPT !.byeSent = said, !.byeIn = heard, !.readClosed = nr, !.writeClosed = nw]
  <1>1. /\ chain \in Seq(Filter) /\ f \in Filter /\ unread \in 0..SndRoom /\ nospace \in BOOLEAN
        /\ arrived \in 0..MaxRcv /\ SndRoom \in Nat /\ MaxRcv \in Nat
    BY ChainFilter, ChainAssumption DEF ChainTypeOK
  <1>2. /\ unread' = IF sends THEN unread + 1 ELSE unread
        /\ nospace' = (nospace \/ (says /\ ~sends))
        /\ arrived' = IF waits THEN 0 ELSE arrived
    BY DEF Shutdown
  <1>3. chain' = [chain EXCEPT ![i] = g]
    BY DEF Shutdown
  <1>4. sends \in BOOLEAN /\ said \in BOOLEAN /\ heard \in BOOLEAN /\ nr \in BOOLEAN /\ nw \in BOOLEAN
    OBVIOUS
  <1>5. sends => unread < SndRoom
    BY <1>1 DEF Room
  <1>6. /\ unread' \in 0..SndRoom /\ nospace' \in BOOLEAN /\ arrived' \in 0..MaxRcv
        /\ arrived' <= arrived
    <2> HIDE DEF f, gone, says, waits, sends
    <2> QED BY <1>1, <1>2, <1>5
  <1> HIDE DEF gone, says, waits, sends, finds, said, heard
  <1>7. g \in Filter
    <2>1. [f EXCEPT !.byeSent = said] \in Filter
      BY <1>1, <1>4, FilterFlag
    <2>2. [[f EXCEPT !.byeSent = said] EXCEPT !.byeIn = heard] \in Filter
      BY <1>4, <2>1, FilterFlag
    <2>3. [[[f EXCEPT !.byeSent = said] EXCEPT !.byeIn = heard] EXCEPT !.readClosed = nr] \in Filter
      BY <1>4, <2>2, FilterFlag
    <2>4. [[[[f EXCEPT !.byeSent = said] EXCEPT !.byeIn = heard] EXCEPT !.readClosed = nr]
             EXCEPT !.writeClosed = nw] \in Filter
      BY <1>4, <2>3, FilterFlag
    <2> QED BY <2>4
  <1>8. /\ g.connected = f.connected /\ g.out = f.out
        /\ g.readClosed = nr /\ g.writeClosed = nw
    BY <1>1 DEF Filter
  <1>9. complete => g.readClosed /\ g.writeClosed
    BY <1>8
  <1>10. ~complete => g.readClosed = f.readClosed /\ g.writeClosed = f.writeClosed
    <2>1. f.readClosed \in BOOLEAN /\ f.writeClosed \in BOOLEAN
      BY <1>1 DEF Filter
    <2> QED BY <1>8, <2>1
  <1> HIDE DEF g
  <1>11. /\ chain' \in Seq(Filter) /\ Last' = Last
         /\ chain'[i] = g /\ \A j \in 1..Last : j # i => chain'[j] = chain[j]
    BY <1>1, <1>3, <1>7, ChainUpdate
  <1> QED BY <1>6, <1>8, <1>9, <1>10, <1>11 DEF Closed

\* DoConnect of the last filter, either way; a read that finds the end, or a farewell.
LEMMA ConnectEffect ==
  ASSUME ChainTypeOK, chain' = [chain EXCEPT ![Last].connected = TRUE]
  PROVE  /\ chain' \in Seq(Filter) /\ Last' = Last /\ back'.connected
         /\ back'.out = back.out /\ back'.byeSent = back.byeSent
         /\ back'.readClosed = back.readClosed /\ back'.writeClosed = back.writeClosed
         /\ \A j \in 1..Last : j # Last => chain'[j] = chain[j]
  <1> DEFINE f == [back EXCEPT !.connected = TRUE]
  <1>1. chain \in Seq(Filter) /\ back \in Filter /\ Last \in 1..Last
    BY ChainFilter DEF ChainTypeOK, back
  <1>2. f \in Filter
    BY <1>1, FilterFlag, TRUE \in BOOLEAN
  <1>3. /\ f.connected /\ f.out = back.out /\ f.byeSent = back.byeSent
        /\ f.readClosed = back.readClosed /\ f.writeClosed = back.writeClosed
    BY <1>1 DEF Filter
  <1>4. chain' = [chain EXCEPT ![Last] = f]
    BY DEF back
  <1> HIDE DEF f
  <1>5. /\ chain' \in Seq(Filter) /\ Last' = Last
        /\ chain'[Last] = f /\ \A j \in 1..Last : j # Last => chain'[j] = chain[j]
    BY <1>1, <1>2, <1>4, ChainUpdate
  <1>6. back' = f
    BY <1>5 DEF back
  <1> QED BY <1>3, <1>5, <1>6

LEMMA FailEffect ==
  ASSUME ChainTypeOK,
         chain' = [chain EXCEPT ![Last].readClosed = TRUE, ![Last].writeClosed = TRUE]
  PROVE  /\ chain' \in Seq(Filter) /\ Last' = Last /\ Closed(back')
         /\ back'.connected = back.connected /\ back'.out = back.out /\ back'.byeSent = back.byeSent
         /\ \A j \in 1..Last : j # Last => chain'[j] = chain[j]
  <1> DEFINE f == [back EXCEPT !.readClosed = TRUE, !.writeClosed = TRUE]
  <1>1. chain \in Seq(Filter) /\ back \in Filter /\ Last \in 1..Last
    BY ChainFilter DEF ChainTypeOK, back
  <1>2. f \in Filter
    <2>1. [back EXCEPT !.readClosed = TRUE] \in Filter
      BY <1>1, FilterFlag, TRUE \in BOOLEAN
    <2>2. [[back EXCEPT !.readClosed = TRUE] EXCEPT !.writeClosed = TRUE] \in Filter
      BY <2>1, FilterFlag, TRUE \in BOOLEAN
    <2> QED BY <2>2
  <1>3. /\ f.connected = back.connected /\ f.out = back.out /\ f.byeSent = back.byeSent
        /\ f.readClosed /\ f.writeClosed
    BY <1>1 DEF Filter
  <1>4. chain' = [chain EXCEPT ![Last] = f]
    BY DEF back
  <1> HIDE DEF f
  <1>5. /\ chain' \in Seq(Filter) /\ Last' = Last
        /\ chain'[Last] = f /\ \A j \in 1..Last : j # Last => chain'[j] = chain[j]
    BY <1>1, <1>2, <1>4, ChainUpdate
  <1>6. back' = f
    BY <1>5 DEF back
  <1> QED BY <1>3, <1>5, <1>6 DEF Closed

LEMMA EndEffect ==
  ASSUME ChainTypeOK, chain' = [chain EXCEPT ![Last].readClosed = TRUE]
  PROVE  /\ chain' \in Seq(Filter) /\ Last' = Last /\ back'.readClosed
         /\ back'.connected = back.connected /\ back'.out = back.out
         /\ back'.byeSent = back.byeSent /\ back'.writeClosed = back.writeClosed
         /\ \A j \in 1..Last : j # Last => chain'[j] = chain[j]
  <1> DEFINE f == [back EXCEPT !.readClosed = TRUE]
  <1>1. chain \in Seq(Filter) /\ back \in Filter /\ Last \in 1..Last
    BY ChainFilter DEF ChainTypeOK, back
  <1>2. f \in Filter
    BY <1>1, FilterFlag, TRUE \in BOOLEAN
  <1>3. /\ f.connected = back.connected /\ f.out = back.out /\ f.byeSent = back.byeSent
        /\ f.readClosed /\ f.writeClosed = back.writeClosed
    BY <1>1 DEF Filter
  <1>4. chain' = [chain EXCEPT ![Last] = f]
    BY DEF back
  <1> HIDE DEF f
  <1>5. /\ chain' \in Seq(Filter) /\ Last' = Last
        /\ chain'[Last] = f /\ \A j \in 1..Last : j # Last => chain'[j] = chain[j]
    BY <1>1, <1>2, <1>4, ChainUpdate
  <1>6. back' = f
    BY <1>5 DEF back
  <1> QED BY <1>3, <1>5, <1>6

LEMMA FarewellEffect ==
  ASSUME ChainTypeOK, TakeFarewell(Last)
  PROVE  /\ chain' \in Seq(Filter) /\ Last' = Last
         /\ \A i \in 1..Last :
              /\ chain'[i].connected = chain[i].connected /\ chain'[i].out = chain[i].out
              /\ chain'[i].byeSent = chain[i].byeSent
              /\ chain'[i].readClosed = chain[i].readClosed
              /\ chain'[i].writeClosed = chain[i].writeClosed
  <1>1. PICK j \in 2..Last : chain' = [chain EXCEPT ![j].byeIn = TRUE]
    BY DEF TakeFarewell
  <1> DEFINE f == [chain[j] EXCEPT !.byeIn = TRUE]
  <1>2. chain \in Seq(Filter) /\ j \in 1..Last /\ chain[j] \in Filter
    BY <1>1, ChainFilter DEF ChainTypeOK
  <1>3. f \in Filter
    BY <1>2, FilterFlag, TRUE \in BOOLEAN
  <1>4. /\ f.connected = chain[j].connected /\ f.out = chain[j].out /\ f.byeSent = chain[j].byeSent
        /\ f.readClosed = chain[j].readClosed /\ f.writeClosed = chain[j].writeClosed
    BY <1>2 DEF Filter
  <1>5. chain' = [chain EXCEPT ![j] = f]
    BY <1>1
  <1> HIDE DEF f
  <1>6. /\ chain' \in Seq(Filter) /\ Last' = Last
        /\ chain'[j] = f /\ \A i \in 1..Last : i # j => chain'[i] = chain[i]
    BY <1>2, <1>3, <1>5, ChainUpdate
  <1> QED BY <1>4, <1>6

\* A new filter at the end.
LEMMA AddEffect ==
  ASSUME ChainTypeOK, chain' = Append(chain, NewFilter)
  PROVE  /\ chain' \in Seq(Filter) /\ Last' = Last + 1 /\ back' = NewFilter
         /\ \A i \in 1..Last : chain'[i] = chain[i]
  <1>1. chain \in Seq(Filter) /\ MaxWrites \in Nat
    BY ChainAssumption DEF ChainTypeOK
  <1>2. NewFilter \in Filter
    BY <1>1 DEF NewFilter, Filter
  <1>3. /\ chain' \in Seq(Filter) /\ Len(chain') = Len(chain) + 1
        /\ chain'[Len(chain) + 1] = NewFilter /\ \A i \in 1..Len(chain) : chain'[i] = chain[i]
    BY <1>1, <1>2, AppendProperties
  <1> QED BY <1>3 DEF Last, back

-----------------------------------------------------------------------------
(* Types.                                                                  *)

\* The types of what is not a flag, and of the flags.
ScalarsOK ==
  /\ link \in {"up", "fin", "reset"} /\ arrived \in 0..MaxRcv
  /\ hellos \subseteq Uppers /\ byes \subseteq hellos
  /\ unread \in 0..SndRoom
  /\ reg \in {"registered", "closing", "closed"} /\ notes \in Nat
  /\ chain \in Seq(Filter) /\ goal \in 1..MaxFilters /\ Last \in 1..goal
  /\ pendingWrites \in 0..MaxWrites /\ queued \in 0..MaxWrites
  /\ promised \in 0..MaxWrites /\ sent \in 0..MaxWrites
  /\ pc \in Steps /\ at \in 1..Last
  /\ calls \in [connected : Nat, data : Nat, eof : Nat]

FlagsOK ==
  /\ nospace \in BOOLEAN /\ edge \in BOOLEAN /\ lost \in BOOLEAN
  /\ addAllowed \in BOOLEAN /\ shouldClose \in BOOLEAN /\ eofCalled \in BOOLEAN

LEMMA TypesSplit == ChainTypeOK <=> ScalarsOK /\ FlagsOK
  BY DEF ChainTypeOK, ScalarsOK, FlagsOK

\* The actions that leave the chain alone keep the types.
\* HandleEOF is counted.
LEMMA CountEOF ==
  ASSUME NEW r \in [connected : Nat, data : Nat, eof : Nat]
  PROVE  [r EXCEPT !.eof = @ + 1] \in [connected : Nat, data : Nat, eof : Nat]
  OBVIOUS

LEMMA QuietScalars ==
  ASSUME ScalarsOK, pendingWrites <= queued,
         PeerNext \/ Write \/ Close \/ LoopNext \/ EnterHandleEvents \/ ReturnConnected
           \/ ModifyEvent \/ DoFinalize \/ AfterEOF
  PROVE  ScalarsOK' /\ UNCHANGED chain
  <1> USE ChainAssumption DEF ScalarsOK, peerVars, sendVars, eventVars, flagVars, writeVars, ctlVars
  <1>1. CASE PeerNext
    <2>1. ASSUME NEW i \in Uppers, PeerHello(i)
          PROVE  ScalarsOK' /\ UNCHANGED chain
      BY <2>1 DEF PeerHello, PeerStep, Last
    <2>2. ASSUME NEW i \in Uppers, PeerBye(i)
          PROVE  ScalarsOK' /\ UNCHANGED chain
      BY <2>2 DEF PeerBye, PeerStep, Last
    <2>3. CASE PeerSend
      BY <2>3 DEF PeerSend, PeerStep, Last
    <2>4. CASE PeerRead
      BY <2>4 DEF PeerRead, Last
    <2>5. ASSUME NEW how \in {"fin", "reset"}, PeerEnd(how)
          PROVE  ScalarsOK' /\ UNCHANGED chain
      BY <2>5 DEF PeerEnd, PeerStep, Last
    <2> QED BY <1>1, <2>1, <2>2, <2>3, <2>4, <2>5 DEF PeerNext
  <1>2. CASE Write
    <2>1. /\ pendingWrites' = pendingWrites + 1 /\ queued' = queued + 1 /\ queued < MaxWrites
          /\ notes' \in {notes, notes + 1}
          /\ UNCHANGED <<link, arrived, hellos, byes, unread, sent, reg, chain, goal, promised,
                         pc, at, calls>>
      BY <1>2 DEF Write
    <2> QED BY <2>1 DEF Last
  <1>3. CASE Close
    <2>1. /\ promised' = queued /\ notes' = notes + 1
          /\ UNCHANGED <<link, arrived, hellos, byes, unread, sent, reg, chain, goal, pendingWrites,
                         queued, pc, at, calls>>
      BY <1>3 DEF Close, SetShouldClose
    <2> QED BY <2>1 DEF Last
  <1>4. CASE LoopNext
    <2>1. CASE Report
      BY <2>1 DEF Report, Last, Steps
    <2>2. CASE Notify
      <3>1. /\ notes > 0 /\ notes' = notes - 1 /\ pc' \in {"idle", "enter"}
            /\ UNCHANGED <<link, arrived, hellos, byes, unread, sent, reg, chain, goal, pendingWrites,
                           queued, promised, at, calls>>
        BY <2>2 DEF Notify
      <3> QED BY <3>1 DEF Last, Steps
    <2>3. CASE Unregister
      BY <2>3 DEF Unregister, Last
    <2> QED BY <1>4, <2>1, <2>2, <2>3 DEF LoopNext
  <1>5. CASE EnterHandleEvents \/ ReturnConnected \/ ModifyEvent \/ AfterEOF
    BY <1>5 DEF EnterHandleEvents, ReturnConnected, ModifyEvent, AfterEOF, Last, Steps
  <1>6. CASE DoFinalize
    <2>1. /\ promised' \in {promised, queued} /\ pc' \in {"flush", "eof", "idle"}
          /\ calls' = calls \/ calls' = [calls EXCEPT !.eof = @ + 1]
          /\ UNCHANGED <<link, arrived, hellos, byes, unread, sent, reg, notes, chain, goal,
                         pendingWrites, queued, at>>
      BY <1>6 DEF DoFinalize, SetShouldClose
    <2>2. calls' \in [connected : Nat, data : Nat, eof : Nat]
      BY <2>1, CountEOF
    <2>3. pc' \in Steps /\ promised' \in 0..MaxWrites
      BY <2>1 DEF Steps
    <2> QED BY <2>1, <2>2, <2>3 DEF Last
  <1> QED BY <1>1, <1>2, <1>3, <1>4, <1>5, <1>6

LEMMA QuietFlags ==
  ASSUME FlagsOK,
         PeerNext \/ Write \/ Close \/ LoopNext \/ EnterHandleEvents \/ ReturnConnected
           \/ ModifyEvent \/ DoFinalize \/ AfterEOF
  PROVE  FlagsOK'
  <1> USE DEF FlagsOK, peerVars, sendVars, eventVars, flagVars, writeVars, ctlVars
  <1>1. CASE PeerNext
    BY <1>1 DEF PeerNext, PeerHello, PeerBye, PeerSend, PeerRead, PeerEnd, PeerStep
  <1>2. CASE Write
    BY <1>2 DEF Write
  <1>3. CASE Close
    BY <1>3 DEF Close, SetShouldClose
  <1>4. CASE LoopNext
    BY <1>4 DEF LoopNext, Report, Notify, Unregister
  <1>5. CASE EnterHandleEvents \/ ReturnConnected \/ ModifyEvent \/ AfterEOF
    BY <1>5 DEF EnterHandleEvents, ReturnConnected, ModifyEvent, AfterEOF
  <1>6. CASE DoFinalize
    BY <1>6 DEF DoFinalize, SetShouldClose
  <1> QED BY <1>1, <1>2, <1>3, <1>4, <1>5, <1>6

-----------------------------------------------------------------------------
(* The invariant.                                                          *)

LEMMA ChainInitial == ChainInit => ChainInv
  <1> SUFFICES ASSUME ChainInit PROVE ChainInv
    OBVIOUS
  <1>1. NewFilter \in Filter
    BY ChainAssumption DEF NewFilter, Filter
  <1>2. chain \in Seq(Filter) /\ Last = 1 /\ back = NewFilter /\ chain[1] = NewFilter
    BY <1>1 DEF ChainInit, Last, back
  <1>3. ScalarsOK
    BY <1>2, ChainAssumption DEF ChainInit, ScalarsOK, Steps
  <1>4. FlagsOK
    BY DEF ChainInit, FlagsOK
  <1>5. ConnectInv /\ OpenInv
    BY <1>2 DEF ChainInit, ConnectInv, OpenInv, NothingBypasses, NoData, NewFilter, Untouched
  <1>6. CloseInv /\ CountInv
    BY <1>2 DEF ChainInit, CloseInv, CountInv, ClosedFromTheTop, NewFilter
  <1> QED BY <1>3, <1>4, <1>5, <1>6, TypesSplit DEF ChainInv

\* The other steps of the peer, the user and the loop.
LEMMA QuietStep ==
  ASSUME ChainInv,
         PeerNext \/ Write \/ Close \/ LoopNext \/ EnterHandleEvents \/ ReturnConnected
           \/ ModifyEvent \/ DoFinalize \/ AfterEOF
  PROVE  ChainInv'
  <1>1. ScalarsOK /\ FlagsOK /\ ConnectInv /\ OpenInv /\ CloseInv /\ CountInv
    BY TypesSplit DEF ChainInv
  <1>2. pendingWrites <= queued
    <2>1. back.out \in Nat
      BY BackFilter, ChainAssumption DEF ChainInv
    <2> QED BY <1>1, <2>1 DEF ScalarsOK, CountInv
  <1>3. ScalarsOK' /\ FlagsOK' /\ UNCHANGED chain
    BY <1>1, <1>2, QuietScalars, QuietFlags
  <1>4. /\ Last' = Last /\ back' = back
        /\ ClosedFromTheTop' <=> ClosedFromTheTop
        /\ AllClosed' <=> AllClosed
    BY <1>3 DEF Last, back, ClosedFromTheTop, AllClosed
  <1>5. /\ queued \in Nat /\ promised \in Nat /\ sent \in Nat /\ pendingWrites \in Nat
        /\ calls \in [connected : Nat, data : Nat, eof : Nat]
        /\ back.out \in Nat /\ Last \in Nat /\ Last \in 1..Last
    BY <1>1, BackFilter, ChainAssumption DEF ChainInv, ScalarsOK
  <1> USE DEF peerVars, sendVars, eventVars, flagVars, writeVars, ctlVars
  <1>6. ConnectInv'
    <2>1. ASSUME UNCHANGED <<addAllowed, goal, sent>>, calls'.data = calls.data,
                 calls'.connected = calls.connected, shouldClose => shouldClose',
                 pc' \notin {"connect", "callback", "read", "write"} \/ pc' = pc,
                 pc = "callback" => pc' = "callback"
          PROVE  ConnectInv'
      BY <1>1, <1>3, <1>4, <2>1 DEF ConnectInv, NothingBypasses, NoData
    <2>2. CASE PeerNext
      BY <2>1, <2>2 DEF PeerNext, PeerHello, PeerBye, PeerSend, PeerRead, PeerEnd, PeerStep
    <2>3. CASE Write \/ Close
      BY <2>1, <2>3 DEF Write, Close, SetShouldClose
    <2>4. CASE LoopNext
      BY <2>1, <2>4 DEF LoopNext, Report, Notify, Unregister
    <2>5. CASE EnterHandleEvents
      BY <1>1, <1>3, <1>4, <2>5 DEF EnterHandleEvents, ConnectInv, NothingBypasses, NoData
    <2>6. CASE ReturnConnected
      BY <1>1, <1>3, <1>4, <2>6 DEF ReturnConnected, ConnectInv, NothingBypasses, NoData
    <2>7. CASE ModifyEvent \/ AfterEOF
      BY <2>1, <2>7 DEF ModifyEvent, AfterEOF
    <2>8. CASE DoFinalize
      <3>1. calls'.data = calls.data /\ calls'.connected = calls.connected
        BY <1>5, <2>8 DEF DoFinalize
      <3> QED BY <2>1, <2>8, <3>1 DEF DoFinalize, SetShouldClose
    <2> QED BY <2>2, <2>3, <2>4, <2>5, <2>6, <2>7, <2>8
  <1>7. OpenInv'
    <2>1. ASSUME shouldClose => shouldClose',
                 pc' \notin {"connect", "callback"} \/ pc' = pc,
                 pc' = "finalize" \/ pc # "finalize"
          PROVE  OpenInv'
      BY <1>1, <1>3, <1>4, <2>1 DEF OpenInv
    <2>2. CASE PeerNext
      BY <2>1, <2>2 DEF PeerNext, PeerHello, PeerBye, PeerSend, PeerRead, PeerEnd, PeerStep
    <2>3. CASE Write \/ Close
      BY <2>1, <2>3 DEF Write, Close, SetShouldClose
    <2>4. CASE LoopNext
      BY <2>1, <2>4 DEF LoopNext, Report, Notify, Unregister
    <2>5. CASE EnterHandleEvents
      <3>1. CASE pc' = "connect"
        <4>1. ~shouldClose /\ ~back.connected /\ pc = "enter" /\ shouldClose' = shouldClose
          BY <2>5, <3>1 DEF EnterHandleEvents
        <4>2. \A i \in 1..Last : Untouched(chain[i])
          BY <1>1, <1>5, <4>1 DEF OpenInv, back
        <4>3. Untouched(back) /\ \A i \in 1..(Last - 1) : Untouched(chain[i])
          BY <1>5, <4>2 DEF back
        <4> QED BY <1>3, <1>4, <3>1, <4>2, <4>3 DEF OpenInv
      <3>2. CASE pc' # "connect"
        BY <2>1, <2>5, <3>2 DEF EnterHandleEvents
      <3> QED BY <3>1, <3>2
    <2>6. CASE ReturnConnected \/ ModifyEvent \/ AfterEOF
      BY <2>1, <2>6 DEF ReturnConnected, ModifyEvent, AfterEOF
    <2>7. CASE DoFinalize
      BY <1>1, <1>3, <1>4, <2>7 DEF DoFinalize, SetShouldClose, OpenInv
    <2> QED BY <2>2, <2>3, <2>4, <2>5, <2>6, <2>7
  <1>8. CloseInv'
    <2>1. ASSUME shouldClose => shouldClose', UNCHANGED <<at, eofCalled>>, calls'.eof = calls.eof,
                 pc' \notin {"close", "shut"}  \/ pc' = pc, pc' = "flush" => shouldClose'
          PROVE  CloseInv'
      BY <1>1, <1>3, <1>4, <2>1 DEF CloseInv
    <2>2. CASE PeerNext
      BY <1>1, <2>1, <2>2 DEF PeerNext, PeerHello, PeerBye, PeerSend, PeerRead, PeerEnd, PeerStep, CloseInv
    <2>3. CASE Write \/ Close
      BY <1>1, <2>1, <2>3 DEF Write, Close, SetShouldClose, CloseInv
    <2>4. CASE LoopNext
      BY <1>1, <2>1, <2>4 DEF LoopNext, Report, Notify, Unregister, CloseInv
    <2>5. CASE EnterHandleEvents \/ ReturnConnected \/ ModifyEvent \/ AfterEOF
      BY <2>1, <2>5 DEF EnterHandleEvents, ReturnConnected, ModifyEvent, AfterEOF
    <2>6. CASE DoFinalize
      <3>1. CASE ~shouldClose /\ back.readClosed
        BY <2>1, <2>6, <3>1 DEF DoFinalize, SetShouldClose
      <3>2. CASE ~(~shouldClose /\ back.readClosed) /\ AllClosed /\ ~eofCalled
        <4>1. /\ eofCalled' = TRUE /\ pc' = "eof" /\ UNCHANGED shouldClose
              /\ calls'.eof = calls.eof + 1
          BY <1>5, <2>6, <3>2 DEF DoFinalize
        <4>2. back.readClosed
          BY <1>5, <1>1, <3>2 DEF AllClosed, Closed, back, ScalarsOK
        <4> QED BY <1>1, <1>3, <1>4, <3>2, <4>1, <4>2 DEF CloseInv
      <3>3. CASE ~(~shouldClose /\ back.readClosed) /\ ~(AllClosed /\ ~eofCalled)
        BY <2>1, <2>6, <3>3 DEF DoFinalize
      <3> QED BY <3>1, <3>2, <3>3
    <2> QED BY <2>2, <2>3, <2>4, <2>5, <2>6
  <1>9. CountInv'
    <2>1. ASSUME UNCHANGED <<sent, pendingWrites, queued, promised, lost>>,
                 shouldClose => shouldClose', pc' \notin {"close", "shut"} \/ pc' = pc
          PROVE  CountInv'
      BY <1>1, <1>4, <2>1 DEF CountInv
    <2>2. CASE PeerNext
      BY <2>1, <2>2 DEF PeerNext, PeerHello, PeerBye, PeerSend, PeerRead, PeerEnd, PeerStep
    <2>3. CASE Write
      BY <1>1, <1>4, <1>5, <2>3 DEF Write, CountInv
    <2>4. ASSUME ~shouldClose, SetShouldClose, UNCHANGED <<sent, pendingWrites, queued, lost>>,
                 pc' \notin {"close", "shut"} \/ pc' = pc
          PROVE  CountInv'
      BY <1>1, <1>4, <1>5, <2>4 DEF SetShouldClose, CountInv, CloseInv
    <2>5. CASE Close
      BY <2>4, <2>5 DEF Close
    <2>6. CASE LoopNext
      BY <2>1, <2>6 DEF LoopNext, Report, Notify, Unregister
    <2>7. CASE EnterHandleEvents \/ ReturnConnected \/ ModifyEvent \/ AfterEOF
      BY <2>1, <2>7 DEF EnterHandleEvents, ReturnConnected, ModifyEvent, AfterEOF
    <2>8. CASE DoFinalize
      BY <2>1, <2>4, <2>8 DEF DoFinalize
    <2> QED BY <2>2, <2>3, <2>5, <2>6, <2>7, <2>8
  <1> QED BY <1>3, <1>6, <1>7, <1>8, <1>9, TypesSplit DEF ChainInv, ChainTypeOK, ScalarsOK, FlagsOK

LEMMA ConnectStep ==
  ASSUME ChainInv, DoConnect
  PROVE  ChainInv'
  <1> USE DEF peerVars, eventVars, writeVars
  <1>1. ChainTypeOK /\ ScalarsOK /\ FlagsOK /\ ConnectInv /\ OpenInv /\ CloseInv /\ CountInv
    BY TypesSplit DEF ChainInv
  <1>2. /\ Last \in Nat \ {0} /\ Last \in 1..Last /\ back \in Filter /\ back.out \in 0..MaxWrites
        /\ calls \in [connected : Nat, data : Nat, eof : Nat]
        /\ queued \in Nat /\ promised \in Nat /\ sent \in Nat /\ pendingWrites \in Nat
    BY <1>1, BackFilter DEF ScalarsOK
  <1>3. /\ pc = "connect" /\ ~back.connected /\ NoData
        /\ \A i \in 1..Last : Untouched(chain[i])
        /\ Untouched(back)
    BY <1>1, <1>2 DEF DoConnect, ConnectInv, OpenInv, back
  <1>4. /\ UNCHANGED <<link, arrived, hellos, byes, unread, nospace, sent, edge, reg, notes, goal,
                       shouldClose, eofCalled, promised, pendingWrites, queued, at>>
    BY DEF DoConnect
  <1>5. CASE Last = 1 \/ Last \in hellos
    <2>1. /\ chain' = [chain EXCEPT ![Last].connected = TRUE] /\ addAllowed' = TRUE
          /\ calls' = [calls EXCEPT !.connected = @ + 1] /\ pc' = "callback" /\ UNCHANGED lost
      BY <1>5 DEF DoConnect
    <2>2. /\ chain' \in Seq(Filter) /\ Last' = Last /\ back'.connected
          /\ back'.out = back.out /\ back'.byeSent = back.byeSent
          /\ back'.readClosed = back.readClosed /\ back'.writeClosed = back.writeClosed
          /\ \A j \in 1..Last : j # Last => chain'[j] = chain[j]
      BY <1>1, <2>1, ConnectEffect
    <2>3. chain'[Last] = back' /\ chain[Last] = back
      BY <2>2 DEF back
    <2>4. ScalarsOK' /\ FlagsOK'
      <3>1. ScalarsOK'
        <4>1. calls' \in [connected : Nat, data : Nat, eof : Nat] /\ pc' \in Steps
          BY <1>2, <2>1 DEF Steps
        <4> QED BY <1>1, <1>4, <2>2, <4>1 DEF ScalarsOK
      <3>2. FlagsOK'
        BY <1>1, <1>4, <2>1 DEF FlagsOK
      <3> QED BY <3>1, <3>2
    <2>5. NoData'
      BY <1>2, <1>3, <1>4, <2>1, <2>2, <2>3 DEF NoData
    <2>6. NothingBypasses'
      <3>1. \A i \in 1..(Last - 1) : chain'[i] = chain[i]
        BY <1>2, <2>2
      <3>2. sent' = 0 /\ calls'.data = 0
        BY <2>5 DEF NoData
      <3> QED BY <1>1, <2>2, <3>1, <3>2 DEF NothingBypasses, ConnectInv
    <2>7. ConnectInv'
      <3>1. calls.connected = Last - 1 /\ calls'.connected = calls.connected + 1
        BY <1>1, <1>2, <1>3, <2>1 DEF ConnectInv
      <3> QED BY <1>1, <1>2, <2>1, <2>2, <2>5, <2>6, <3>1 DEF ConnectInv
    <2>8. \A i \in 1..Last : Untouched(chain'[i])
      BY <1>3, <2>2, <2>3 DEF Untouched
    <2>9. OpenInv' /\ CloseInv' /\ CountInv'
      <3>1. OpenInv'
        <4>1. \A i \in 1..(Last - 1) : Untouched(chain'[i])
          BY <1>2, <2>8
        <4> QED BY <2>1, <2>2, <2>8, <4>1 DEF OpenInv
      <3>2. ClosedFromTheTop'
        BY <2>2, <2>8 DEF ClosedFromTheTop, Untouched
      <3>3. ~eofCalled
        BY <1>1, <1>2, <1>3 DEF CloseInv, AllClosed, Closed, Untouched
      <3>4. calls'.eof = calls.eof
        BY <1>2, <2>1
      <3>5. CloseInv'
        BY <1>1, <1>4, <2>1, <3>2, <3>3, <3>4 DEF CloseInv
      <3>6. CountInv'
        BY <1>1, <1>4, <2>1, <2>2 DEF CountInv
      <3> QED BY <3>1, <3>5, <3>6
    <2> QED BY <2>4, <2>7, <2>9, TypesSplit DEF ChainInv, ChainTypeOK, ScalarsOK, FlagsOK
  <1>6. CASE ~(Last = 1 \/ Last \in hellos) /\ link = "up" /\ byes = {}
    <2>1. UNCHANGED <<chain, addAllowed, calls, lost>> /\ pc' = "finalize"
      BY <1>6 DEF DoConnect
    <2>2. Last' = Last /\ back' = back
      BY <2>1 DEF Last, back
    <2>3. ScalarsOK' /\ FlagsOK'
      <3>1. ScalarsOK'
        BY <1>1, <1>4, <2>1, <2>2 DEF ScalarsOK, Steps
      <3>2. FlagsOK'
        BY <1>1, <1>4, <2>1 DEF FlagsOK
      <3> QED BY <3>1, <3>2
    <2>4. ConnectInv' /\ OpenInv' /\ CloseInv' /\ CountInv'
      BY <1>1, <1>3, <1>4, <2>1, <2>2 DEF ConnectInv, NothingBypasses, NoData, OpenInv, CloseInv,
         ClosedFromTheTop, AllClosed, CountInv
    <2> QED BY <2>3, <2>4, TypesSplit DEF ChainInv, ChainTypeOK, ScalarsOK, FlagsOK
  <1>7. CASE ~(Last = 1 \/ Last \in hellos) /\ ~(link = "up" /\ byes = {})
    <2>1. /\ chain' = [chain EXCEPT ![Last].readClosed = TRUE, ![Last].writeClosed = TRUE]
          /\ lost' = TRUE /\ UNCHANGED <<addAllowed, calls>> /\ pc' = "finalize"
      BY <1>7 DEF DoConnect
    <2>2. /\ chain' \in Seq(Filter) /\ Last' = Last /\ Closed(back')
          /\ back'.connected = back.connected /\ back'.out = back.out /\ back'.byeSent = back.byeSent
          /\ \A j \in 1..Last : j # Last => chain'[j] = chain[j]
      BY <1>1, <2>1, FailEffect
    <2>3. chain'[Last] = back' /\ chain[Last] = back
      BY <2>2 DEF back
    <2>4. ScalarsOK' /\ FlagsOK'
      <3>1. ScalarsOK'
        BY <1>1, <1>4, <2>1, <2>2 DEF ScalarsOK, Steps
      <3>2. FlagsOK'
        BY <1>1, <1>4, <2>1 DEF FlagsOK
      <3> QED BY <3>1, <3>2
    <2>5. NoData'
      BY <1>2, <1>3, <1>4, <2>1, <2>2, <2>3 DEF NoData
    <2>6. \A i \in 1..(Last - 1) : chain'[i] = chain[i]
      BY <1>2, <2>2
    <2>7. NothingBypasses'
      BY <1>1, <2>2, <2>5, <2>6 DEF NothingBypasses, ConnectInv, NoData
    <2>8. ConnectInv'
      BY <1>1, <1>2, <1>3, <2>1, <2>2, <2>5, <2>7 DEF ConnectInv
    <2>9. OpenInv'
      BY <1>2, <1>3, <2>1, <2>2, <2>6 DEF OpenInv, Closed
    <2>10. CloseInv'
      <3>1. ClosedFromTheTop'
        BY <1>2, <1>3, <2>2, <2>3 DEF ClosedFromTheTop, Untouched
      <3>2. ~eofCalled
        BY <1>1, <1>2, <1>3 DEF CloseInv, AllClosed, Closed, Untouched
      <3> QED BY <1>1, <1>4, <2>1, <3>1, <3>2 DEF CloseInv
    <2>11. CountInv'
      BY <1>1, <1>4, <2>1, <2>2 DEF CountInv
    <2> QED BY <2>4, <2>8, <2>9, <2>10, <2>11, TypesSplit DEF ChainInv, ChainTypeOK, ScalarsOK, FlagsOK
  <1> QED BY <1>5, <1>6, <1>7

LEMMA AddStep ==
  ASSUME ChainInv, AddStreamBufferFilter
  PROVE  ChainInv'
  <1> USE DEF peerVars, sendVars, eventVars, writeVars, ctlVars
  <1>1. ChainTypeOK /\ ScalarsOK /\ FlagsOK /\ ConnectInv /\ OpenInv /\ CloseInv /\ CountInv
    BY TypesSplit DEF ChainInv
  <1>2. /\ Last \in Nat \ {0} /\ Last \in 1..Last /\ back \in Filter /\ chain[Last] = back
        /\ calls \in [connected : Nat, data : Nat, eof : Nat]
        /\ queued \in Nat /\ promised \in Nat /\ sent \in Nat /\ pendingWrites \in Nat
    BY <1>1, BackFilter DEF ScalarsOK, back
  <1>3. /\ chain' = Append(chain, NewFilter) /\ addAllowed' = FALSE /\ Last < goal /\ addAllowed
        /\ UNCHANGED <<link, arrived, hellos, byes, unread, nospace, sent, lost, edge, reg, notes,
                       goal, shouldClose, eofCalled, promised, pendingWrites, queued, pc, at, calls>>
    BY DEF AddStreamBufferFilter
  <1>4. /\ pc = "callback" /\ back.connected /\ NoData
        /\ \A i \in 1..Last : Untouched(chain[i])
    BY <1>1, <1>3 DEF ConnectInv, OpenInv
  <1>5. /\ chain' \in Seq(Filter) /\ Last' = Last + 1 /\ back' = NewFilter
        /\ \A i \in 1..Last : chain'[i] = chain[i]
    BY <1>1, <1>3, AddEffect
  <1>6. /\ ~NewFilter.connected /\ NewFilter.out = 0 /\ Untouched(NewFilter)
    BY DEF NewFilter, Untouched
  <1>7. chain'[Last + 1] = NewFilter
    BY <1>5 DEF back
  <1>8. ScalarsOK' /\ FlagsOK'
    <2>1. ScalarsOK'
      BY <1>1, <1>2, <1>3, <1>5 DEF ScalarsOK
    <2>2. FlagsOK'
      BY <1>1, <1>3 DEF FlagsOK
    <2> QED BY <2>1, <2>2
  <1>9. NoData'
    <2>1. \A i \in 1..Last' : i \in 1..Last \/ i = Last + 1
      BY <1>2, <1>5
    <2>2. \A i \in 1..Last' : chain'[i].out = 0
      BY <1>4, <1>5, <1>6, <1>7, <2>1 DEF NoData
    <2> QED BY <1>3, <1>4, <2>2 DEF NoData
  <1>10. \A i \in 1..Last' : Untouched(chain'[i])
    <2> TAKE i \in 1..Last'
    <2>1. i \in 1..Last \/ i = Last + 1
      BY <1>2, <1>5
    <2>2. CASE i \in 1..Last
      <3>1. chain'[i] = chain[i] /\ Untouched(chain[i])
        BY <1>4, <1>5, <2>2
      <3> QED BY <3>1
    <2>3. CASE i = Last + 1
      BY <1>6, <1>7, <2>3
    <2> QED BY <2>1, <2>2, <2>3
  <1>11. NothingBypasses'
    <2>1. \A i \in 1..Last : chain'[i].connected /\ chain'[i].out = 0
      BY <1>1, <1>2, <1>4, <1>5 DEF ConnectInv, NothingBypasses, NoData
    <2> QED BY <1>2, <1>5, <1>9, <2>1 DEF NothingBypasses, NoData
  <1>12. ConnectInv'
    BY <1>1, <1>2, <1>3, <1>4, <1>5, <1>6, <1>9, <1>11 DEF ConnectInv
  <1>13. OpenInv'
    BY <1>2, <1>5, <1>6, <1>10 DEF OpenInv
  <1>14. CloseInv'
    <2>1. ClosedFromTheTop'
      BY <1>10 DEF ClosedFromTheTop, Untouched
    <2>2. ~eofCalled
      BY <1>1, <1>2, <1>4 DEF CloseInv, AllClosed, Closed, Untouched
    <2> QED BY <1>1, <1>3, <1>4, <2>1, <2>2 DEF CloseInv
  <1>15. CountInv'
    BY <1>1, <1>2, <1>3, <1>4, <1>5, <1>6 DEF CountInv, NoData, Untouched
  <1> QED BY <1>8, <1>12, <1>13, <1>14, <1>15, TypesSplit DEF ChainInv, ChainTypeOK, ScalarsOK, FlagsOK

LEMMA ReadStep ==
  ASSUME ChainInv, DoRead
  PROVE  ChainInv'
  <1> USE DEF sendVars, eventVars, flagVars, writeVars
  <1>1. ChainTypeOK /\ ScalarsOK /\ FlagsOK /\ ConnectInv /\ OpenInv /\ CloseInv /\ CountInv
    BY TypesSplit DEF ChainInv
  <1>2. /\ Last \in Nat \ {0} /\ Last \in 1..Last /\ back \in Filter /\ chain[Last] = back
        /\ calls \in [connected : Nat, data : Nat, eof : Nat] /\ MaxRcv \in Nat
    BY <1>1, BackFilter, ChainAssumption DEF ScalarsOK, back
  <1>3. /\ pc = "read" /\ back.connected /\ Last = goal
        /\ UNCHANGED <<link, hellos, byes, unread, nospace, sent, lost, edge, reg, notes, goal,
                       addAllowed, shouldClose, eofCalled, promised, pendingWrites, queued, at>>
    BY <1>1 DEF DoRead, ConnectInv
  <1>4. FlagsOK'
    BY <1>1, <1>3 DEF FlagsOK
  \* A step that changes no field of a filter that the invariant speaks of.
  <1>5. ASSUME chain' \in Seq(Filter), Last' = Last,
               \A i \in 1..Last :
                 /\ chain'[i].connected = chain[i].connected /\ chain'[i].out = chain[i].out
                 /\ chain'[i].byeSent = chain[i].byeSent
                 /\ chain'[i].readClosed = chain[i].readClosed
                 /\ chain'[i].writeClosed = chain[i].writeClosed,
               pc' \in {"read", "write"}, arrived' \in {arrived, 0},
               calls' = calls \/ calls' = [calls EXCEPT !.data = @ + 1]
        PROVE  ChainInv'
    <2>1. /\ calls' \in [connected : Nat, data : Nat, eof : Nat]
          /\ calls'.connected = calls.connected /\ calls'.eof = calls.eof
      BY <1>2, <1>5
    <2>2. /\ back'.connected = back.connected /\ back'.out = back.out
          /\ back'.readClosed = back.readClosed /\ back'.writeClosed = back.writeClosed
          /\ back'.byeSent = back.byeSent
      BY <1>2, <1>5 DEF back
    <2>3. ScalarsOK'
      <3>1. pc' \in Steps /\ arrived' \in 0..MaxRcv
        BY <1>1, <1>2, <1>5 DEF ScalarsOK, Steps
      <3> QED BY <1>1, <1>3, <1>5, <2>1, <3>1 DEF ScalarsOK
    <2>4. \A i \in 1..(Last - 1) : i \in 1..Last
      BY <1>2
    <2>5. ConnectInv'
      BY <1>1, <1>3, <1>5, <2>1, <2>2, <2>4 DEF ConnectInv, NothingBypasses
    <2>6. OpenInv'
      BY <1>1, <1>3, <1>5, <2>2, <2>4 DEF OpenInv, Untouched
    <2>7. CloseInv'
      <3>1. ClosedFromTheTop'
        <4>1. \A i \in 1..Last : \A j \in (i + 1)..Last : j \in 1..Last
          BY <1>2
        <4> QED BY <1>1, <1>5, <4>1 DEF CloseInv, ClosedFromTheTop, Closed
      <3>2. AllClosed' <=> AllClosed
        BY <1>5 DEF AllClosed, Closed
      <3> QED BY <1>1, <1>3, <1>5, <2>1, <3>1, <3>2 DEF CloseInv
    <2>8. CountInv'
      BY <1>1, <1>3, <1>5, <2>2 DEF CountInv
    <2> QED BY <1>4, <2>3, <2>5, <2>6, <2>7, <2>8, TypesSplit DEF ChainInv, ChainTypeOK, ScalarsOK, FlagsOK
  <1>6. CASE UNCHANGED chain
    <2>1. pc' \in {"read", "write"} /\ arrived' \in {arrived, 0}
          /\ (calls' = calls \/ calls' = [calls EXCEPT !.data = @ + 1])
      BY <1>3 DEF DoRead
    <2>2. chain' \in Seq(Filter) /\ Last' = Last
      BY <1>1, <1>6 DEF ScalarsOK, Last
    <2> QED BY <1>5, <1>6, <2>1, <2>2
  <1>7. CASE TakeFarewell(Last) /\ UNCHANGED <<arrived, calls, pc>>
    <2>1. /\ chain' \in Seq(Filter) /\ Last' = Last
          /\ \A i \in 1..Last :
               /\ chain'[i].connected = chain[i].connected /\ chain'[i].out = chain[i].out
               /\ chain'[i].byeSent = chain[i].byeSent
               /\ chain'[i].readClosed = chain[i].readClosed
               /\ chain'[i].writeClosed = chain[i].writeClosed
      BY <1>1, <1>7, FarewellEffect
    <2> QED BY <1>3, <1>5, <1>7, <2>1
  <1>8. CASE chain' = [chain EXCEPT ![Last].readClosed = TRUE] /\ pc' = "write" /\ UNCHANGED <<arrived, calls>>
    <2>1. /\ chain' \in Seq(Filter) /\ Last' = Last /\ back'.readClosed
          /\ back'.connected = back.connected /\ back'.out = back.out
          /\ back'.byeSent = back.byeSent /\ back'.writeClosed = back.writeClosed
          /\ \A j \in 1..Last : j # Last => chain'[j] = chain[j]
      BY <1>1, <1>8, EndEffect
    <2>2. \A i \in 1..(Last - 1) : i \in 1..Last /\ i # Last /\ chain'[i] = chain[i]
      BY <1>2, <2>1
    <2>3. chain'[Last] = back'
      BY <2>1 DEF back
    <2>4. ScalarsOK'
      BY <1>1, <1>3, <1>8, <2>1 DEF ScalarsOK, Steps
    <2>5. ConnectInv'
      BY <1>1, <1>3, <1>8, <2>1, <2>2 DEF ConnectInv, NothingBypasses
    <2>6. OpenInv'
      BY <1>1, <1>3, <1>8, <2>1, <2>2 DEF OpenInv
    <2>7. CloseInv'
      <3>1. ClosedFromTheTop'
        <4> SUFFICES ASSUME NEW i \in 1..Last, NEW j \in (i + 1)..Last,
                            chain'[i].byeSent \/ chain'[i].readClosed \/ chain'[i].writeClosed
                     PROVE  Closed(chain'[j])
          BY <2>1 DEF ClosedFromTheTop
        <4>1. i # Last /\ j \in 1..Last /\ chain'[i] = chain[i]
          BY <1>2, <2>1
        <4>2. Closed(chain[j])
          BY <1>1, <4>1 DEF CloseInv, ClosedFromTheTop
        <4> QED BY <2>1, <2>3, <1>2, <4>1, <4>2 DEF Closed
      <3>2. ASSUME eofCalled PROVE AllClosed'
        BY <1>1, <1>2, <2>1, <2>3, <3>2 DEF CloseInv, AllClosed, Closed
      <3> QED BY <1>1, <1>3, <1>8, <2>1, <3>1, <3>2 DEF CloseInv
    <2>8. CountInv'
      BY <1>1, <1>3, <1>8, <2>1 DEF CountInv
    <2> QED BY <1>4, <2>4, <2>5, <2>6, <2>7, <2>8, TypesSplit DEF ChainInv, ChainTypeOK, ScalarsOK, FlagsOK
  <1> QED BY <1>6, <1>7, <1>8 DEF DoRead

\* Out of the last filter, with what DoWrite has taken from the list in front.
LEMMA BackOut ==
  ASSUME ChainInv, pendingWrites' \in {pendingWrites, 0}, ~back.writeClosed,
         Out(Last, back.out + (pendingWrites - pendingWrites')),
         UNCHANGED <<link, arrived, hellos, byes, edge, reg, notes, goal, addAllowed, shouldClose,
                     eofCalled, promised, queued, calls>>,
         pc' \in Steps, at' \in 1..Last,
         shouldClose \/ (back.connected /\ Last = goal)
  PROVE  /\ ScalarsOK' /\ FlagsOK' /\ Last' = Last
         /\ \A j \in 1..(Last - 1) : chain'[j] = chain[j]
         /\ chain'[Last] = back' /\ back'.connected = back.connected
         /\ back'.readClosed = back.readClosed /\ back'.byeSent = back.byeSent
         /\ sent' + back'.out + pendingWrites' <= queued
         /\ ~lost' => ~lost /\ ~back'.writeClosed /\ sent' + back'.out + pendingWrites' = queued
         /\ back.out + (pendingWrites - pendingWrites') = 0 => UNCHANGED <<chain, sent, lost>>
  <1> DEFINE n == back.out + (pendingWrites - pendingWrites')
  <1>1. ChainTypeOK /\ ScalarsOK /\ FlagsOK /\ CountInv
    BY TypesSplit DEF ChainInv
  <1>2. /\ Last \in Nat \ {0} /\ Last \in 1..Last /\ back.out \in 0..MaxWrites /\ chain[Last] = back
        /\ queued \in 0..MaxWrites /\ sent \in 0..MaxWrites /\ pendingWrites \in 0..MaxWrites
        /\ MaxWrites \in Nat
    BY <1>1, BackFilter, ChainAssumption DEF ScalarsOK, back
  <1>3. /\ n \in 0..MaxWrites /\ sent + n <= MaxWrites /\ (n = 0 => back.out = 0)
        /\ sent + n + pendingWrites' = sent + back.out + pendingWrites
        /\ sent + n + pendingWrites' <= queued
        /\ pendingWrites' \in 0..MaxWrites
    BY <1>1, <1>2 DEF CountInv
  <1>4. Out(Last, n)
    OBVIOUS
  <1> HIDE DEF n
  <1>5. /\ chain' \in Seq(Filter) /\ Last' = Last
        /\ \A j \in 1..Last : j # Last => chain'[j] = chain[j]
        /\ chain'[Last].connected = back.connected /\ chain'[Last].readClosed = back.readClosed
        /\ chain'[Last].byeSent = back.byeSent
        /\ unread' \in 0..SndRoom /\ sent' \in 0..MaxWrites
        /\ sent' + chain'[Last].out <= sent + n
        /\ n = 0 => UNCHANGED <<chain, sent, lost>>
        /\ \/ lost' = TRUE /\ chain'[Last].writeClosed /\ sent' = sent
           \/ /\ lost' = lost /\ chain'[Last].writeClosed = back.writeClosed
              /\ sent' + chain'[Last].out = sent + n
    BY <1>1, <1>2, <1>3, <1>4, OutEffect
  <1>6. chain'[Last] = back' /\ back' \in Filter
    <2>1. chain'[Last] \in Filter
      BY <1>2, <1>5, ElementOfSeq DEF Last
    <2> QED BY <1>5, <2>1 DEF back
  <1>7. ScalarsOK'
    BY <1>1, <1>2, <1>3, <1>5 DEF ScalarsOK
  <1>8. FlagsOK'
    <2>1. nospace' = nospace \/ nospace' \in BOOLEAN
      BY <1>4 DEF Out, sendVars
    <2>2. nospace' \in BOOLEAN /\ lost' \in BOOLEAN
      <3>1. lost' = TRUE \/ lost' = lost
        BY <1>5
      <3> QED BY <1>1, <2>1, <3>1, Zenon DEF FlagsOK
    <2> QED BY <1>1, <2>2 DEF FlagsOK
  <1>9. back'.out \in Nat /\ sent' \in Nat
    BY <1>2, <1>5, <1>6 DEF Filter
  <1>10. sent' + back'.out + pendingWrites' <= queued
    <2>1. ASSUME NEW a \in Nat, NEW c \in Nat, NEW m \in Nat, NEW q \in Nat, a <= m, m + c <= q
          PROVE  a + c <= q
      BY <2>1
    <2>2. sent' + back'.out <= sent + n
      BY <1>5, <1>6
    <2>3. sent' + back'.out \in Nat /\ sent + n \in Nat /\ pendingWrites' \in Nat /\ queued \in Nat
      BY <1>2, <1>3, <1>9
    <2> QED BY <1>3, <2>1, <2>2, <2>3
  <1>11. ASSUME ~lost'
         PROVE  ~lost /\ ~back'.writeClosed /\ sent' + back'.out + pendingWrites' = queued
    <2>1. lost' = lost /\ back'.writeClosed = back.writeClosed /\ sent' + back'.out = sent + n
      BY <1>5, <1>6, <1>11
    <2>2. ~lost /\ ~back'.writeClosed
      BY <1>11, <2>1
    <2> QED BY <1>1, <1>2, <1>3, <1>9, <2>1, <2>2 DEF CountInv
  <1>12. \A j \in 1..(Last - 1) : chain'[j] = chain[j]
    BY <1>2, <1>5
  <1> QED BY <1>5, <1>6, <1>7, <1>8, <1>10, <1>11, <1>12 DEF n

\* DoWrite, from HandleEvents or from DoClose.
LEMMA WriteStep ==
  ASSUME ChainInv, NEW next, DoWrite(next),
         \/ pc = "write" /\ next = "finalize" /\ UNCHANGED at
         \/ pc = "flush" /\ next = "close" /\ at' = Last /\ ~\E i \in 1..Last : chain[i].writeClosed
  PROVE  ChainInv'
  <1> USE DEF peerVars, eventVars, flagVars
  <1>1. ChainTypeOK /\ ScalarsOK /\ FlagsOK /\ ConnectInv /\ OpenInv /\ CloseInv /\ CountInv
    BY TypesSplit DEF ChainInv
  <1>2. /\ Last \in Nat \ {0} /\ Last \in 1..Last /\ back.out \in 0..MaxWrites /\ chain[Last] = back
        /\ queued \in 0..MaxWrites /\ sent \in 0..MaxWrites /\ pendingWrites \in 0..MaxWrites
        /\ promised \in 0..MaxWrites /\ MaxWrites \in Nat
    BY <1>1, BackFilter, ChainAssumption DEF ScalarsOK, back
  <1>3. /\ UNCHANGED <<link, arrived, hellos, byes, edge, reg, notes, goal, addAllowed, shouldClose,
                       eofCalled, promised, queued, calls>>
        /\ pc' = next /\ pc' \in {"finalize", "close"} /\ pc' \in Steps /\ at' \in 1..Last
    BY <1>1, <1>2 DEF DoWrite, Steps, ScalarsOK
  <1>4. shouldClose \/ (back.connected /\ Last = goal)
    BY <1>1 DEF ConnectInv, CloseInv
  <1>5. CASE back.writeClosed \/ pendingWrites = 0
    <2>1. UNCHANGED <<chain, unread, nospace, sent, lost, pendingWrites>>
      BY <1>5 DEF DoWrite, sendVars
    <2>2. Last' = Last /\ back' = back /\ chain \in Seq(Filter)
      BY <1>1, <2>1 DEF Last, back, ScalarsOK
    <2>3. ScalarsOK' /\ FlagsOK'
      <3>1. ScalarsOK'
        BY <1>1, <1>3, <2>1, <2>2 DEF ScalarsOK
      <3>2. FlagsOK'
        BY <1>1, <1>3, <2>1 DEF FlagsOK
      <3> QED BY <3>1, <3>2
    <2>4. ConnectInv' /\ OpenInv'
      BY <1>1, <1>3, <2>1, <2>2 DEF ConnectInv, NothingBypasses, NoData, OpenInv
    <2>5. CloseInv'
      <3>1. ClosedFromTheTop' <=> ClosedFromTheTop
        BY <2>1, <2>2 DEF ClosedFromTheTop
      <3>2. AllClosed' <=> AllClosed
        BY <2>1, <2>2 DEF AllClosed
      <3>3. ASSUME pc' = "close" PROVE shouldClose /\ at' = Last
        BY <1>1, <1>3, <3>3 DEF CloseInv
      <3>4. pc' = "close" => \A j \in (at' + 1)..Last' : Closed(chain'[j])
        BY <1>2, <2>2, <3>3
      <3> QED BY <1>1, <1>3, <2>1, <2>2, <3>1, <3>2, <3>3, <3>4 DEF CloseInv
    <2>6. CountInv'
      <3>1. pc' = "close" /\ ~back.writeClosed => pendingWrites = 0
        BY <1>5
      <3> QED BY <1>1, <1>2, <1>3, <2>1, <2>2, <3>1 DEF CountInv
    <2> QED BY <2>3, <2>4, <2>5, <2>6, TypesSplit DEF ChainInv, ChainTypeOK, ScalarsOK, FlagsOK
  <1>6. CASE ~back.writeClosed /\ pendingWrites # 0
    <2>1. pendingWrites' = 0 /\ Out(Last, back.out + (pendingWrites - pendingWrites'))
      BY <1>2, <1>6 DEF DoWrite
    <2>2. /\ ScalarsOK' /\ FlagsOK' /\ Last' = Last
          /\ \A j \in 1..(Last - 1) : chain'[j] = chain[j]
          /\ chain'[Last] = back' /\ back'.connected = back.connected
          /\ back'.readClosed = back.readClosed /\ back'.byeSent = back.byeSent
          /\ sent' + back'.out + pendingWrites' <= queued
          /\ ~lost' => ~lost /\ ~back'.writeClosed /\ sent' + back'.out + pendingWrites' = queued
      BY <1>3, <1>4, <1>6, <2>1, BackOut
    <2>3. ConnectInv'
      <3>1. NothingBypasses'
        BY <1>1, <1>3, <1>4, <2>2 DEF ConnectInv, NothingBypasses
      <3> QED BY <1>1, <1>3, <1>4, <2>2, <3>1 DEF ConnectInv
    <2>4. OpenInv'
      BY <1>1, <1>3, <1>4, <2>2 DEF OpenInv, Untouched, ConnectInv, CloseInv
    <2>5. CloseInv'
      <3>1. ClosedFromTheTop'
        <4> SUFFICES ASSUME NEW i \in 1..Last, NEW j \in (i + 1)..Last,
                            chain'[i].byeSent \/ chain'[i].readClosed \/ chain'[i].writeClosed
                     PROVE  Closed(chain'[j])
          BY <2>2 DEF ClosedFromTheTop
        <4>1. i \in 1..(Last - 1) /\ j \in 1..Last
          BY <1>2
        <4>2. Closed(chain[j]) /\ Closed(chain[Last])
          <5>1. chain[i].byeSent \/ chain[i].readClosed \/ chain[i].writeClosed
            BY <2>2, <4>1
          <5>2. Last \in (i + 1)..Last
            BY <1>2
          <5> QED BY <1>1, <5>1, <5>2 DEF CloseInv, ClosedFromTheTop
        <4> QED BY <1>2, <1>6, <4>2 DEF Closed
      <3>2. ~eofCalled
        BY <1>1, <1>2, <1>6 DEF CloseInv, AllClosed, Closed
      <3>3. ASSUME pc' = "close" PROVE shouldClose /\ at' = Last
        BY <1>1, <1>3, <3>3 DEF CloseInv
      <3>4. pc' = "close" => \A j \in (at' + 1)..Last' : Closed(chain'[j])
        BY <1>2, <2>2, <3>3
      <3> QED BY <1>1, <1>3, <2>2, <3>1, <3>2, <3>3, <3>4 DEF CloseInv
    <2>6. CountInv'
      BY <1>1, <1>2, <1>3, <2>1, <2>2 DEF CountInv
    <2> QED BY <2>2, <2>3, <2>4, <2>5, <2>6, TypesSplit DEF ChainInv, ChainTypeOK, ScalarsOK, FlagsOK
  <1> QED BY <1>5, <1>6

\* DoClose, before it comes to the filters.
LEMMA DoCloseStep ==
  ASSUME ChainInv, DoClose
  PROVE  ChainInv'
  <1> USE DEF peerVars, sendVars, eventVars, flagVars, writeVars
  <1>1. ChainTypeOK /\ ScalarsOK /\ FlagsOK /\ ConnectInv /\ OpenInv /\ CloseInv /\ CountInv
    BY TypesSplit DEF ChainInv
  <1>2. /\ Last \in Nat \ {0} /\ Last \in 1..Last /\ chain[Last] = back
        /\ queued \in Nat /\ promised \in Nat /\ sent \in Nat /\ pendingWrites \in Nat
    BY <1>1, BackFilter DEF ScalarsOK, back
  <1>3. CASE ~\E i \in 1..Last : chain[i].writeClosed
    BY <1>3, WriteStep DEF DoClose
  <1>4. CASE \E i \in 1..Last : chain[i].writeClosed
    <2>1. /\ pc = "flush" /\ pc' = "close" /\ at' = Last
          /\ UNCHANGED <<link, arrived, hellos, byes, unread, nospace, sent, lost, edge, reg, notes, chain,
                         goal, addAllowed, shouldClose, eofCalled, promised, pendingWrites, queued, calls>>
      BY <1>4 DEF DoClose
    <2>2. Last' = Last /\ back' = back
      BY <2>1 DEF Last, back
    <2>3. ScalarsOK' /\ FlagsOK'
      <3>1. ScalarsOK'
        BY <1>1, <1>2, <2>1, <2>2 DEF ScalarsOK, Steps
      <3>2. FlagsOK'
        BY <1>1, <2>1 DEF FlagsOK
      <3> QED BY <3>1, <3>2
    <2>4. ConnectInv' /\ OpenInv'
      BY <1>1, <2>1, <2>2 DEF ConnectInv, NothingBypasses, NoData, OpenInv
    <2>5. CloseInv'
      <3>1. ClosedFromTheTop' <=> ClosedFromTheTop
        BY <2>1, <2>2 DEF ClosedFromTheTop
      <3>2. AllClosed' <=> AllClosed
        BY <2>1, <2>2 DEF AllClosed
      <3>3. \A j \in (at' + 1)..Last' : Closed(chain'[j])
        BY <1>2, <2>1, <2>2
      <3> QED BY <1>1, <2>1, <2>2, <3>1, <3>2, <3>3 DEF CloseInv
    <2>6. back.writeClosed
      <3>1. PICK i \in 1..Last : chain[i].writeClosed
        BY <1>4
      <3>2. CASE i = Last
        BY <1>2, <3>1, <3>2
      <3>3. CASE i # Last
        <4>1. Last \in (i + 1)..Last
          BY <1>2, <3>3
        <4> QED BY <1>1, <1>2, <3>1, <4>1 DEF CloseInv, ClosedFromTheTop, Closed
      <3> QED BY <3>2, <3>3
    <2>7. CountInv'
      BY <1>1, <1>2, <2>1, <2>2, <2>6 DEF CountInv
    <2> QED BY <2>3, <2>4, <2>5, <2>7, TypesSplit DEF ChainInv, ChainTypeOK, ScalarsOK, FlagsOK
  <1> QED BY <1>3, <1>4

\* A filter that is closed, or has nothing to send: DoClose goes on, the chain stays.
LEMMA SkipStep ==
  ASSUME ChainInv, pc = "close",
         UNCHANGED <<link, arrived, hellos, byes, unread, nospace, sent, lost, edge, reg, notes, chain,
                     goal, addAllowed, shouldClose, eofCalled, promised, pendingWrites, queued, calls>>,
         \/ Closed(chain[at]) /\ Below
         \/ pc' = "shut" /\ at' = at /\ (chain[at].out = 0 \/ chain[at].writeClosed)
         \/ pc' = "finalize" /\ at' = at
  PROVE  ChainInv'
  <1>1. ChainTypeOK /\ ScalarsOK /\ FlagsOK /\ ConnectInv /\ OpenInv /\ CloseInv /\ CountInv
    BY TypesSplit DEF ChainInv
  <1>2. Last \in Nat \ {0} /\ at \in 1..Last /\ at \in Nat
    BY <1>1, BackFilter DEF ScalarsOK
  <1>3. Last' = Last /\ back' = back
    BY DEF Last, back
  <1>4. /\ pc' \in {"close", "shut", "finalize"} /\ at' \in 1..Last
        /\ pc' = "close" => at' = at - 1 /\ Closed(chain[at])
        /\ pc' = "shut" => at' = at /\ (chain[at].out = 0 \/ chain[at].writeClosed)
    BY <1>2 DEF Below
  <1>5. ScalarsOK' /\ FlagsOK'
    <2>1. ScalarsOK'
      BY <1>1, <1>3, <1>4 DEF ScalarsOK, Steps
    <2>2. FlagsOK'
      BY <1>1 DEF FlagsOK
    <2> QED BY <2>1, <2>2
  <1>6. ConnectInv' /\ OpenInv'
    BY <1>1, <1>3, <1>4 DEF ConnectInv, NothingBypasses, NoData, OpenInv
  <1>7. CloseInv'
    <2>1. ClosedFromTheTop' <=> ClosedFromTheTop
      BY <1>3 DEF ClosedFromTheTop
    <2>2. AllClosed' <=> AllClosed
      BY <1>3 DEF AllClosed
    <2>3. ASSUME pc' \in {"close", "shut"}, NEW j \in (at' + 1)..Last
          PROVE  Closed(chain[j])
      <3>1. (j = at /\ pc' = "close") \/ j \in (at + 1)..Last
        BY <1>2, <1>4, <2>3
      <3> QED BY <1>1, <1>4, <3>1 DEF CloseInv
    <2> QED BY <1>1, <1>3, <1>4, <2>1, <2>2, <2>3 DEF CloseInv
  <1>8. CountInv'
    BY <1>1, <1>3, <1>4 DEF CountInv
  <1> QED BY <1>5, <1>6, <1>7, <1>8, TypesSplit DEF ChainInv, ChainTypeOK, ScalarsOK, FlagsOK

\* Filter::Close of the last filter, with something to send.
LEMMA FlushStep ==
  ASSUME ChainInv, FilterClose, at = Last, ~back.writeClosed, back.out # 0
  PROVE  ChainInv'
  <1> USE DEF peerVars, eventVars, flagVars, writeVars
  <1>1. ChainTypeOK /\ ScalarsOK /\ FlagsOK /\ ConnectInv /\ OpenInv /\ CloseInv /\ CountInv
    BY TypesSplit DEF ChainInv
  <1>2. /\ Last \in Nat \ {0} /\ Last \in 1..Last /\ chain[Last] = back /\ back.out \in Nat
        /\ queued \in Nat /\ promised \in Nat /\ sent \in Nat /\ pendingWrites \in Nat
    BY <1>1, BackFilter, ChainAssumption DEF ScalarsOK, back
  <1>3. /\ pc = "close" /\ ~Closed(chain[at]) /\ Out(Last, back.out)
        /\ pc' = IF chain'[at].out = 0 \/ chain'[at].writeClosed THEN "shut" ELSE "finalize"
        /\ UNCHANGED <<at, link, arrived, hellos, byes, edge, reg, notes, goal, addAllowed, shouldClose,
                       eofCalled, promised, pendingWrites, queued, calls>>
    BY <1>2 DEF FilterClose, Closed
  <1>4. shouldClose /\ pc' \in {"shut", "finalize"} /\ pc' \in Steps
    BY <1>1, <1>3 DEF CloseInv, Steps
  <1>5. back.out + (pendingWrites - pendingWrites') = back.out
    BY <1>2, <1>3
  <1>6. /\ ScalarsOK' /\ FlagsOK' /\ Last' = Last
        /\ \A j \in 1..(Last - 1) : chain'[j] = chain[j]
        /\ chain'[Last] = back' /\ back'.connected = back.connected
        /\ back'.readClosed = back.readClosed /\ back'.byeSent = back.byeSent
        /\ sent' + back'.out + pendingWrites' <= queued
        /\ ~lost' => ~lost /\ ~back'.writeClosed /\ sent' + back'.out + pendingWrites' = queued
    <2>1. Out(Last, back.out + (pendingWrites - pendingWrites'))
      BY <1>3, <1>5
    <2> QED BY <1>2, <1>3, <1>4, <2>1, BackOut
  <1>7. ConnectInv'
    <2>1. NothingBypasses'
      BY <1>1, <1>3, <1>4, <1>6 DEF ConnectInv, NothingBypasses
    <2> QED BY <1>1, <1>3, <1>4, <1>6, <2>1 DEF ConnectInv
  <1>8. OpenInv'
    BY <1>3, <1>4 DEF OpenInv
  <1>9. CloseInv'
    <2>1. ClosedFromTheTop'
      <3> SUFFICES ASSUME NEW i \in 1..Last, NEW j \in (i + 1)..Last,
                          chain'[i].byeSent \/ chain'[i].readClosed \/ chain'[i].writeClosed
                   PROVE  Closed(chain'[j])
        BY <1>6 DEF ClosedFromTheTop
      <3>1. i \in 1..(Last - 1) /\ Last \in (i + 1)..Last
        BY <1>2
      <3>2. chain[i].byeSent \/ chain[i].readClosed \/ chain[i].writeClosed
        BY <1>6, <3>1
      <3>3. Closed(chain[Last])
        BY <1>1, <3>1, <3>2 DEF CloseInv, ClosedFromTheTop
      <3> QED BY <1>2, <3>3 DEF Closed
    <2>2. ~eofCalled
      BY <1>1, <1>2 DEF CloseInv, AllClosed, Closed
    <2>3. \A j \in (at' + 1)..Last' : Closed(chain'[j])
      BY <1>2, <1>3, <1>6
    <2> QED BY <1>1, <1>3, <1>4, <1>6, <2>1, <2>2, <2>3 DEF CloseInv
  <1>10. CountInv'
    BY <1>1, <1>2, <1>3, <1>4, <1>6 DEF CountInv
  <1> QED BY <1>6, <1>7, <1>8, <1>9, <1>10, TypesSplit DEF ChainInv, ChainTypeOK, ScalarsOK, FlagsOK

LEMMA FilterCloseStep ==
  ASSUME ChainInv, FilterClose
  PROVE  ChainInv'
  <1> USE DEF peerVars, sendVars, eventVars, flagVars, writeVars
  <1>1. ChainTypeOK /\ ScalarsOK /\ ConnectInv /\ CloseInv
    BY TypesSplit DEF ChainInv
  <1>2. Last \in Nat \ {0} /\ at \in 1..Last /\ chain[Last] = back
    BY <1>1, BackFilter DEF ScalarsOK, back
  <1>3. at # Last => chain[at].out = 0
    BY <1>1, <1>2 DEF ConnectInv, NothingBypasses
  <1>4. /\ pc = "close"
        /\ UNCHANGED <<link, arrived, hellos, byes, edge, reg, notes, goal, addAllowed, shouldClose,
                       eofCalled, promised, pendingWrites, queued, calls>>
    BY DEF FilterClose
  <1>5. CASE Closed(chain[at])
    <2>1. Below /\ UNCHANGED <<chain, unread, nospace, sent, lost>>
      BY <1>5 DEF FilterClose
    <2> QED BY <1>4, <1>5, <2>1, SkipStep
  <1>6. CASE ~Closed(chain[at]) /\ (chain[at].writeClosed \/ chain[at].out = 0)
    <2>1. UNCHANGED <<chain, unread, nospace, sent, lost, at>>
      BY <1>6 DEF FilterClose, Out
    <2>2. pc' = "shut"
      BY <1>6, <2>1 DEF FilterClose
    <2> QED BY <1>4, <1>6, <2>1, <2>2, SkipStep
  <1>7. CASE ~Closed(chain[at]) /\ ~(chain[at].writeClosed \/ chain[at].out = 0)
    BY <1>2, <1>3, <1>7, FlushStep
  <1> QED BY <1>5, <1>6, <1>7

\* Shutdown of the filter that DoClose has come to.
LEMMA CloseFilterStep ==
  ASSUME ChainInv, CloseFilter
  PROVE  ChainInv'
  <1> USE DEF eventVars, flagVars, writeVars
  <1>1. ChainTypeOK /\ ScalarsOK /\ FlagsOK /\ ConnectInv /\ OpenInv /\ CloseInv /\ CountInv
    BY TypesSplit DEF ChainInv
  <1>2. /\ Last \in Nat \ {0} /\ Last \in 1..Last /\ chain[Last] = back /\ back.out \in Nat
        /\ at \in 1..Last /\ at \in Nat
        /\ queued \in Nat /\ promised \in Nat /\ sent \in Nat /\ pendingWrites \in Nat
    BY <1>1, BackFilter, ChainAssumption DEF ScalarsOK, back
  <1>3. PICK complete \in BOOLEAN :
          /\ Shutdown(at, complete)
          /\ IF complete THEN Below ELSE pc' = "finalize" /\ UNCHANGED at
    BY DEF CloseFilter
  <1>4. /\ pc = "shut"
        /\ UNCHANGED <<link, hellos, byes, sent, lost, edge, reg, notes, goal, addAllowed, shouldClose,
                       eofCalled, promised, pendingWrites, queued, calls>>
    BY DEF CloseFilter
  <1>5. /\ chain' \in Seq(Filter) /\ Last' = Last
        /\ \A j \in 1..Last : j # at => chain'[j] = chain[j]
        /\ chain'[at].connected = chain[at].connected /\ chain'[at].out = chain[at].out
        /\ complete => Closed(chain'[at])
        /\ ~complete => chain'[at].readClosed = chain[at].readClosed
                     /\ chain'[at].writeClosed = chain[at].writeClosed
        /\ unread' \in 0..SndRoom /\ nospace' \in BOOLEAN /\ arrived' \in 0..MaxRcv
    BY <1>1, <1>2, <1>3, ShutdownEffect
  <1>6. /\ shouldClose /\ (chain[at].out = 0 \/ chain[at].writeClosed)
        /\ \A j \in (at + 1)..Last : Closed(chain[j])
    BY <1>1, <1>4 DEF CloseInv
  <1>7. /\ pc' \in {"close", "finalize"} /\ at' \in 1..Last
        /\ pc' = "close" => at' = at - 1 /\ complete
    BY <1>2, <1>3 DEF Below
  <1>8. /\ back' = chain'[Last] /\ back'.connected = back.connected /\ back'.out = back.out
        /\ back.readClosed => back'.readClosed
        /\ back.writeClosed => back'.writeClosed
    BY <1>2, <1>5 DEF back, Closed
  <1>9. ScalarsOK' /\ FlagsOK'
    <2>1. ScalarsOK'
      BY <1>1, <1>4, <1>5, <1>7 DEF ScalarsOK, Steps
    <2>2. FlagsOK'
      BY <1>1, <1>4, <1>5 DEF FlagsOK
    <2> QED BY <2>1, <2>2
  <1>10. ConnectInv'
    <2>1. \A j \in 1..(Last - 1) : chain'[j].connected /\ chain'[j].out = 0
      <3> TAKE j \in 1..(Last - 1)
      <3>1. j \in 1..Last
        BY <1>2
      <3>2. chain[j].connected /\ chain[j].out = 0
        BY <1>1 DEF ConnectInv, NothingBypasses
      <3> QED BY <1>5, <3>1, <3>2
    <2>2. NothingBypasses'
      BY <1>4, <1>5, <1>6, <2>1 DEF NothingBypasses
    <2> QED BY <1>1, <1>4, <1>5, <1>6, <1>7, <1>8, <2>2 DEF ConnectInv
  <1>11. OpenInv'
    BY <1>4, <1>6, <1>7 DEF OpenInv
  <1>12. ASSUME NEW j \in 1..Last, Closed(chain[j])
         PROVE  Closed(chain'[j])
    BY <1>5, <1>12 DEF Closed
  <1>13. CloseInv'
    <2>1. ClosedFromTheTop'
      <3> SUFFICES ASSUME NEW i \in 1..Last, NEW j \in (i + 1)..Last,
                          chain'[i].byeSent \/ chain'[i].readClosed \/ chain'[i].writeClosed
                   PROVE  Closed(chain'[j])
        BY <1>5 DEF ClosedFromTheTop
      <3>1. j \in 1..Last
        BY <1>2
      <3>2. CASE i = at
        BY <1>6, <1>12, <3>1, <3>2
      <3>3. CASE i # at
        <4>1. Closed(chain[j])
          BY <1>1, <1>5, <3>3 DEF CloseInv, ClosedFromTheTop
        <4> QED BY <1>12, <3>1, <4>1
      <3> QED BY <3>2, <3>3
    <2>2. AllClosed => AllClosed'
      BY <1>5, <1>12 DEF AllClosed
    <2>3. ASSUME pc' = "close", NEW j \in (at' + 1)..Last
          PROVE  Closed(chain'[j])
      <3>1. j \in 1..Last /\ (j = at \/ j \in (at + 1)..Last)
        BY <1>2, <1>7, <2>3
      <3> QED BY <1>5, <1>6, <1>7, <1>12, <2>3, <3>1
    <2> QED BY <1>1, <1>4, <1>5, <1>6, <1>7, <2>1, <2>2, <2>3 DEF CloseInv
  <1>14. CountInv'
    <2>1. ASSUME ~lost, back'.writeClosed PROVE promised <= sent
      <3>1. CASE back.writeClosed
        BY <1>1, <2>1, <3>1 DEF CountInv
      <3>2. CASE ~back.writeClosed
        <4>1. at = Last
          BY <1>2, <1>5, <1>8, <2>1, <3>2
        <4>2. back.out = 0
          BY <1>2, <1>6, <3>2, <4>1
        <4>3. /\ promised + pendingWrites <= queued
              /\ sent + back.out + pendingWrites = queued
          BY <1>1, <1>4, <2>1, <3>2 DEF CountInv
        <4> QED BY <1>2, <4>2, <4>3
      <3> QED BY <3>1, <3>2
    <2>2. ASSUME ~lost, ~back'.writeClosed PROVE promised + pendingWrites <= queued
      BY <1>1, <1>4, <1>8, <2>2 DEF CountInv
    <2> QED BY <1>1, <1>4, <1>6, <1>8, <2>1, <2>2 DEF CountInv
  <1> QED BY <1>9, <1>10, <1>11, <1>13, <1>14, TypesSplit DEF ChainInv, ChainTypeOK, ScalarsOK, FlagsOK

LEMMA InvStep == ChainInv /\ [ChainNext]_chainVars => ChainInv'
  <1>1. ASSUME ChainInv, ChainNext PROVE ChainInv'
    <2>1. CASE pc = "write" /\ DoWrite("finalize") /\ UNCHANGED at
      BY <1>1, <2>1, WriteStep
    <2> QED BY <1>1, <2>1, QuietStep, ConnectStep, AddStep, ReadStep, DoCloseStep, FilterCloseStep,
               CloseFilterStep DEF ChainNext, HandleStep
  <1>2. ASSUME ChainInv, UNCHANGED chainVars PROVE ChainInv'
    <2> USE <1>2 DEF chainVars, peerVars, sendVars, eventVars, flagVars, writeVars, ctlVars
    <2>1. Last' = Last /\ back' = back
      BY DEF Last, back
    <2>2. ScalarsOK' /\ FlagsOK'
      <3>1. ScalarsOK'
        BY <2>1, TypesSplit DEF ChainInv, ScalarsOK
      <3>2. FlagsOK'
        BY TypesSplit DEF ChainInv, FlagsOK
      <3> QED BY <3>1, <3>2
    <2>3. ConnectInv' /\ OpenInv' /\ CountInv'
      BY <2>1 DEF ChainInv, ConnectInv, NothingBypasses, NoData, OpenInv, CountInv
    <2>4. CloseInv'
      BY <2>1 DEF ChainInv, CloseInv, ClosedFromTheTop, AllClosed
    <2> QED BY <2>2, <2>3, <2>4, TypesSplit DEF ChainInv, ChainTypeOK, ScalarsOK, FlagsOK
  <1> QED BY <1>1, <1>2

-----------------------------------------------------------------------------
(* StreamPromise.                                                          *)

\* Out sends, loses the connection, or does nothing; in no case after HandleEOF.
LEMMA OutPromise ==
  ASSUME ChainInv, ChainInv', ~eofCalled, NEW i \in 1..Last, NEW n \in 0..MaxWrites, Out(i, n),
         sent + n <= MaxWrites, n = 0 => chain[i].out = 0,
         UNCHANGED <<calls, shouldClose, queued, promised>>
  PROVE  [Promise!Next]_(Promise!promiseVars)
  <1> USE DEF Promise!promiseVars
  <1>1. ChainTypeOK /\ ScalarsOK /\ ScalarsOK' /\ CloseInv /\ CountInv'
    BY TypesSplit DEF ChainInv, ChainTypeOK, ScalarsOK, FlagsOK
  <1>2. calls.eof = 0
    BY <1>1 DEF CloseInv
  <1>3. /\ sent' >= sent
        /\ (lost' = TRUE /\ sent' = sent) \/ lost' = lost
    BY <1>1, OutEffect
  <1>4. sent' <= queued
    <2>1. back'.out \in Nat
      <3>1. chain' \in Seq(Filter) /\ Len(chain') \in 1..Len(chain')
        BY <1>1, ChainAssumption DEF ScalarsOK, Last
      <3>2. chain'[Len(chain')] \in Filter
        BY <3>1
      <3>3. back' = chain'[Len(chain')]
        BY DEF back, Last
      <3> QED BY <3>2, <3>3, ChainAssumption DEF Filter
    <2>2. sent' + back'.out + pendingWrites' <= queued' /\ sent' \in Nat /\ pendingWrites' \in Nat /\ queued' \in Nat
      BY <1>1 DEF CountInv, ScalarsOK
    <2> QED BY <2>1, <2>2
  <1>5. sent \in Nat /\ sent' \in Nat
    BY <1>1 DEF ScalarsOK
  <1>6. CASE lost' = lost /\ sent' = sent
    BY <1>6
  <1>7. CASE lost' = lost /\ sent' # sent
    <2>1. Promise!Send
      BY <1>2, <1>3, <1>4, <1>5, <1>7 DEF Promise!Send
    <2> QED BY <2>1 DEF Promise!Next
  <1>8. CASE lost' = TRUE /\ sent' = sent
    <2>1. Promise!Lose
      BY <1>2, <1>8 DEF Promise!Lose
    <2> QED BY <2>1 DEF Promise!Next
  <1> QED BY <1>3, <1>6, <1>7, <1>8

LEMMA PromiseStep ==
  ASSUME ChainInv, ChainInv', ChainNext
  PROVE  [Promise!Next]_(Promise!promiseVars)
  <1> USE DEF Promise!promiseVars, peerVars, sendVars, eventVars, flagVars, writeVars, ctlVars
  <1>1. ChainTypeOK /\ ScalarsOK /\ FlagsOK /\ ConnectInv /\ OpenInv /\ CloseInv /\ CountInv
    BY TypesSplit DEF ChainInv
  <1>2. /\ Last \in Nat \ {0} /\ Last \in 1..Last /\ chain[Last] = back /\ back.out \in 0..MaxWrites
        /\ calls \in [connected : Nat, data : Nat, eof : Nat]
        /\ queued \in 0..MaxWrites /\ sent \in 0..MaxWrites /\ pendingWrites \in 0..MaxWrites
        /\ promised \in Nat /\ MaxWrites \in Nat /\ goal \in 1..MaxFilters /\ Last \in 1..goal
        /\ MaxFilters \in Nat
    BY <1>1, BackFilter, ChainAssumption DEF ScalarsOK, back
  <1>3. ASSUME UNCHANGED <<calls, shouldClose, queued, promised, sent, lost>>
        PROVE  [Promise!Next]_(Promise!promiseVars)
    BY <1>3
  <1>4. ASSUME ~shouldClose, SetShouldClose, UNCHANGED <<calls, queued, sent, lost>>
        PROVE  [Promise!Next]_(Promise!promiseVars)
    <2>1. Promise!End
      BY <1>4 DEF SetShouldClose, Promise!End
    <2> QED BY <2>1 DEF Promise!Next
  <1>5. CASE PeerNext
    BY <1>3, <1>5 DEF PeerNext, PeerHello, PeerBye, PeerSend, PeerRead, PeerEnd, PeerStep
  <1>6. CASE Write
    <2>1. Promise!Queue
      BY <1>2, <1>6 DEF Write, Promise!Queue
    <2> QED BY <2>1 DEF Promise!Next
  <1>7. CASE Close
    BY <1>4, <1>7 DEF Close
  <1>8. CASE LoopNext
    BY <1>3, <1>8 DEF LoopNext, Report, Notify, Unregister
  <1>9. CASE HandleStep
    <2>1. CASE EnterHandleEvents \/ AddStreamBufferFilter \/ ReturnConnected \/ ModifyEvent \/ AfterEOF
               \/ CloseFilter
      BY <1>3, <2>1 DEF EnterHandleEvents, AddStreamBufferFilter, ReturnConnected, ModifyEvent,
         AfterEOF, CloseFilter
    <2>2. CASE DoConnect
      <3>1. /\ ~back.connected /\ calls.connected = Last - 1 /\ calls.data = 0
            /\ calls.eof = 0
        BY <1>1, <1>2, <2>2 DEF DoConnect, ConnectInv, NoData, OpenInv, CloseInv, AllClosed, Closed, Untouched
      <3>2. UNCHANGED <<shouldClose, queued, promised, sent>>
        BY <2>2 DEF DoConnect
      <3>3. calls.connected < MaxFilters
        BY <1>2, <3>1
      <3>4. CASE calls' = [calls EXCEPT !.connected = @ + 1] /\ UNCHANGED lost
        <4>1. Promise!HandleConnected
          BY <3>1, <3>2, <3>3, <3>4 DEF Promise!HandleConnected, Promise!Call
        <4> QED BY <4>1 DEF Promise!Next
      <3>5. CASE UNCHANGED <<calls, lost>>
        BY <1>3, <3>2, <3>5
      <3>6. CASE UNCHANGED calls /\ lost' = TRUE
        <4>1. Promise!Lose
          BY <3>1, <3>2, <3>6 DEF Promise!Lose
        <4> QED BY <4>1 DEF Promise!Next
      <3> QED BY <2>2, <3>4, <3>5, <3>6 DEF DoConnect
    <2>3. CASE DoRead
      <3>1. UNCHANGED <<shouldClose, queued, promised, sent, lost>> /\ back.connected
        BY <1>1, <2>3 DEF DoRead, ConnectInv
      <3>2. CASE UNCHANGED calls
        BY <1>3, <3>1, <3>2
      <3>3. CASE calls' = [calls EXCEPT !.data = @ + 1] /\ ~back.readClosed
        <4>1. calls.connected > 0
          BY <1>1, <1>2, <3>1 DEF ConnectInv
        <4>2. calls.eof = 0
          BY <1>1, <1>2, <3>3 DEF CloseInv, AllClosed, Closed
        <4>3. Promise!HandleData
          BY <3>1, <3>3, <4>1, <4>2 DEF Promise!HandleData, Promise!Call
        <4> QED BY <4>3 DEF Promise!Next
      <3> QED BY <2>3, <3>2, <3>3 DEF DoRead
    <2>4. ASSUME NEW next, DoWrite(next)
          PROVE  [Promise!Next]_(Promise!promiseVars)
      <3>1. UNCHANGED <<calls, shouldClose, queued, promised>>
        BY <2>4 DEF DoWrite
      <3>2. CASE back.writeClosed \/ pendingWrites = 0
        BY <1>3, <2>4, <3>1, <3>2 DEF DoWrite
      <3>3. CASE ~(back.writeClosed \/ pendingWrites = 0)
        <4> DEFINE n == back.out + pendingWrites
        <4>1. Out(Last, n)
          BY <2>4, <3>3 DEF DoWrite
        <4>2. n \in 0..MaxWrites /\ sent + n <= MaxWrites /\ n # 0
          BY <1>1, <1>2, <3>3 DEF CountInv
        <4>3. ~eofCalled
          BY <1>1, <1>2, <3>3 DEF CloseInv, AllClosed, Closed
        <4> HIDE DEF n
        <4> QED BY <1>2, <3>1, <4>1, <4>2, <4>3, OutPromise
      <3> QED BY <3>2, <3>3
    <2>5. CASE DoClose
      BY <1>3, <2>4, <2>5 DEF DoClose
    <2>6. CASE FilterClose
      <3>1. UNCHANGED <<calls, shouldClose, queued, promised>>
        BY <2>6 DEF FilterClose
      <3>2. CASE Closed(chain[at]) \/ chain[at].writeClosed
        BY <1>3, <2>6, <3>1, <3>2 DEF FilterClose
      <3>3. CASE ~(Closed(chain[at]) \/ chain[at].writeClosed)
        <4> DEFINE n == chain[at].out
        <4>1. at \in 1..Last /\ Out(at, n)
          BY <1>1, <2>6, <3>3 DEF FilterClose, ScalarsOK
        <4>2. n \in 0..MaxWrites /\ sent + n <= MaxWrites
          <5>1. CASE at = Last
            BY <1>1, <1>2, <5>1 DEF CountInv
          <5>2. CASE at # Last
            BY <1>1, <1>2, <4>1, <5>2 DEF ConnectInv, NothingBypasses
          <5> QED BY <5>1, <5>2
        <4>3. ~eofCalled
          BY <1>1, <3>3, <4>1 DEF CloseInv, AllClosed
        <4>4. n = 0 => chain[at].out = 0
          OBVIOUS
        <4> HIDE DEF n
        <4> QED BY <3>1, <4>1, <4>2, <4>3, <4>4, OutPromise
      <3> QED BY <3>2, <3>3
    <2>7. CASE DoFinalize
      <3>1. CASE ~shouldClose /\ back.readClosed
        BY <1>4, <2>7, <3>1 DEF DoFinalize
      <3>2. CASE ~(~shouldClose /\ back.readClosed) /\ AllClosed /\ ~eofCalled
        <4>1. Closed(back)
          BY <1>2, <3>2 DEF AllClosed
        <4>2. shouldClose /\ calls.eof = 0 /\ (lost \/ promised <= sent)
          BY <1>1, <3>2, <4>1 DEF CloseInv, CountInv, Closed
        <4>3. /\ calls' = [calls EXCEPT !.eof = @ + 1]
              /\ UNCHANGED <<shouldClose, queued, promised, sent, lost>>
          BY <2>7, <3>2 DEF DoFinalize
        <4>4. lost \/ sent >= promised
          BY <1>2, <4>2
        <4>5. Promise!HandleEOF
          BY <4>2, <4>3, <4>4 DEF Promise!HandleEOF, Promise!Call
        <4> QED BY <4>5 DEF Promise!Next
      <3>3. CASE ~(~shouldClose /\ back.readClosed) /\ ~(AllClosed /\ ~eofCalled)
        BY <1>3, <2>7, <3>3 DEF DoFinalize
      <3> QED BY <3>1, <3>2, <3>3
    <2> QED BY <1>9, <2>1, <2>2, <2>3, <2>4, <2>5, <2>6, <2>7 DEF HandleStep
  <1> QED BY <1>5, <1>6, <1>7, <1>8, <1>9 DEF ChainNext

-----------------------------------------------------------------------------
(* The theorems.                                                           *)

\* The invariant on which the others rest: what the filters, the place in HandleEvents
\* and the calls of the handler say together (stream_buffer.cc:78-246).
THEOREM ChainInvariant == ChainSpec => []ChainInv
  <1> QED BY ChainInitial, InvStep, PTL DEF ChainSpec

\* Types; no filter holds more than was written, and a farewell always fits.
THEOREM ChainTypeCorrect == ChainSpec => []ChainTypeOK
  <1>1. ChainInv => ChainTypeOK
    BY DEF ChainInv
  <1> QED BY ChainInvariant, <1>1, PTL

\* AddStreamBufferFilter, allowed in HandleConnected only, and the look at the last filter
\* in DoWrite and DoRead keep data from passing a filter (stream_buffer.cc:56-76, 131-166).
THEOREM ChainNothingBypasses == ChainSpec => []NothingBypasses
  <1>1. ChainInv => NothingBypasses
    BY DEF ChainInv, ConnectInv
  <1> QED BY ChainInvariant, <1>1, PTL

\* DoClose stops at the first filter whose Close is delayed: the filters under it stay open
\* for its farewell, whatever ends the stream (stream_buffer.cc:184-196).
THEOREM ChainClosedFromTheTop == ChainSpec => []ClosedFromTheTop
  <1>1. ChainInv => ClosedFromTheTop
    BY DEF ChainInv, CloseInv
  <1> QED BY ChainInvariant, <1>1, PTL

\* The chain implements StreamPromise, however many filters it has: HandleConnected once
\* for each, HandleEOF once, last, and not before what was promised is sent or lost.
THEOREM ChainKeepsPromise == ChainSpec => KeepsPromise
  <1>1. ChainInit => Promise!Init
    BY DEF ChainInit, Promise!Init
  <1>2. ChainInv /\ ChainInv' /\ [ChainNext]_chainVars => [Promise!Next]_(Promise!promiseVars)
    <2>1. ASSUME UNCHANGED chainVars PROVE UNCHANGED Promise!promiseVars
      BY <2>1 DEF chainVars, sendVars, flagVars, writeVars, Promise!promiseVars
    <2> QED BY <2>1, PromiseStep
  <1> QED BY ChainInvariant, <1>1, <1>2, PTL DEF ChainSpec, KeepsPromise, Promise!Spec
=============================================================================
