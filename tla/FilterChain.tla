----------------------------- MODULE FilterChain -----------------------------
(***************************************************************************)
(* A StreamBuffer with several filters (lib/stream_buffer.cc): the TCP     *)
(* filter at the bottom and filters above it that the StreamBufferHandler  *)
(* adds, one in each HandleConnected.                                      *)
(*                                                                         *)
(* The repository has no filter but TCP; the ones above are modelled after *)
(* DummyStreamBufferFilter of tests/tcp_test.cc and the result classes of  *)
(* include/stream_buffer.h: such a filter is connected when the peer has   *)
(* greeted it, and Shutdown sends a farewell and waits for the peer's.     *)
(* Module StreamBuffer has the races of Write and Close, the loss of the   *)
(* handler and the connect of the socket; here a call of the filter is one *)
(* step.  As there, data is counted in chunks.                             *)
(***************************************************************************)
EXTENDS Naturals, Sequences

CONSTANTS
  MaxFilters, \* bound: filters of the stream
  MaxWrites,  \* bound: chunks the user writes
  SndRoom,    \* chunks the kernel takes before send() says EAGAIN
  MaxRcv      \* bound: chunks the peer sends

ASSUME ChainAssumption ==
  /\ MaxFilters \in Nat \ {0} /\ SndRoom \in Nat \ {0}
  /\ MaxWrites \in Nat /\ MaxRcv \in Nat

VARIABLES
  \* the socket, and the peer with its own filters
  link,     \* "up", "fin", "reset"
  arrived,  \* chunks that wait for recv()
  hellos,   \* filters that the peer has greeted
  byes,     \* filters that the peer has said farewell to
  unread,   \* chunks and farewells in the send buffer
  nospace,  \* send() ran out of room since the last edge for writing
  edge,     \* epoll has something to report
  \* the Event
  reg,      \* "registered", "closing", "closed"
  notes,    \* ReadyEvents that are queued
  \* StreamBuffer
  chain,    \* stream_filters_, the TCP filter first
  goal,     \* filters that the handler wants
  pendingWrites, addAllowed, shouldClose, eofCalled,
  \* control
  pc,       \* where the loop thread stands in HandleEvents
  at,       \* the filter that DoClose has come to
  \* history, as in module StreamPromise
  calls, queued, promised, sent, lost

peerVars  == <<link, arrived, hellos, byes>>
sendVars  == <<unread, nospace, sent, lost>>
eventVars == <<reg, notes>>
flagVars  == <<goal, addAllowed, shouldClose, eofCalled, promised>>
writeVars == <<pendingWrites, queued>>
ctlVars   == <<pc, at>>
chainVars == <<peerVars, sendVars, edge, eventVars, chain, flagVars, writeVars, ctlVars, calls>>

Uppers == 2..MaxFilters
Filter == [connected : BOOLEAN, readClosed : BOOLEAN, writeClosed : BOOLEAN, out : 0..MaxWrites,
           byeSent : BOOLEAN, byeIn : BOOLEAN]
Steps  == {"idle", "enter", "connect", "callback", "modify", "read", "write", "flush", "close",
           "shut", "finalize", "eof"}

\* A filter as its constructor leaves it.
NewFilter == [connected |-> FALSE, readClosed |-> FALSE, writeClosed |-> FALSE, out |-> 0,
              byeSent |-> FALSE, byeIn |-> FALSE]

\* stream_filters_.back()
Last == Len(chain)
back == chain[Last]

Closed(f) == f.readClosed /\ f.writeClosed

\* Types of the chain.
ChainTypeOK ==
  /\ link \in {"up", "fin", "reset"} /\ arrived \in 0..MaxRcv
  /\ hellos \subseteq Uppers /\ byes \subseteq hellos
  /\ unread \in 0..SndRoom
  /\ nospace \in BOOLEAN /\ edge \in BOOLEAN /\ lost \in BOOLEAN
  /\ addAllowed \in BOOLEAN /\ shouldClose \in BOOLEAN /\ eofCalled \in BOOLEAN
  /\ reg \in {"registered", "closing", "closed"} /\ notes \in Nat
  /\ chain \in Seq(Filter) /\ goal \in 1..MaxFilters /\ Last \in 1..goal
  /\ pendingWrites \in 0..MaxWrites /\ queued \in 0..MaxWrites
  /\ promised \in 0..MaxWrites /\ sent \in 0..MaxWrites
  /\ pc \in Steps /\ at \in 1..Last
  /\ calls \in [connected : Nat, data : Nat, eof : Nat]

\* Create has added the TCP filter, and the Event is registered.
ChainInit ==
  /\ link = "up" /\ arrived = 0 /\ hellos = {} /\ byes = {}
  /\ unread = 0 /\ nospace = FALSE /\ edge = TRUE
  /\ reg = "registered" /\ notes = 0
  /\ chain = <<NewFilter>> /\ goal \in 1..MaxFilters
  /\ pendingWrites = 0 /\ addAllowed = FALSE /\ shouldClose = FALSE /\ eofCalled = FALSE
  /\ pc = "idle" /\ at = 1
  /\ calls = [connected |-> 0, data |-> 0, eof |-> 0]
  /\ queued = 0 /\ promised = 0 /\ sent = 0 /\ lost = FALSE

-----------------------------------------------------------------------------
(* The peer, which has the same filters.                                   *)

Room == SndRoom - unread

PeerStep ==
  /\ edge' = (edge \/ reg # "closed")
  /\ UNCHANGED <<sendVars, eventVars, chain, flagVars, writeVars, ctlVars, calls>>

\* Its filters are connected from the bottom up.
PeerHello(i) ==
  /\ link = "up" /\ byes = {} /\ i <= goal /\ i \notin hellos /\ 2..(i - 1) \subseteq hellos
  /\ hellos' = hellos \cup {i}
  /\ PeerStep
  /\ UNCHANGED <<link, arrived, byes>>

PeerSend ==
  /\ link = "up" /\ hellos = 2..goal /\ byes = {}
  /\ arrived + calls.data < MaxRcv
  /\ arrived' = arrived + 1
  /\ PeerStep
  /\ UNCHANGED <<link, hellos, byes>>

\* Our filter i has sent its farewell.
Said(i) == i <= Last /\ chain[i].byeSent

\* Its filters are closed from the top down, each when the one above has our farewell;
\* those above a filter of ours that has sent one are over.
PeerBye(i) ==
  /\ link = "up" /\ i \in hellos /\ byes \subseteq (i + 1)..MaxFilters
  /\ Said(i) \/ \A j \in hellos : j > i => j \in byes /\ Said(j)
  /\ byes' = byes \cup {i}
  /\ PeerStep
  /\ UNCHANGED <<link, arrived, hellos>>

\* It closes the socket, in an orderly way or not.
PeerEnd(how) ==
  /\ link = "up"
  /\ link' = how
  /\ PeerStep
  /\ UNCHANGED <<arrived, hellos, byes>>

\* It takes what was sent; there is an edge if send() had run out of room.
PeerRead ==
  /\ link # "reset" /\ unread > 0
  /\ unread' = unread - 1 /\ nospace' = FALSE
  /\ edge' = (edge \/ (nospace /\ reg # "closed"))
  /\ UNCHANGED <<peerVars, sent, lost, eventVars, chain, flagVars, writeVars, ctlVars, calls>>

PeerNext ==
  \/ \E i \in Uppers : PeerHello(i) \/ PeerBye(i)
  \/ PeerSend \/ PeerRead
  \/ \E how \in {"fin", "reset"} : PeerEnd(how)

-----------------------------------------------------------------------------
(* The user and the event loop.                                            *)

Write ==
  /\ ~shouldClose /\ queued < MaxWrites
  /\ pendingWrites' = pendingWrites + 1 /\ queued' = queued + 1
  /\ notes' = IF pendingWrites = 0 THEN notes + 1 ELSE notes
  /\ UNCHANGED <<peerVars, sendVars, edge, reg, chain, flagVars, ctlVars, calls>>

SetShouldClose == shouldClose' = TRUE /\ promised' = queued

Close ==
  /\ ~shouldClose /\ SetShouldClose
  /\ notes' = notes + 1
  /\ UNCHANGED <<peerVars, sendVars, edge, reg, chain, goal, addAllowed, eofCalled, writeVars, ctlVars, calls>>

Report ==
  /\ pc = "idle" /\ edge /\ reg # "closed"
  /\ edge' = FALSE /\ pc' = "enter"
  /\ UNCHANGED <<peerVars, sendVars, eventVars, chain, flagVars, writeVars, at, calls>>

Notify ==
  /\ pc = "idle" /\ notes > 0
  /\ notes' = notes - 1
  /\ pc' = IF reg = "closed" THEN "idle" ELSE "enter"
  /\ UNCHANGED <<peerVars, sendVars, edge, reg, chain, flagVars, writeVars, at, calls>>

Unregister ==
  /\ pc = "idle" /\ reg = "closing"
  /\ reg' = "closed" /\ edge' = FALSE
  /\ UNCHANGED <<peerVars, sendVars, notes, chain, flagVars, writeVars, ctlVars, calls>>

LoopNext == Report \/ Notify \/ Unregister

-----------------------------------------------------------------------------
(* HandleEvents: connecting.                                               *)

\* Mutant: a stream that is not connected connects before it closes.
MutantConnectFirst ==
  /\ pc = "enter"
  /\ pc' = IF ~back.connected THEN "connect" ELSE IF shouldClose THEN "flush" ELSE "read"
  /\ UNCHANGED <<peerVars, sendVars, edge, eventVars, chain, flagVars, writeVars, at, calls>>

EnterHandleEvents ==
  /\ pc = "enter"
  /\ pc' = IF shouldClose THEN "flush" ELSE IF ~back.connected THEN "connect" ELSE "read"
  /\ UNCHANGED <<peerVars, sendVars, edge, eventVars, chain, flagVars, writeVars, at, calls>>

\* DoConnect, of the last filter only.  The TCP filter is connected; one above it waits
\* for the peer's greeting, and fails when the stream under it ends without one.
DoConnect ==
  /\ pc = "connect"
  /\ IF Last = 1 \/ Last \in hellos
       THEN /\ chain' = [chain EXCEPT ![Last].connected = TRUE]
            /\ addAllowed' = TRUE
            /\ calls' = [calls EXCEPT !.connected = @ + 1]
            /\ pc' = "callback"
            /\ UNCHANGED lost
       ELSE /\ pc' = "finalize"
            /\ IF link = "up" /\ byes = {} THEN UNCHANGED <<chain, lost>>
               ELSE /\ chain' = [chain EXCEPT ![Last].readClosed = TRUE, ![Last].writeClosed = TRUE]
                    /\ lost' = TRUE
            /\ UNCHANGED <<addAllowed, calls>>
  /\ UNCHANGED <<peerVars, unread, nospace, sent, edge, eventVars, goal, shouldClose, eofCalled, promised, writeVars, at>>

\* AddStreamBufferFilter from a callback, HandleConnected or HandleData; it throws
\* unless add_filter_allowed_.
AddStreamBufferFilter ==
  /\ pc \in {"callback", "read"} /\ addAllowed /\ Last < goal
  /\ chain' = Append(chain, NewFilter)
  /\ addAllowed' = FALSE
  /\ UNCHANGED <<peerVars, sendVars, edge, eventVars, goal, shouldClose, eofCalled, promised, writeVars, ctlVars, calls>>

\* Mutant: a filter may still be added when HandleConnected has returned.
MutantKeepAllowed ==
  /\ pc = "callback"
  /\ pc' = "modify"
  /\ UNCHANGED <<peerVars, sendVars, edge, eventVars, chain, flagVars, writeVars, at, calls>>

\* A handler that wants another filter has added it.
ReturnConnected ==
  /\ pc = "callback" /\ (addAllowed => Last = goal)
  /\ addAllowed' = FALSE
  /\ pc' = "modify"
  /\ UNCHANGED <<peerVars, sendVars, edge, eventVars, chain, goal, shouldClose, eofCalled, promised, writeVars, at, calls>>

\* Mutant: the descriptor is not armed again.
MutantNoModify ==
  /\ pc = "modify"
  /\ pc' = "finalize"
  /\ UNCHANGED <<peerVars, sendVars, edge, eventVars, chain, flagVars, writeVars, at, calls>>

\* EPOLL_CTL_MOD reports what is there already.
ModifyEvent ==
  /\ pc = "modify"
  /\ edge' = (edge \/ Room > 0 \/ arrived > 0 \/ link # "up")
  /\ pc' = "finalize"
  /\ UNCHANGED <<peerVars, sendVars, eventVars, chain, flagVars, writeVars, at, calls>>

-----------------------------------------------------------------------------
(* HandleEvents: data.                                                     *)

\* What In() of filter i finds below it: chunks come before a farewell, and the
\* farewell of a filter before the one of the filter under it.
Waiting(j)  == j \in byes /\ ~chain[j].byeIn
Farewell(i) == arrived = 0 /\ \E j \in 2..i : Waiting(j)
Ended(i)    == \/ \E j \in 2..i : chain[j].byeIn
               \/ arrived = 0 /\ link # "up"

\* In() of filter i takes the next farewell.
TakeFarewell(i) ==
  \E j \in 2..i :
    /\ Waiting(j) /\ \A k \in (j + 1)..i : ~Waiting(k)
    /\ chain' = [chain EXCEPT ![j].byeIn = TRUE]

\* Filter::Read of the last filter, one In() at a time.
DoRead ==
  /\ pc = "read"
  /\ IF back.readClosed THEN pc' = "write" /\ UNCHANGED <<arrived, chain, calls>>
     ELSE \/ /\ Ended(Last)
             /\ chain' = [chain EXCEPT ![Last].readClosed = TRUE]
             /\ pc' = "write"
             /\ UNCHANGED <<arrived, calls>>
          \/ /\ ~Ended(Last) /\ arrived > 0
             /\ arrived' = 0
             /\ calls' = [calls EXCEPT !.data = @ + 1]
             /\ UNCHANGED <<chain, pc>>
          \/ /\ ~Ended(Last) /\ Farewell(Last)
             /\ TakeFarewell(Last)
             /\ UNCHANGED <<arrived, calls, pc>>
          \/ /\ ~Ended(Last) /\ arrived = 0 /\ ~Farewell(Last)
             /\ pc' = "write"
             /\ UNCHANGED <<arrived, chain, calls>>
  /\ UNCHANGED <<link, hellos, byes, sendVars, edge, eventVars, flagVars, writeVars, at>>

\* Out() of the filter's whole pending_out_, which holds n chunks, through the filters
\* under it: each view is sent, or there is no room, or the connection is gone.
Out(i, n) ==
  LET taken == IF n <= Room THEN n ELSE Room IN
  IF n = 0 THEN UNCHANGED <<chain, sendVars>>
  ELSE IF link = "reset"
  THEN /\ chain' = [chain EXCEPT ![i].out = n - 1, ![i].writeClosed = TRUE]
       /\ lost' = TRUE
       /\ UNCHANGED <<unread, nospace, sent>>
  ELSE /\ chain' = [chain EXCEPT ![i].out = n - taken]
       /\ sent' = sent + taken /\ unread' = unread + taken
       /\ nospace' = (nospace \/ taken < n)
       /\ UNCHANGED lost

\* Mutant: the list is not swapped out.
MutantNoSwap(next) ==
  /\ pc' = next
  /\ IF back.writeClosed \/ pendingWrites = 0 THEN UNCHANGED <<chain, sendVars>>
                                             ELSE Out(Last, back.out + pendingWrites)
  /\ UNCHANGED <<peerVars, edge, eventVars, flagVars, pendingWrites, queued, calls>>

\* StreamBuffer::DoWrite, the last filter's Write included.
DoWrite(next) ==
  /\ pc' = next
  /\ IF back.writeClosed \/ pendingWrites = 0
       THEN UNCHANGED <<chain, sendVars, pendingWrites>>
       ELSE pendingWrites' = 0 /\ Out(Last, back.out + pendingWrites)
  /\ UNCHANGED <<peerVars, edge, eventVars, flagVars, queued, calls>>

-----------------------------------------------------------------------------
(* HandleEvents: closing.                                                  *)

\* DoClose: flush unless some filter cannot write any more, then from the last filter
\* to the first.
DoClose ==
  /\ pc = "flush"
  /\ at' = Last
  /\ IF \E i \in 1..Last : chain[i].writeClosed
       THEN /\ pc' = "close"
            /\ UNCHANGED <<peerVars, sendVars, edge, eventVars, chain, flagVars, writeVars, calls>>
       ELSE DoWrite("close")

\* On to the filter below, or out of DoClose.
Below == IF at > 1 THEN pc' = "close" /\ at' = at - 1 ELSE pc' = "finalize" /\ UNCHANGED at

\* Filter::Close: what is pending is sent first; a filter that is closed is skipped.
FilterClose ==
  /\ pc = "close"
  /\ LET f == chain[at] IN
       IF Closed(f) THEN Below /\ UNCHANGED <<chain, sendVars>>
       ELSE /\ IF f.writeClosed THEN UNCHANGED <<chain, sendVars>> ELSE Out(at, f.out)
            /\ pc' = IF chain'[at].out = 0 \/ chain'[at].writeClosed THEN "shut" ELSE "finalize"
            /\ UNCHANGED at
  /\ UNCHANGED <<peerVars, edge, eventVars, flagVars, writeVars, calls>>

\* Shutdown of filter i: the TCP filter's is complete at once.  One above it sends its
\* farewell, unless it did or there is no room, and takes what In() of the filter below
\* has, until it finds the peer's farewell or nothing; data is dropped.  It is complete
\* when it has sent and received a farewell, or the stream under it has ended.
Shutdown(i, complete) ==
  LET f     == chain[i]
      gone  == ~f.byeSent /\ link = "reset"
      says  == i > 1 /\ ~f.byeSent /\ ~gone
      waits == i > 1 /\ ~f.byeIn /\ ~gone
      sends == says /\ Room > 0
      finds == waits /\ i \in byes
      over  == waits /\ ~finds /\ (link # "up" \/ byes \cap 2..(i - 1) # {})
  IN
  /\ complete = (i = 1 \/ gone \/ over \/ ((f.byeSent \/ sends) /\ (f.byeIn \/ finds)))
  /\ unread' = IF sends THEN unread + 1 ELSE unread
  /\ nospace' = (nospace \/ (says /\ ~sends))
  /\ arrived' = IF waits THEN 0 ELSE arrived
  /\ chain' = [chain EXCEPT ![i].byeSent = f.byeSent \/ sends, ![i].byeIn = f.byeIn \/ finds,
                            ![i].readClosed = f.readClosed \/ complete,
                            ![i].writeClosed = f.writeClosed \/ complete]

\* Mutant: a filter whose shutdown is not complete does not keep the ones below it open.
MutantNoBreak ==
  /\ pc = "shut"
  /\ \E complete \in BOOLEAN : Shutdown(at, complete)
  /\ Below
  /\ UNCHANGED <<link, hellos, byes, sent, lost, edge, eventVars, flagVars, writeVars, calls>>

CloseFilter ==
  /\ pc = "shut"
  /\ \E complete \in BOOLEAN :
       /\ Shutdown(at, complete)
       /\ IF complete THEN Below ELSE pc' = "finalize" /\ UNCHANGED at
  /\ UNCHANGED <<link, hellos, byes, sent, lost, edge, eventVars, flagVars, writeVars, calls>>

\* Mutant: HandleEOF as soon as nothing can be read.
MutantEOFEarly == \A i \in 1..Last : chain[i].readClosed

\* IsReadClosed and IsWriteClosed
AllClosed == \A i \in 1..Last : Closed(chain[i])

DoFinalize ==
  /\ pc = "finalize"
  /\ IF ~shouldClose /\ back.readClosed
       THEN SetShouldClose /\ pc' = "flush" /\ UNCHANGED <<eofCalled, calls>>
       ELSE /\ UNCHANGED <<shouldClose, promised>>
            /\ IF AllClosed /\ ~eofCalled
                 THEN /\ eofCalled' = TRUE /\ pc' = "eof"
                      /\ calls' = [calls EXCEPT !.eof = @ + 1]
                 ELSE pc' = "idle" /\ UNCHANGED <<eofCalled, calls>>
  /\ UNCHANGED <<peerVars, sendVars, edge, eventVars, chain, goal, addAllowed, writeVars, at>>

\* CloseEvent
AfterEOF ==
  /\ pc = "eof"
  /\ pc' = "idle"
  /\ reg' = IF reg = "registered" THEN "closing" ELSE reg
  /\ UNCHANGED <<peerVars, sendVars, edge, notes, chain, flagVars, writeVars, at, calls>>

HandleStep ==
  \/ EnterHandleEvents \/ DoConnect \/ AddStreamBufferFilter \/ ReturnConnected \/ ModifyEvent
  \/ DoRead \/ (pc = "write" /\ DoWrite("finalize") /\ UNCHANGED at)
  \/ DoClose \/ FilterClose \/ CloseFilter \/ DoFinalize \/ AfterEOF

ChainNext == HandleStep \/ LoopNext \/ PeerNext \/ Write \/ Close

ChainSpec == ChainInit /\ [][ChainNext]_chainVars

\* The loop thread is scheduled and reports what it has.  The peer greets its filters,
\* answers a farewell, and reads.
FairChainSpec ==
  /\ ChainSpec
  /\ WF_chainVars(HandleStep \/ LoopNext)
  /\ WF_chainVars(PeerRead)
  /\ \A i \in Uppers : WF_chainVars(PeerHello(i))
  /\ \A i \in Uppers : WF_chainVars(Said(i) /\ PeerBye(i))

-----------------------------------------------------------------------------
(* Properties.                                                             *)

\* No filter is bypassed: filters are connected from the first to the last, only the
\* last one has data to send, and data is sent or handed over only when every filter the
\* handler wants is connected, unless the stream is closing (stream_buffer.cc:60, 184).
NothingBypasses ==
  /\ \A i \in 1..(Last - 1) : chain[i].connected /\ chain[i].out = 0
  /\ sent > 0 \/ calls.data > 0 => (Last = goal /\ back.connected) \/ shouldClose

\* A filter sends its farewell, and is closed, only when all the filters above it are
\* closed: their farewells go through it (stream_buffer.cc:184).
ClosedFromTheTop ==
  \A i \in 1..Last : \A j \in (i + 1)..Last :
    chain[i].byeSent \/ chain[i].readClosed \/ chain[i].writeClosed => Closed(chain[j])

\* The chain keeps the promise of a stream.
Promise == INSTANCE StreamPromise WITH Filters <- MaxFilters, ending <- shouldClose
KeepsPromise == Promise!Spec

\* Every filter that the handler adds comes to be connected, however the peer's greetings
\* fall between the steps of DoConnect (stream_buffer.cc:217, 277).
ChainConnects == []<>((Last = goal /\ back.connected) \/ shouldClose)

\* A stream that is to be closed comes to HandleEOF, the farewells of all its filters
\* and the peer's included.
ChainCloses == shouldClose ~> eofCalled
=============================================================================
