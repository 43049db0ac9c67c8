---------------------------- MODULE StreamBuffer ----------------------------
(***************************************************************************)
(* One StreamBuffer with its TCP filter (lib/stream_buffer.cc,             *)
(* lib/tcp_stream_buffer_filter.cc): user threads call Write and Close,    *)
(* the loop thread runs HandleEvents, and the socket lives on its own.     *)
(*                                                                         *)
(* HandleEvents is cut at every system call, lock and callback, because    *)
(* user threads run between them; a Write or a Close from inside a         *)
(* callback is one of those.  Data is counted in chunks, numbered in the   *)
(* order in which Write queued them; a DataView is a sequence of chunks.   *)
(* Of the event loop only what module EventLoop promises is kept: an Event *)
(* is registered some time after Attach, HandleEvents runs when the        *)
(* descriptor had an edge or ReadyEvent was called, and a notification for *)
(* an Event that is not registered is dropped.                             *)
(*                                                                         *)
(* Names that start with Mutant are faulty variants of the definition      *)
(* after them, as in module EPoll.                                         *)
(***************************************************************************)
EXTENDS Naturals, Sequences, FiniteSets

CONSTANTS
  Users,      \* user threads
  Starts,     \* states in which the socket may be handed to the constructor
  ViewSize,   \* chunks in the DataView of one Write
  MaxWrites,  \* bound: calls of Write
  SndRoom,    \* chunks the kernel takes before send() says EAGAIN
  MaxRcv      \* bound: chunks the peer sends

\* "connected" is accept4 or a connect() that succeeded at once; "connecting" is
\* EINPROGRESS; "unreachable" is a connect() that failed at once (handle.cc:150-170).
ASSUME StreamAssumption ==
  /\ Starts \subseteq {"connected", "connecting", "unreachable"}
  /\ ViewSize \in Nat \ {0} /\ SndRoom \in Nat \ {0}
  /\ MaxWrites \in Nat /\ MaxRcv \in Nat

VARIABLES
  \* the socket and its peer
  sock,     \* also "refused" and "reset"
  inbox,    \* chunks that wait for recv()
  fin,      \* the peer has closed its side
  acked,    \* chunks that left the send buffer
  nospace,  \* send() ran out of room since the last edge for writing
  edge,     \* epoll has something to report
  \* the Event
  reg,      \* "none", "added", "registered", "closing", "closed"
  notes,    \* ReadyEvents that are queued
  \* StreamBuffer and StreamBufferFilter
  pendingConnect, pendingWrites, pendingOut,
  connected, readClosed, writeClosed, shouldClose, eofCalled,
  \* control
  handler,  \* the StreamBufferHandler exists
  pc,       \* where the loop thread stands in HandleEvents
  frame,    \* where each user thread stands in Write or Close
  crash,    \* a std::system_error left the loop thread
  \* history
  established, \* the TCP connection existed at some time
  closes,      \* Close() was called
  queued,      \* chunks that Write has queued
  promised,    \* the part of them queued before should_close_ was set
  sent,        \* chunks that send() has taken
  lost,        \* a send() failed, or the connection did
  calls        \* calls of HandleConnected, HandleData and HandleEOF

sockVars  == <<sock, inbox, fin, acked, nospace, edge>>
eventVars == <<reg, notes>>
flagVars  == <<connected, readClosed, writeClosed, shouldClose, eofCalled>>
bufVars   == <<pendingConnect, pendingWrites, pendingOut>>
ctlVars   == <<handler, pc, frame, crash>>
history   == <<established, closes, queued, promised, sent, lost, calls>>
streamVars == <<sockVars, eventVars, flagVars, bufVars, ctlVars, history>>

Steps == {"idle", "enter", "connect", "modify", "read", "write", "out",
          "close", "flush", "shut", "finalize", "eof"}

\* The chunks that exist, and the DataViews that may be in a list: send() of an empty
\* one would return 0, which Out takes for a bug of the kernel.
Chunks == 1..queued
Views  == Seq(Chunks) \ {<<>>}

\* Types of the stream; nothing is in a list or sent that was not written.
StreamTypeOK ==
  /\ sock \in Starts \cup {"connected", "refused", "reset"}
  /\ inbox \in 0..MaxRcv /\ acked \in Nat /\ notes \in Nat
  /\ fin \in BOOLEAN /\ nospace \in BOOLEAN /\ edge \in BOOLEAN
  /\ pendingConnect \in BOOLEAN /\ handler \in BOOLEAN /\ crash \in BOOLEAN
  /\ connected \in BOOLEAN /\ readClosed \in BOOLEAN /\ writeClosed \in BOOLEAN
  /\ shouldClose \in BOOLEAN /\ eofCalled \in BOOLEAN
  /\ established \in BOOLEAN /\ closes \in BOOLEAN /\ lost \in BOOLEAN
  /\ reg \in {"none", "added", "registered", "closing", "closed"}
  /\ pendingWrites \in Seq(Views) /\ pendingOut \in Seq(Views)
  /\ pc \in Steps
  /\ frame \in [Users -> {"idle", "push", "ready"}]
  /\ queued \in Nat /\ promised \in Nat
  /\ sent \in Seq(Chunks)
  /\ calls \in [connected : Nat, data : Nat, eof : Nat]

\* is_connected of CreateStreamHandle; TRUE as well for a descriptor from accept4.
isConnected(s) == s = "connected"

StreamInit ==
  /\ sock \in Starts
  /\ inbox = 0 /\ fin = FALSE /\ acked = 0 /\ nospace = FALSE /\ edge = FALSE
  /\ reg = "none" /\ notes = 0
  /\ pendingConnect = isConnected(sock)
  /\ pendingWrites = <<>> /\ pendingOut = <<>>
  /\ connected = FALSE /\ readClosed = FALSE /\ writeClosed = FALSE
  /\ shouldClose = FALSE /\ eofCalled = FALSE
  /\ handler = TRUE /\ pc = "idle" /\ crash = FALSE
  /\ frame = [u \in Users |-> "idle"]
  /\ established = isConnected(sock) /\ closes = FALSE
  /\ queued = 0 /\ promised = 0 /\ sent = <<>> /\ lost = FALSE
  /\ calls = [connected |-> 0, data |-> 0, eof |-> 0]

-----------------------------------------------------------------------------
(* The socket.                                                             *)

Watched == reg \in {"registered", "closing"}
Room    == SndRoom - (Len(sent) - acked)

\* What epoll reports when the descriptor is added or its mask is modified: a
\* socket that was never connected hangs up, one that is connecting is silent.
Level == \/ sock \in {"unreachable", "refused", "reset"}
         \/ sock = "connected" /\ (Room > 0 \/ inbox > 0 \/ fin)

Edge == edge' = (edge \/ Watched)

SocketStep(s) == sock' = s /\ Edge /\ UNCHANGED <<inbox, fin, acked, nospace>>

Establish ==
  /\ sock = "connecting"
  /\ SocketStep("connected")
  /\ established' = TRUE
  /\ UNCHANGED <<eventVars, flagVars, bufVars, ctlVars, closes, queued, promised, sent, lost, calls>>

Refuse ==
  /\ sock = "connecting"
  /\ SocketStep("refused")
  /\ UNCHANGED <<eventVars, flagVars, bufVars, ctlVars, history>>

Reset ==
  /\ sock = "connected"
  /\ SocketStep("reset")
  /\ UNCHANGED <<eventVars, flagVars, bufVars, ctlVars, history>>

PeerSend ==
  /\ sock = "connected" /\ ~fin
  /\ calls.data + inbox < MaxRcv
  /\ inbox' = inbox + 1 /\ Edge
  /\ UNCHANGED <<sock, fin, acked, nospace, eventVars, flagVars, bufVars, ctlVars, history>>

PeerFin ==
  /\ sock = "connected" /\ ~fin
  /\ fin' = TRUE /\ Edge
  /\ UNCHANGED <<sock, inbox, acked, nospace, eventVars, flagVars, bufVars, ctlVars, history>>

\* The peer takes a chunk; there is an edge if send() had run out of room.
PeerRead ==
  /\ sock = "connected" /\ acked < Len(sent)
  /\ acked' = acked + 1
  /\ edge' = (edge \/ (nospace /\ Watched))
  /\ nospace' = FALSE
  /\ UNCHANGED <<sock, inbox, fin, eventVars, flagVars, bufVars, ctlVars, history>>

SocketNext == Establish \/ Refuse \/ Reset \/ PeerSend \/ PeerFin \/ PeerRead

-----------------------------------------------------------------------------
(* The event loop, as far as this Event is concerned.                      *)

Attach ==
  /\ reg = "none"
  /\ reg' = "added"
  /\ UNCHANGED <<sockVars, notes, flagVars, bufVars, ctlVars, history>>

Register ==
  /\ reg = "added" /\ pc = "idle"
  /\ reg' = "registered"
  /\ edge' = Level
  /\ UNCHANGED <<sock, inbox, fin, acked, nospace, notes, flagVars, bufVars, ctlVars, history>>

Unregister ==
  /\ reg = "closing" /\ pc = "idle"
  /\ reg' = "closed"
  /\ edge' = FALSE
  /\ UNCHANGED <<sock, inbox, fin, acked, nospace, notes, flagVars, bufVars, ctlVars, history>>

Enter == pc' = IF Watched THEN "enter" ELSE "idle"

Report ==
  /\ pc = "idle" /\ Watched /\ edge
  /\ edge' = FALSE
  /\ Enter
  /\ UNCHANGED <<sock, inbox, fin, acked, nospace, eventVars, flagVars, bufVars, handler, frame, crash, history>>

Notify ==
  /\ pc = "idle" /\ notes > 0
  /\ notes' = notes - 1
  /\ Enter
  /\ UNCHANGED <<sockVars, reg, flagVars, bufVars, handler, frame, crash, history>>

\* CloseEvent: the Event is removed some time later.
CloseEvent == reg' = IF reg = "registered" THEN "closing" ELSE reg

DropHandler ==
  /\ handler
  /\ handler' = FALSE
  /\ UNCHANGED <<sockVars, eventVars, flagVars, bufVars, pc, frame, crash, history>>

LoopNext == Attach \/ Register \/ Unregister \/ Report \/ Notify \/ DropHandler

-----------------------------------------------------------------------------
(* Write and Close, on any thread.                                         *)

\* Nothing is queued once should_close_ is set; the flag is read without a lock.
Write(u) ==
  /\ frame[u] = "idle" /\ ~shouldClose
  /\ queued + ViewSize * Cardinality({v \in Users : frame[v] = "push"}) < MaxWrites * ViewSize
  /\ frame' = [frame EXCEPT ![u] = "push"]
  /\ UNCHANGED <<sockVars, eventVars, flagVars, bufVars, handler, pc, crash, history>>

\* Under pending_writes_lock_; only the first element of the list is announced.
Push(u) ==
  /\ frame[u] = "push"
  /\ pendingWrites' = Append(pendingWrites, [i \in 1..ViewSize |-> queued + i])
  /\ queued' = queued + ViewSize
  /\ frame' = [frame EXCEPT ![u] = IF pendingWrites = <<>> THEN "ready" ELSE "idle"]
  /\ UNCHANGED <<sockVars, eventVars, flagVars, pendingConnect, pendingOut, handler, pc, crash,
                 established, closes, promised, sent, lost, calls>>

SetShouldClose ==
  /\ shouldClose' = TRUE
  /\ promised' = IF shouldClose THEN promised ELSE queued

\* Mutant: Close does not tell the loop.
MutantSilentClose(u) ==
  /\ frame[u] = "idle" /\ ~closes
  /\ closes' = TRUE
  /\ SetShouldClose
  /\ UNCHANGED <<sockVars, eventVars, connected, readClosed, writeClosed, eofCalled, bufVars,
                 ctlVars, established, queued, sent, lost, calls>>

\* Close(), called once: a second call changes nothing but the number of wakeups.
Close(u) ==
  /\ frame[u] = "idle" /\ ~closes
  /\ closes' = TRUE
  /\ SetShouldClose
  /\ frame' = [frame EXCEPT ![u] = "ready"]
  /\ UNCHANGED <<sockVars, eventVars, connected, readClosed, writeClosed, eofCalled, bufVars,
                 handler, pc, crash, established, queued, sent, lost, calls>>

\* ReadyEvent does nothing while event_ is null.
Ready(u) ==
  /\ frame[u] = "ready"
  /\ notes' = IF reg = "none" THEN notes ELSE notes + 1
  /\ frame' = [frame EXCEPT ![u] = "idle"]
  /\ UNCHANGED <<sockVars, reg, flagVars, bufVars, handler, pc, crash, history>>

UserStep(u) == Write(u) \/ Push(u) \/ Close(u) \/ Ready(u)
-----------------------------------------------------------------------------
(* HandleEvents, on the loop thread.                                       *)

Goto(p) == pc' = p

\* Without its handler a stream only closes its Event.  should_close_ is read once.
EnterHandleEvents ==
  /\ pc = "enter"
  /\ IF ~handler
       THEN CloseEvent /\ Goto("idle")
       ELSE /\ Goto(IF shouldClose THEN "close" ELSE IF ~connected THEN "connect" ELSE "read")
            /\ UNCHANGED reg
  /\ UNCHANGED <<sockVars, notes, flagVars, bufVars, handler, frame, crash, history>>

\* TCPStreamBufferFilter::Connect asks for SO_ERROR, which is zero as long as the
\* connection has not failed; Accept and a finished connect() ask nothing.
SocketError == sock \in {"refused", "reset"}

DoConnect ==
  /\ pc = "connect"
  /\ IF ~pendingConnect /\ SocketError
       THEN /\ readClosed' = TRUE /\ writeClosed' = TRUE /\ lost' = TRUE
            /\ Goto("finalize")
            /\ UNCHANGED <<connected, calls>>
       ELSE /\ connected' = TRUE
            /\ calls' = [calls EXCEPT !.connected = @ + 1]
            /\ Goto("modify")
            /\ UNCHANGED <<readClosed, writeClosed, lost>>
  /\ UNCHANGED <<sockVars, eventVars, shouldClose, eofCalled, bufVars, handler, frame, crash,
                 established, closes, queued, promised, sent>>

\* EPOLL_CTL_MOD arms the edge again.
ModifyEvent ==
  /\ pc = "modify"
  /\ edge' = (edge \/ Level)
  /\ Goto("finalize")
  /\ UNCHANGED <<sock, inbox, fin, acked, nospace, eventVars, flagVars, bufVars, handler, frame, crash, history>>

\* recv() returns data, or else: 0 or an error that means the end; ENOTCONN, for
\* which In throws; EAGAIN.
InEnds   == inbox = 0 /\ (fin \/ SocketError)
InThrows == sock = "unreachable"

\* One recv() per iteration of Read, and HandleData with what it got.
DoRead ==
  /\ pc = "read"
  /\ \/ /\ ~readClosed /\ inbox > 0
        /\ inbox' = 0
        /\ calls' = [calls EXCEPT !.data = @ + 1]
        /\ UNCHANGED <<readClosed, crash, pc>>
     \/ /\ ~readClosed /\ InEnds
        /\ readClosed' = TRUE
        /\ Goto("write")
        /\ UNCHANGED <<inbox, calls, crash>>
     \/ /\ ~readClosed /\ InThrows
        /\ crash' = TRUE
        /\ UNCHANGED <<inbox, calls, readClosed, pc>>
     \/ /\ readClosed \/ (inbox = 0 /\ ~InEnds /\ ~InThrows)
        /\ Goto("write")
        /\ UNCHANGED <<inbox, calls, readClosed, crash>>
  /\ UNCHANGED <<sock, fin, acked, nospace, edge, eventVars, connected, writeClosed, shouldClose,
                 eofCalled, bufVars, handler, frame, established, closes, queued, promised, sent, lost>>

\* DoWrite: the whole list goes to the filter, under the lock; without anything
\* new the filter is not called, whatever it still holds in pending_out_.
TakeWrites(next, skip) ==
  /\ IF writeClosed \/ pendingWrites = <<>>
       THEN Goto(skip) /\ UNCHANGED <<pendingWrites, pendingOut>>
       ELSE /\ pendingOut' = pendingOut \o pendingWrites
            /\ pendingWrites' = <<>>
            /\ Goto(next)
  /\ UNCHANGED <<sockVars, eventVars, flagVars, pendingConnect, handler, frame, crash, history>>

DoWrite == pc = "write" /\ TakeWrites("out", "finalize")

\* Mutants: Slice() is forgotten; a DataView that was sent whole is kept.
MutantNoSlice(view, n)   == IF n = Len(view) THEN <<>> ELSE <<view>>
MutantEmptyRest(view, n) == <<SubSeq(view, n + 1, Len(view))>>

\* What is put back in front of pending_out_ after n chunks were taken.
Rest(view, n) == IF n = Len(view) THEN <<>> ELSE <<SubSeq(view, n + 1, Len(view))>>

\* send() fails with anything but EAGAIN.
OutFails == sock \in {"refused", "reset", "unreachable"}

\* One send() of the first DataView.  It fails on a socket that is not connected
\* any more or never was (EPIPE); otherwise it takes what there is room for,
\* nothing while connecting, and the loop ends unless it took everything.
Out(stop) ==
  LET view  == Head(pendingOut)
      taken == IF sock = "connecting" THEN 0
               ELSE IF Len(view) <= Room THEN Len(view) ELSE Room
  IN
  /\ IF OutFails
       THEN /\ pendingOut' = Tail(pendingOut)
            /\ writeClosed' = TRUE /\ lost' = TRUE
            /\ Goto(stop)
            /\ UNCHANGED <<sent, nospace>>
       ELSE /\ sent' = sent \o SubSeq(view, 1, taken)
            /\ pendingOut' = Rest(view, taken) \o Tail(pendingOut)
            /\ nospace' = (sock = "connected" /\ taken < Len(view))
            /\ IF taken = Len(view) THEN UNCHANGED pc ELSE Goto(stop)
            /\ UNCHANGED <<writeClosed, lost>>
  /\ UNCHANGED <<sock, inbox, fin, acked, edge, eventVars, connected, readClosed, shouldClose,
                 eofCalled, pendingConnect, pendingWrites, handler, frame, crash,
                 established, closes, queued, promised, calls>>

Drained(next) ==
  /\ Goto(next)
  /\ UNCHANGED <<sockVars, eventVars, flagVars, bufVars, handler, frame, crash, history>>

FilterWrite(at, next) ==
  /\ pc = at
  /\ IF pendingOut = <<>> THEN Drained(next) ELSE Out(next)

\* DoClose: flush unless the filter cannot write any more, then close the filter.
DoClose == pc = "close" /\ TakeWrites("flush", "shut")

\* Mutant: the filter shuts down without sending what is pending.
MutantShutNow ==
  /\ pc = "shut"
  /\ readClosed' = TRUE /\ writeClosed' = TRUE
  /\ Goto("finalize")
  /\ UNCHANGED <<sockVars, eventVars, connected, shouldClose, eofCalled, bufVars,
                 handler, frame, crash, history>>

\* StreamBufferFilter::Close: what is pending is sent first; a TCP filter shuts
\* down at once.  When something is left the close is delayed.
FilterClose ==
  /\ pc = "shut"
  /\ IF pendingOut = <<>> \/ writeClosed
       THEN /\ readClosed' = TRUE /\ writeClosed' = TRUE
            /\ Goto("finalize")
            /\ UNCHANGED <<sockVars, eventVars, connected, shouldClose, eofCalled, bufVars,
                           handler, frame, crash, history>>
       ELSE Out(IF OutFails THEN "shut" ELSE "finalize")

\* Mutant: eof_called_ is not looked at.
MutantEOFAgain == readClosed /\ writeClosed

EOFDue == readClosed /\ writeClosed /\ ~eofCalled

\* A stream whose peer has finished, or whose connection failed, closes itself;
\* HandleEOF is called once, when both directions are closed.
DoFinalize ==
  /\ pc = "finalize"
  /\ IF ~shouldClose /\ readClosed
       THEN SetShouldClose /\ Goto("close") /\ UNCHANGED <<eofCalled, calls>>
       ELSE /\ UNCHANGED <<shouldClose, promised>>
            /\ IF EOFDue
                 THEN /\ eofCalled' = TRUE
                      /\ calls' = [calls EXCEPT !.eof = @ + 1]
                      /\ Goto("eof")
                 ELSE Goto("idle") /\ UNCHANGED <<eofCalled, calls>>
  /\ UNCHANGED <<sockVars, eventVars, connected, readClosed, writeClosed, bufVars, handler, frame, crash,
                 established, closes, queued, sent, lost>>

AfterEOF ==
  /\ pc = "eof"
  /\ CloseEvent
  /\ Goto("idle")
  /\ UNCHANGED <<sockVars, notes, flagVars, bufVars, handler, frame, crash, history>>

HandleStep ==
  \/ EnterHandleEvents \/ DoConnect \/ ModifyEvent \/ DoRead \/ DoWrite
  \/ FilterWrite("out", "finalize") \/ DoClose \/ FilterWrite("flush", "shut")
  \/ FilterClose \/ DoFinalize \/ AfterEOF

StreamNext ==
  /\ ~crash
  /\ \/ HandleStep \/ LoopNext \/ SocketNext
     \/ \E u \in Users : UserStep(u)

StreamSpec == StreamInit /\ [][StreamNext]_streamVars

\* Threads are scheduled, the loop reports what it has, connections are decided,
\* and the peer reads.
FairStreamSpec ==
  /\ StreamSpec
  /\ WF_streamVars(~crash /\ (HandleStep \/ Register \/ Unregister \/ Report \/ Notify))
  /\ WF_streamVars(~crash /\ (Establish \/ Refuse))
  /\ WF_streamVars(~crash /\ PeerRead)
  /\ \A u \in Users : WF_streamVars(~crash /\ (Push(u) \/ Ready(u)))

-----------------------------------------------------------------------------
(* Properties.                                                             *)

\* What the kernel has taken is what was written, in order, nothing twice and
\* nothing missing, however often a send() stops in the middle of a DataView.
SentInOrder == \A i \in 1..Len(sent) : sent[i] = i

\* The stream keeps what module StreamPromise says: the order of the calls of the
\* handler, HandleEOF once, and what was queued before the end is sent before it, unless
\* the connection failed, whatever Write and Close race with (stream_buffer.cc:88, 239).
Promise == INSTANCE StreamPromise
             WITH Filters <- 1, ending <- shouldClose, sent <- Len(sent)
KeepsPromise == Promise!Spec

\* A stream that is to be closed and was attached comes to HandleEOF, if the
\* handler stays and the peer reads what is still to be sent.
CloseCompletes ==
  shouldClose /\ reg # "none" ~> eofCalled \/ ~handler \/ crash

\* HandleConnected means that the connection exists (tcp_test.cc:331).
ConnectedIsEstablished == calls.connected > 0 => established

\* What was written to a connected stream reaches the peer (tcp_test.cc:353-359 and
\* README.md: "it will write to the buffer").
WritesArrive ==
  \A n \in 1..(MaxWrites * ViewSize) :
    queued >= n /\ reg = "registered" /\ connected /\ handler
      ~> Len(sent) >= n \/ shouldClose \/ ~handler \/ SocketError \/ crash
=============================================================================
