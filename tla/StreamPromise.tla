---------------------------- MODULE StreamPromise ----------------------------
(***************************************************************************)
(* What a StreamBuffer promises its user, whatever filters it has: in      *)
(* which order the StreamBufferHandler is called, and that what Write      *)
(* queued before the end was asked for is sent before HandleEOF.  Modules  *)
(* StreamBuffer and FilterChain implement it.                              *)
(***************************************************************************)
EXTENDS Naturals

CONSTANT Filters \* filters the stream may have

VARIABLES
  calls,    \* calls of HandleConnected, HandleData and HandleEOF
  ending,   \* should_close_
  queued,   \* chunks that Write has queued
  promised, \* the part of them queued before should_close_ was set
  sent,     \* chunks that the kernel has taken
  lost      \* the connection has failed

promiseVars == <<calls, ending, queued, promised, sent, lost>>

Init ==
  /\ calls = [connected |-> 0, data |-> 0, eof |-> 0]
  /\ ending = FALSE /\ lost = FALSE
  /\ queued = 0 /\ promised = 0 /\ sent = 0

Call(what) ==
  /\ calls.eof = 0
  /\ calls' = [calls EXCEPT ![what] = @ + 1]
  /\ UNCHANGED <<ending, queued, promised, sent, lost>>

\* Once for every filter, and not after the first data.
HandleConnected == calls.data = 0 /\ calls.connected < Filters /\ Call("connected")

HandleData == calls.connected > 0 /\ Call("data")

\* Only when the end was asked for, or the peer ended the stream.
HandleEOF == ending /\ (lost \/ sent >= promised) /\ Call("eof")

Queue ==
  /\ queued' > queued
  /\ UNCHANGED <<calls, ending, promised, sent, lost>>

End ==
  /\ ~ending /\ ending' = TRUE
  /\ promised' = queued
  /\ UNCHANGED <<calls, queued, sent, lost>>

Send ==
  /\ calls.eof = 0
  /\ sent' > sent /\ sent' <= queued
  /\ UNCHANGED <<calls, ending, queued, promised, lost>>

\* The end is asked for by the connection that has failed, or was before.
Lose ==
  /\ calls.eof = 0 /\ lost' = TRUE
  /\ UNCHANGED <<calls, ending, queued, promised, sent>>

Next == HandleConnected \/ HandleData \/ HandleEOF \/ Queue \/ End \/ Send \/ Lose

Spec == Init /\ [][Next]_promiseVars
=============================================================================
