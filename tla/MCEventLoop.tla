----------------------------- MODULE MCEventLoop -----------------------------
(***************************************************************************)
(* Instances of EventLoop for TLC.  All streams have the descriptor        *)
(* StreamFd, so that the kernel gives the number out again as soon as it   *)
(* is free; the timers of an instance share TimerFd in the same way.       *)
(***************************************************************************)
EXTENDS EventLoop

CONSTANTS StreamFd, TimerFd

MCHandle == [h \in Handlers |-> IF h \in Streams THEN StreamFd
                                ELSE IF h \in Timers THEN TimerFd ELSE NoFd]
=============================================================================
