------------------------------ MODULE MCPollLoop ------------------------------
(* Instances of PollLoop for TLC.                                          *)
EXTENDS PollLoopProps

CONSTANTS g, r1, r2, r3, t1, t2, t3, p1, p2, p3

\* Three requests, each with the task that answers it.
MCWorks == t1 :> r1 @@ t2 :> r2 @@ t3 :> r3
MCWatches == p1 :> r1 @@ p2 :> r2 @@ p3 :> r3
MCPollLists == {}
===============================================================================
