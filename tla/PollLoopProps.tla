---------------------------- MODULE PollLoopProps -----------------------------
(***************************************************************************)
(* What the loop of the Python guest promises its coroutines.              *)
(***************************************************************************)
EXTENDS PollLoop, SyncProps

\* Every send() returns (poll_loop.py:30-46, 138-168): poll names one ready
\* pollable at a time and leaves the futures of the others where they stand,
\* with a permit perhaps, and still no coroutine waits for ever.
SendsReturn == \A k \in Pollables : <>(co[k] = "returned")

LoopMoves ==
    \/ call = None /\ \E k \in Pollables : co[k] = "registering"
    \/ call = None /\ loop = "handles" /\ \E k \in Pollables : co[k] = "handle"
    \/ /\ call = None /\ loop = "handles" /\ wakers # <<>>
       /\ \A k \in Pollables : co[k] \in {"parked", "returned"}
    \/ call.op = "write" /\ pc[Guest] = "done"
    \/ loop = "poll" /\ \E k \in Polls : pc[k] = "done"
    \/ loop = "wake" /\ call = None /\ \E k \in Elements(wakers) : pc[k] = "done"

\* The loop never stands still while a coroutine waits (poll_loop.py:138-168): it
\* can go on, or somebody its call depends on can, or a task whose answer is awaited.
NeverStuck ==
    (\E k \in Pollables : co[k] # "returned") =>
      \/ LoopMoves
      \/ \E c \in Concerned \cup {t \in Sets : Works[t] \in Awaited} : Moves(c)
=============================================================================
