------------------------------- MODULE PollLoop -------------------------------
(***************************************************************************)
(* The asyncio loop of the Python guest (poll_loop.py) on the resources of *)
(* WasiSync.  A coroutine sends a request and awaits its response: it asks *)
(* the future, and while the answer is None it registers a pollable and    *)
(* parks.  The loop runs the handles it has, then polls every waker's      *)
(* pollable at once, and wakes those that poll names.                      *)
(*                                                                         *)
(* A coroutine is named by the pollable it registers; its request is sent  *)
(* before Init, and the task of that request sets the response.            *)
(***************************************************************************)
EXTENDS WasiSync, SequencesExt

\* handle() gives every send a future of its own, and the task that answers it.
ASSUME LoopAssumption ==
    /\ \A k, l \in Pollables : Watches[k] = Watches[l] => k = l
    /\ \A k \in Pollables : \E t \in Sets : Works[t] = Watches[k]

VARIABLES
    co,      \* where each coroutine stands
    wakers,  \* PollLoop.wakers, in order
    loop,    \* where run_until_complete stands
    seen     \* whether the last get() found the response

loopVars == <<co, wakers, loop, seen>>
allVars == <<vars, loopVars>>

\* A handle runs its coroutine up to the next get() of send().
AskResponse(k) ==
    /\ loop = "handles" /\ co[k] = "handle"
    /\ Enter(Watches[k], "write")
    /\ co' = [co EXCEPT ![k] = "getting"]
    /\ UNCHANGED <<wakers, loop, seen>>

\* FutureHttp::get under the write lock.
GetResponse ==
    /\ Write(Guest)
    /\ seen' = happened[call.res]
    /\ UNCHANGED <<co, wakers, loop>>

GetReturns(k) ==
    /\ co[k] = "getting"
    /\ Leave
    /\ co' = [co EXCEPT ![k] = IF seen THEN "returned" ELSE "registering"]
    /\ UNCHANGED <<wakers, loop, seen>>

\* register(): subscribe, and park on a new waker.
Register(k) ==
    /\ co[k] = "registering"
    /\ Subscribe(k)
    /\ wakers' = Append(wakers, k)
    /\ co' = [co EXCEPT ![k] = "parked"]
    /\ UNCHANGED <<loop, seen>>

\* After a batch of handles, the loop polls the pollables of all wakers.  A batch runs
\* every coroutine that can go on, and one that only sends parks or returns in it: no
\* handle of theirs is left.
PollWakers ==
    /\ loop = "handles"
    /\ \A k \in Pollables : co[k] \in {"parked", "returned"}
    /\ wakers # <<>>
    /\ EnterPoll("poll", wakers)
    /\ loop' = "poll"
    /\ UNCHANGED <<co, wakers, seen>>

PollReturns(k) ==
    /\ loop = "poll"
    /\ ReturnDone(k)
    /\ loop' = "wake"
    /\ UNCHANGED <<co, wakers, seen>>

\* Defect: the wakers that were not ready are forgotten.
WakeForgets(k) ==
    /\ loop = "wake" /\ pc[k] = "done"
    /\ DropPollable(k)
    /\ co' = [co EXCEPT ![k] = "handle"]
    /\ wakers' = <<>>
    /\ loop' = "handles"
    /\ UNCHANGED seen

\* The ready pollable is dropped, its waker set, and the others kept.
Wake(k) ==
    /\ loop = "wake" /\ pc[k] = "done"
    /\ DropPollable(k)
    /\ co' = [co EXCEPT ![k] = "handle"]
    /\ \E i \in DOMAIN wakers : wakers[i] = k /\ wakers' = RemoveAt(wakers, i)
    /\ loop' = "handles"
    /\ UNCHANGED seen

-----------------------------------------------------------------------------
LoopInit ==
    /\ Init
    /\ co = [k \in Pollables |-> "handle"]
    /\ wakers = <<>>
    /\ loop = "handles"
    /\ seen = FALSE

Loop ==
    \/ PollWakers
    \/ \E k \in Pollables :
          AskResponse(k) \/ GetReturns(k) \/ Register(k) \/ PollReturns(k) \/ Wake(k)

GuestStep ==
    GetResponse \/ ((Lock(Guest) \/ Locked(Guest) \/ Unlock(Guest)) /\ UNCHANGED loopVars)

Background(c) == Step(c) /\ UNCHANGED loopVars

LoopNext == Loop \/ GuestStep \/ \E c \in Tasks \cup Pollables : Background(c)

LoopSpec ==
    /\ LoopInit /\ [][LoopNext]_allVars
    /\ WF_allVars(Loop) /\ WF_allVars(GuestStep)
    /\ \A c \in Tasks \cup Pollables : WF_allVars(Background(c))
=============================================================================
