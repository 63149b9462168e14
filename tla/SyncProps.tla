------------------------------ MODULE SyncProps -------------------------------
(***************************************************************************)
(* What the resources of the Wasm backend promise their waiters.           *)
(***************************************************************************)
EXTENDS WasiSync

\* Type invariant.
TypeOK ==
    /\ happened \in [Resources -> BOOLEAN]
    /\ queue \in [Resources -> Seq(Permits)]
    /\ holders \in [Resources -> SUBSET Permits]
    /\ pc \in [Clients -> {"off", "start", "queued", "wait", "asleep", "held", "drop", "done"}]

\* No wakeup is lost (resource.rs:55-65): a future sleeps only while its event
\* has not happened, whatever was written between its check and its sleep.
NoLostWakeup ==
    \A c \in Clients : pc[c] = "asleep" => ~happened[Res(c)]

\* A wakeup is no event (resource.rs:67-81): every dropped write guard wakes
\* the waiters, and they look again under the lock before they report.
ReadyMeansHappened ==
    \A p \in Pollables : pc[p] = "done" => happened[Watches[p]]

\* A permit the lock gave to the future of a pollable that nobody polls.
LeftBehind ==
    \E p \in Pollables, r \in Resources :
        Permit(p) \in holders[r] /\ pc[p] = "queued" /\ p \notin Polls

Hopeless == call.op = "selfLocked" \/ (call.op = "poll" /\ call.list = <<>>)

\* What the call of the guest waits for is there: it only needs the lock.
Due ==
    CASE call.op \in {"read", "write", "set", "ready"} -> TRUE
      [] call.op = "wait" -> happened[call.res]
      [] call.op \in {"block", "poll"} -> \E p \in Polls : happened[Watches[p]]
      [] OTHER -> FALSE

\* The guest thread is stuck in a call for no other reason than these
\* (io.rs:38-69): the event it waits for never happens, it polled no pollable
\* or one twice, or a pollable it stopped polling keeps a permit.
CallsReturn == Due ~> (call = None \/ Hopeless \/ LeftBehind)

-----------------------------------------------------------------------------
(* Who can move, in terms of the state.                                    *)

Moves(c) ==
    /\ pc[c] \in {"start", "queued", "wait", "held", "drop"}
    /\ pc[c] # "drop" => Polled(c)
    /\ pc[c] = "queued" => Permit(c) \in holders[Res(c)]

OnResource == {"read", "write", "set", "wait"}

\* The call of the guest can come back.
Returnable ==
    \/ call.op \in OnResource /\ pc[Guest] = "done"
    \/ \E p \in Polls : pc[p] = "done"
    \/ call.op = "ready" /\ \E p \in Polls : pc[p] = "asleep"
    \/ call.op = "ready" /\ \E p \in Polls : pc[p] = "queued" /\ Permit(p) \notin holders[Watches[p]]

\* The resources the call works on, and the clients it depends on: the guest, what
\* it polls, and whoever has the lock of those resources.
Awaited == IF call.op \in OnResource THEN {call.res} ELSE {Watches[p] : p \in Polls}
Concerned == {Guest} \cup Polls \cup {h.who : h \in UNION {holders[r] : r \in Awaited}}

\* A call that is due can come back, or one of those it depends on can move, or a
\* pollable that nobody polls has the lock (resource.rs:32-81, io.rs:38-69): the
\* locks are fair and never in a circle, so there is no other way to hang.
HangsNamed ==
    Due =>
      \/ Returnable
      \/ \E c \in Concerned : Moves(c)
      \/ \E p \in Concerned \cap Pollables : pc[p] = "queued" /\ p \notin Polls
=============================================================================
