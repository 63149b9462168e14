----------------------------- MODULE DotnetProps -----------------------------
(* What must hold of the .NET Sandbox class.                               *)
EXTENDS DotnetSandbox

\* Type invariant.
TypeOK ==
    /\ object \in {"none", "unreachable", "live", "disposed", "finalized", "crashed"}
    /\ native \in {"none", "open", "closing", "freed"}
    /\ pinned \in BOOLEAN
    /\ gate \in Threads \cup {NoThread}
    /\ pc \in [Threads -> {"idle", "waiting", "calling", "restoring", "unpin"} \cup InRun]
    /\ op \in [Threads -> Ops]
    /\ outcome \in {"ok", "error", "ObjectDisposed", "Canceled", "Unexpected"}
    /\ token \in [Threads -> {"none", "clear", "cancelled"}]
    /\ registration \in [Threads -> {"none", "armed", "firing", "off"}]
    /\ completed \in [Threads -> BOOLEAN]
    /\ interrupt \in [Threads -> BOOLEAN]
    /\ task \in [Threads -> {"none", "look", "kill"}]
    /\ guest \in {"idle", "entering", "running", "tool", "ended"}
    /\ killPending \in BOOLEAN
    /\ result \in {"none", "notStarted", "ok", "error", "cancelled"}
    /\ snapshot \in {"none", "open", "closing", "freed"}

(* A cancellation reaches no run but the one whose token was cancelled:    *)
(* native execution never reports one to another caller.                   *)
CancelsOwnRun == outcome # "Unexpected"

(* Nothing is freed under native code.  The native sandbox is freed when   *)
(* no call uses it: whoever disposes it holds the lock, the SafeHandle     *)
(* defers a release from within a call, and the finalizer is kept off by   *)
(* GC.KeepAlive.  The delegates of the tools stay pinned until then        *)
(* (Sandbox.cs:598), unless a tool disposes the sandbox it is called from  *)
(* (guest = "tool"): there the delegates are unpinned (:614) while the     *)
(* native call goes on.  A snapshot that a restore uses is freed after it, *)
(* whoever disposes it meanwhile.                                          *)
NothingFreedInUse ==
    [][/\ native # "freed" /\ native' = "freed" =>
            guest' = "idle" /\ \A t \in Threads : pc'[t] \notin {"calling", "native"}
       /\ pinned /\ ~pinned' => native' = "freed" \/ guest = "tool"
       /\ Restoring' => snapshot' # "freed"]_vars

(* A run that was cancelled ends, whatever its guest does: a kill that     *)
(* misses the guest is repeated.                                           *)
CancelledRunEnds ==
    \A t \in Threads : pc[t] = "native" /\ token[t] = "cancelled" ~> pc[t] = "idle"
===============================================================================
