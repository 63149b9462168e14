------------------------------- MODULE MCCalls --------------------------------
(***************************************************************************)
(* Instances of the calls of the host into a sandbox (FfiSandbox and       *)
(* PySandbox) and of the guest out of it (WasiSync) for TLC.  They share   *)
(* no state but the limits of the core, so a behaviour moves one of them.  *)
(* Of FfiSandbox it moves either the targets or the settings and the       *)
(* handles: the two meet in a build only, which may fail for either.  Of   *)
(* PySandbox it moves either the limits or the rest in the same way.       *)
(***************************************************************************)
EXTENDS FfiProps, PyProps, SyncProps, TLC

CONSTANTS g, r1, a1, a2, p1, p2

VARIABLE part  \* what this behaviour moves

\* One suffix, "K" for 1024; the largest numbers are small.
MCFactor == [one |-> 1, K |-> 2]
S(v, suffix) == [value |-> v, suffix |-> suffix]

\* None, what fits, what exceeds i64, what overflows u64, no u64 at all.
MCSizes == {S(0, "K"), S(1, "K"), S(3, "one"), S(2, "K"), S(3, "K"), S(6, "one")}

\* Two tasks on one resource; one waits for what the guest or the other makes.
MCWorks == a1 :> r1 @@ a2 :> r1
MCWatches == p1 :> r1 @@ p2 :> r1
MCPollLists == {<<>>, <<p1, p2>>, <<p1, p1>>}

MCInit ==
    /\ part \in {"targets", "handles", "python", "limits", "resources"}
    /\ FfiInit /\ PyInit /\ Init
    \* What does not move has one initial state.
    /\ part \notin {"python", "limits"} => owner = "user"
    /\ part = "limits" => list.tools = {}

TargetsMove ==
    /\ part = "targets"
    /\ FfiNext
    /\ UNCHANGED <<settings, outVars, pyVars, vars>>

HandlesMove ==
    /\ part = "handles"
    /\ FfiNext
    /\ UNCHANGED <<pending, permissions, pyVars, vars>>

PythonMoves ==
    /\ part = "python"
    /\ PyNext
    /\ UNCHANGED <<asked, ffiVars, vars>>

LimitsMove ==
    /\ part = "limits"
    /\ PyNext
    /\ UNCHANGED <<pyTools, pyPending, pyPermissions, ffiVars, vars>>

InResources(A) == part = "resources" /\ A /\ UNCHANGED <<part, ffiVars, pyVars>>

MCNext ==
    \/ (TargetsMove \/ HandlesMove \/ PythonMoves \/ LimitsMove) /\ UNCHANGED part
    \/ InResources(Next)

\* The fairness of WasiSync.
MCSpec ==
    /\ MCInit /\ [][MCNext]_<<part, ffiVars, pyVars, vars>>
    /\ WF_vars(InResources(Returns))
    /\ \A c \in Clients : WF_vars(InResources(Step(c)))
===============================================================================
