------------------------------ MODULE AgentTool -------------------------------
(***************************************************************************)
(* CodeExecutionTool of the .NET SDK (Extensions.AI/CodeExecutionTool.cs)  *)
(* over SandboxRun: every Execute is to start from the state after an      *)
(* initial run of a no-op.  Its lock makes calls sequential.  Operators    *)
(* whose comment starts with "Defect" are plausible bugs and not part of   *)
(* the specification.                                                      *)
(***************************************************************************)
EXTENDS SandboxRun

CONSTANT WarmSnapshot  \* _snapshot

ASSUME AgentAssumption == WarmSnapshot \in Snapshots

VARIABLES
    step,         \* where Execute is
    initialized,  \* _initialized
    disposed,     \* _disposed
    userRuns      \* history: runs of user code

agentVars == <<initialized, disposed, userRuns>>
allVars == <<vars, step, agentVars>>

\* RegisterTool and AllowDomain pass on to the sandbox under the lock.
Configure ==
    /\ step = "idle" /\ ~disposed
    /\ \E d \in Targets : AllowDomain(d)
    /\ UNCHANGED <<step, agentVars>>

Execute ==
    /\ step = "idle" /\ ~disposed /\ phase = "idle"
    /\ step' = IF initialized THEN "restore" ELSE "init"
    /\ UNCHANGED <<vars, agentVars>>

Throw == step' = "idle" /\ UNCHANGED agentVars

\* An answer with a non-zero exit code is a result, an error an exception.
IsResult == reply'.kind \in {"ok", "exit -1"}

InitRun ==
    /\ step = "init"
    /\ StartRun
    /\ IF phase' = "idle" THEN Throw ELSE step' = "initRuns" /\ UNCHANGED agentVars

InitRuns ==
    /\ step = "initRuns"
    /\ EnterGuest \/ GuestReturns \/ GuestFails
    /\ IF phase' = "guest" THEN UNCHANGED <<step, agentVars>>
       ELSE IF IsResult THEN step' = "snapshot" /\ UNCHANGED agentVars
       ELSE Throw

\* Defect: _initialized is set before the snapshot is there.
TakeSnapshotLate ==
    /\ step = "snapshot"
    /\ Snapshot(WarmSnapshot)
    /\ initialized' = TRUE
    /\ step' = IF reply'.kind = "ok" THEN "restore" ELSE "run"
    /\ UNCHANGED <<disposed, userRuns>>

TakeSnapshot ==
    /\ step = "snapshot"
    /\ Snapshot(WarmSnapshot)
    /\ IF reply'.kind = "ok"
       THEN step' = "restore" /\ initialized' = TRUE /\ UNCHANGED <<disposed, userRuns>>
       ELSE Throw

\* Without a snapshot there is nothing to restore.
RestoreClean ==
    /\ step = "restore"
    /\ IF taken[WarmSnapshot] = NoSnapshot
       THEN step' = "run" /\ UNCHANGED <<vars, agentVars>>
       ELSE /\ Restore(WarmSnapshot)
            /\ IF reply'.kind = "ok" THEN step' = "run" /\ UNCHANGED agentVars ELSE Throw

UserRun ==
    /\ step = "run"
    /\ StartRun
    /\ IF phase' = "idle" THEN Throw
       ELSE step' = "userRuns" /\ userRuns' = userRuns \cup {runs'}
            /\ UNCHANGED <<initialized, disposed>>

\* Execute passes no cancellation token: nothing interrupts the run.
UserRuns ==
    /\ step = "userRuns"
    /\ EnterGuest \/ HostFunction \/ GuestReturns \/ GuestFails
    /\ IF phase' = "idle" THEN Throw ELSE UNCHANGED <<step, agentVars>>

\* The snapshot and then the sandbox.
Dispose ==
    /\ step = "idle" /\ ~disposed
    /\ disposed' = TRUE
    /\ taken' = [taken EXCEPT ![WarmSnapshot] = NoSnapshot]
    /\ UNCHANGED <<fixedVars, phase, runs, guestVars, hostVars, netVars, reply,
                   step, initialized, userRuns>>

AgentInit ==
    /\ Init
    /\ step = "idle" /\ initialized = FALSE /\ disposed = FALSE /\ userRuns = {}

AgentBuild ==
    /\ \E outputDir, tempOutput \in BOOLEAN : Build(outputDir, tempOutput)
    /\ UNCHANGED <<step, agentVars>>

AgentNext ==
    \/ AgentBuild \/ Configure \/ Execute
    \/ InitRun \/ InitRuns \/ TakeSnapshot \/ RestoreClean \/ UserRun \/ UserRuns
    \/ Dispose

AgentSpec == AgentInit /\ [][AgentNext]_allVars
===============================================================================
