---------------------------- MODULE DotnetSandbox ----------------------------
(***************************************************************************)
(* The .NET Sandbox class (sdk/dotnet/core/Api/Sandbox.cs): threads that   *)
(* share one object take its lock, a cancelled run retries kill() from a   *)
(* task of its own, Dispose and the finalizer release the native handle    *)
(* and the callbacks it points to.  Operators whose comment starts with    *)
(* "Defect" are plausible bugs and not part of the specification.          *)
(***************************************************************************)
EXTENDS Naturals

CONSTANTS
    Threads,  \* host threads
    NoThread

Ops == {"register", "allow", "files", "path", "snapshot", "restore", "dispose", "run"}

ASSUME DotnetAssumption == NoThread \notin Threads

VARIABLES
    object,        \* the Sandbox object
    native,        \* its SafeHandle; "closing": disposed while a call uses it
    pinned,        \* tool delegates are pinned
    gate,          \* holder of _gate
    pc,            \* where each thread is in its call
    op,            \* the call
    outcome,       \* how the last call ended
    token,         \* its cancellation token
    registration,  \* the callback registered with the token
    completed,     \* the ManualResetEventSlim of its run
    interrupt,     \* its interrupt handle is open
    task,          \* its interruption task runs
    guest,         \* the guest of the running native call
    killPending,   \* a kill during a host callback is remembered
    result,        \* what native execution answered
    snapshot       \* a SnapshotSafeHandle

objectVars == <<object, native, pinned>>
callVars   == <<gate, pc, op, outcome>>
runVars    == <<token, registration, completed, interrupt, task>>
guestVars  == <<guest, killPending, result>>
vars == <<objectVars, callVars, runVars, guestVars, snapshot>>

InRun == {"interrupt", "register", "check", "native", "finally", "join", "report"}

\* The call ends with a result or an exception and leaves the lock.
Leave(t, why) ==
    /\ pc' = [pc EXCEPT ![t] = "idle"]
    /\ op' = [op EXCEPT ![t] = "run"]
    /\ outcome' = why
    /\ gate' = NoThread

\* The call goes on, in the lock.
Go(t, next) ==
    /\ pc' = [pc EXCEPT ![t] = next]
    /\ gate' = t
    /\ UNCHANGED <<op, outcome>>

-----------------------------------------------------------------------------
(* Construction and the common frame of the public methods.                *)

\* What the constructor may be refused: hyperlight_sandbox_create, before there is a
\* handle, or an option, with the handle there.  The object is then unreachable.
Refusals == {"nothing", "create", "option"}

Create(refused) ==
    /\ object = "none"
    /\ object' = IF refused = "nothing" THEN "live" ELSE "unreachable"
    /\ native' = IF refused = "create" THEN "none" ELSE "open"
    /\ UNCHANGED <<pinned, callVars, runVars, guestVars, snapshot>>

Call(t, o, tok) ==
    /\ object \in {"live", "disposed"}
    /\ pc[t] = "idle"
    /\ o = "restore" => snapshot # "none"
    /\ pc' = [pc EXCEPT ![t] = "waiting"]
    /\ op' = [op EXCEPT ![t] = o]
    /\ token' = [token EXCEPT ![t] = tok]
    /\ UNCHANGED <<objectVars, gate, outcome, registration, completed, interrupt, task,
                   guestVars, snapshot>>

Acquire(t, o) == pc[t] = "waiting" /\ op[t] = o /\ gate = NoThread

\* lock (_gate) and ThrowIfDisposed.
Enter(t, o, next) ==
    /\ Acquire(t, o)
    /\ IF object = "disposed"
       THEN Leave(t, "ObjectDisposed")
       ELSE Go(t, next)
    /\ UNCHANGED <<runVars, guestVars>>

\* The delegate is pinned before the native call and stays so if that refuses.
RegisterTool(t) ==
    /\ Enter(t, "register", "calling")
    /\ pinned' = (pinned \/ object # "disposed")
    /\ UNCHANGED <<object, native, snapshot>>

AllowDomain(t) == Enter(t, "allow", "calling") /\ UNCHANGED <<objectVars, snapshot>>

GetOutputFiles(t) == Enter(t, "files", "calling") /\ UNCHANGED <<objectVars, snapshot>>

OutputPath(t) == Enter(t, "path", "calling") /\ UNCHANGED <<objectVars, snapshot>>

Snapshot(t) == Enter(t, "snapshot", "calling") /\ UNCHANGED <<objectVars, snapshot>>

\* IsDisposed is read before the native call, which takes a reference of its own.
Restore(t) == Enter(t, "restore", "restoring") /\ UNCHANGED <<objectVars, snapshot>>

RestoreNative(t) ==
    /\ pc[t] = "restoring"
    /\ IF snapshot = "open"
       THEN Go(t, "calling")
       ELSE Leave(t, "ObjectDisposed")
    /\ UNCHANGED <<objectVars, runVars, guestVars, snapshot>>

\* The native call answers; a snapshot is made or its deferred release done.
Return(t) ==
    /\ pc[t] = "calling"
    /\ \E why \in {"ok", "error"} :
        /\ Leave(t, why)
        /\ snapshot' = IF op[t] = "snapshot" /\ why = "ok" /\ snapshot = "none" THEN "open"
                       ELSE IF snapshot = "closing" THEN "freed" ELSE snapshot
    /\ UNCHANGED <<objectVars, runVars, guestVars>>

Restoring == \E t \in Threads : pc[t] = "calling" /\ op[t] = "restore"

\* SandboxSnapshot.Dispose does not take the lock.
SnapshotDispose ==
    /\ snapshot = "open"
    /\ snapshot' = IF Restoring THEN "closing" ELSE "freed"
    /\ UNCHANGED <<objectVars, callVars, runVars, guestVars>>

-----------------------------------------------------------------------------
(* Run.                                                                    *)

\* The locals of a run end with it.
Forget(t) ==
    /\ token' = [token EXCEPT ![t] = "none"]
    /\ registration' = [registration EXCEPT ![t] = "none"]
    /\ completed' = [completed EXCEPT ![t] = FALSE]
    /\ interrupt' = [interrupt EXCEPT ![t] = FALSE]

\* Empty or oversized code is refused; the token is read before anything native.
Run(t) ==
    /\ Acquire(t, "run")
    /\ \/ object = "disposed" /\ Leave(t, "ObjectDisposed") /\ Forget(t)
       \/ object # "disposed" /\ Leave(t, "error") /\ Forget(t)
       \/ object # "disposed" /\ token[t] = "cancelled" /\ Leave(t, "Canceled") /\ Forget(t)
       \/ /\ object # "disposed" /\ token[t] # "cancelled"
          /\ Go(t, IF token[t] = "none" THEN "check" ELSE "interrupt")
          /\ UNCHANGED <<token, registration, completed, interrupt>>
    /\ UNCHANGED <<objectVars, task, guestVars, snapshot>>

\* It builds the sandbox when it is not built, which may fail.
GetInterruptHandle(t) ==
    /\ pc[t] = "interrupt"
    /\ \/ Leave(t, "error") /\ Forget(t)
       \/ /\ Go(t, "register")
          /\ interrupt' = [interrupt EXCEPT ![t] = TRUE]
          /\ UNCHANGED <<token, registration, completed>>
    /\ UNCHANGED <<objectVars, task, guestVars, snapshot>>

\* A token that is cancelled already runs the callback in Register itself.
Register(t) ==
    /\ pc[t] = "register"
    /\ IF token[t] = "cancelled"
       THEN /\ task' = [task EXCEPT ![t] = "look"]
            /\ registration' = [registration EXCEPT ![t] = "off"]
       ELSE /\ registration' = [registration EXCEPT ![t] = "armed"]
            /\ UNCHANGED task
    /\ Go(t, "check")
    /\ UNCHANGED <<objectVars, token, completed, interrupt, guestVars, snapshot>>

\* The token is read again, then native execution starts.
StartNative(t) ==
    /\ pc[t] = "check"
    /\ IF token[t] = "cancelled"
       THEN /\ Go(t, "finally")
            /\ result' = "notStarted"
            /\ UNCHANGED <<guest, killPending>>
       ELSE /\ Go(t, "native")
            /\ guest' = "entering"
            /\ UNCHANGED <<killPending, result>>
    /\ UNCHANGED <<objectVars, runVars, snapshot>>

\* The rest of the call is the same for a run that ended by itself, was
\* interrupted or never started: the finally block.
NativeReturns(t) ==
    /\ pc[t] = "native"
    /\ guest = "ended"
    /\ Go(t, "finally")
    /\ guest' = "idle" /\ killPending' = FALSE
    /\ native' = IF native = "closing" THEN "freed" ELSE native
    /\ UNCHANGED <<object, pinned, runVars, result, snapshot>>

\* completed.Set() and registration.Dispose(), which waits for a callback that
\* has begun.
EndRegistration(t) ==
    /\ pc[t] = "finally"
    /\ registration[t] # "firing"
    /\ registration' = [registration EXCEPT ![t] = "off"]
    /\ completed' = [completed EXCEPT ![t] = TRUE]
    /\ Go(t, "join")
    /\ UNCHANGED <<objectVars, token, interrupt, task, guestVars, snapshot>>

\* Defect: the interruption is not waited for.
JoinNothing(t) ==
    /\ pc[t] = "join"
    /\ Go(t, "report")
    /\ UNCHANGED <<objectVars, runVars, guestVars, snapshot>>

Join(t) ==
    /\ pc[t] = "join"
    /\ task[t] = "none"
    /\ Go(t, "report")
    /\ UNCHANGED <<objectVars, runVars, guestVars, snapshot>>

\* ThrowIfError: a cancellation is reported as such only for the caller's token.
ThrowIfError(tok) ==
    CASE result = "notStarted" -> "Canceled"
      [] result = "cancelled"  -> IF tok = "cancelled" THEN "Canceled" ELSE "Unexpected"
      [] OTHER                 -> result

Report(t) ==
    /\ pc[t] = "report"
    /\ Leave(t, ThrowIfError(token[t]))
    /\ Forget(t)
    /\ result' = "none"
    /\ UNCHANGED <<objectVars, task, guest, killPending, snapshot>>

-----------------------------------------------------------------------------
(* Cancellation.                                                           *)

Cancel(t) ==
    /\ token[t] = "clear" /\ pc[t] # "idle"
    /\ token' = [token EXCEPT ![t] = "cancelled"]
    /\ registration' = [registration EXCEPT ![t] = IF @ = "armed" THEN "firing" ELSE @]
    /\ UNCHANGED <<objectVars, callVars, completed, interrupt, task, guestVars, snapshot>>

Callback(t) ==
    /\ registration[t] = "firing"
    /\ task' = [task EXCEPT ![t] = "look"]
    /\ registration' = [registration EXCEPT ![t] = "off"]
    /\ UNCHANGED <<objectVars, callVars, token, completed, interrupt, guestVars, snapshot>>

\* The loop of the task: look whether the run is over, then try to kill it.
Look(t) ==
    /\ task[t] = "look"
    /\ task' = [task EXCEPT ![t] = IF completed[t] THEN "none" ELSE "kill"]
    /\ UNCHANGED <<objectVars, callVars, token, registration, completed, interrupt, guestVars,
                   snapshot>>

\* InterruptHandle::kill: a guest that runs stops, a guest in a host callback
\* may stop when it returns, one that has not been entered is missed.
KillHits ==
    /\ guest = "running"
    /\ guest' = "ended" /\ result' = "cancelled"
    /\ UNCHANGED killPending

KillMisses ==
    /\ guest # "running"
    /\ killPending' \in {killPending, killPending \/ guest = "tool"}
    /\ UNCHANGED <<guest, result>>

\* Defect: kill() is tried once.
KillOnce(t) ==
    /\ task[t] = "kill"
    /\ task' = [task EXCEPT ![t] = "none"]
    /\ KillHits \/ KillMisses
    /\ UNCHANGED <<objectVars, callVars, token, registration, completed, interrupt, snapshot>>

Kill(t) ==
    /\ task[t] = "kill"
    /\ \/ KillHits /\ task' = [task EXCEPT ![t] = "none"]
       \/ KillMisses /\ task' = [task EXCEPT ![t] = "look"]
    /\ UNCHANGED <<objectVars, callVars, token, registration, completed, interrupt, snapshot>>

-----------------------------------------------------------------------------
(* The guest during native execution.                                      *)

Guest(from, to) ==
    /\ guest = from
    /\ guest' = to
    /\ UNCHANGED <<objectVars, callVars, runVars, snapshot>>

\* The sandbox is built and the guest entered, or that fails.
GuestEnters ==
    \/ Guest("entering", "running") /\ UNCHANGED <<killPending, result>>
    \/ Guest("entering", "ended") /\ result' = "error" /\ UNCHANGED killPending

GuestEnds ==
    /\ Guest("running", "ended")
    /\ result' \in {"ok", "error"}
    /\ UNCHANGED killPending

ToolStarts == Guest("running", "tool") /\ UNCHANGED <<killPending, result>>

ToolReturns ==
    /\ Guest("tool", IF killPending THEN "ended" ELSE "running")
    /\ result' = IF killPending THEN "cancelled" ELSE result
    /\ UNCHANGED killPending

-----------------------------------------------------------------------------
(* Dispose and the finalizer.                                              *)

Dispose(t) ==
    /\ Acquire(t, "dispose")
    /\ IF object = "disposed"
       THEN Leave(t, "ok") /\ UNCHANGED objectVars
       ELSE /\ Go(t, "unpin")
            /\ object' = "disposed" /\ native' = "freed" /\ UNCHANGED pinned
    /\ UNCHANGED <<runVars, guestVars, snapshot>>

FreePinnedDelegates(t) ==
    /\ pc[t] = "unpin"
    /\ pinned' = FALSE
    /\ Leave(t, "ok")
    /\ UNCHANGED <<object, native, runVars, guestVars, snapshot>>

\* The thread that runs the guest may enter the lock again: the SafeHandle is
\* in use, so its release waits for the native call.
DisposeInCallback ==
    /\ guest = "tool" /\ object = "live"
    /\ object' = "disposed" /\ native' = "closing" /\ pinned' = FALSE
    /\ UNCHANGED <<callVars, runVars, guestVars, snapshot>>

\* Defect: nothing keeps the object reachable during a native run.
FinalizeDuringRun ==
    /\ object = "live"
    /\ \A t \in Threads : pc[t] \in {"idle", "native"}
    /\ object' = "finalized" /\ pinned' = FALSE
    /\ native' = IF guest = "idle" THEN "freed" ELSE "closing"
    /\ UNCHANGED <<callVars, runVars, guestVars, snapshot>>

\* GC.KeepAlive(this) keeps the object reachable in every call.
Finalize ==
    /\ object \in {"live", "unreachable"} /\ native # "none"
    /\ \A t \in Threads : pc[t] = "idle"
    /\ object' = "finalized" /\ pinned' = FALSE /\ native' = "freed"
    /\ UNCHANGED <<callVars, runVars, guestVars, snapshot>>

\* The finalizer of an object without a handle dereferences null, which ends the process.
FinalizeNull ==
    /\ object = "unreachable" /\ native = "none"
    /\ object' = "crashed"
    /\ UNCHANGED <<native, pinned, callVars, runVars, guestVars, snapshot>>

-----------------------------------------------------------------------------
Init ==
    /\ object = "none" /\ native = "none" /\ pinned = FALSE
    /\ gate = NoThread
    /\ pc = [t \in Threads |-> "idle"]
    /\ op = [t \in Threads |-> "run"]
    /\ outcome = "ok"
    /\ token = [t \in Threads |-> "none"]
    /\ registration = [t \in Threads |-> "none"]
    /\ completed = [t \in Threads |-> FALSE]
    /\ interrupt = [t \in Threads |-> FALSE]
    /\ task = [t \in Threads |-> "none"]
    /\ guest = "idle" /\ killPending = FALSE /\ result = "none"
    /\ snapshot = "none"

ShortCall(t) ==
    \/ RegisterTool(t) \/ AllowDomain(t) \/ GetOutputFiles(t) \/ OutputPath(t)
    \/ Snapshot(t) \/ Restore(t) \/ RestoreNative(t) \/ Return(t)

RunStep(t) ==
    \/ Run(t) \/ GetInterruptHandle(t) \/ Register(t) \/ StartNative(t)
    \/ NativeReturns(t) \/ EndRegistration(t) \/ Join(t) \/ Report(t)

Host(t) ==
    \/ \E o \in Ops : Call(t, o, "none")
    \/ Call(t, "run", "clear")
    \/ Cancel(t)
    \/ Dispose(t) \/ FreePinnedDelegates(t)

GuestStep == GuestEnters \/ GuestEnds \/ ToolStarts \/ ToolReturns

Next ==
    \/ \E refused \in Refusals : Create(refused)
    \/ \E t \in Threads : Host(t) \/ ShortCall(t) \/ RunStep(t) \/ Callback(t) \/ Look(t) \/ Kill(t)
    \/ GuestStep
    \/ SnapshotDispose
    \/ DisposeInCallback \/ Finalize \/ FinalizeNull

Spec == Init /\ [][Next]_vars

(* Threads, timers and tasks are scheduled, initialization ends and tools  *)
(* return; the guest itself need not end.  A kill during a host callback   *)
(* can be remembered (lib.rs:127): of the kills, retried every 10 ms, not  *)
(* all of those that find the guest running or calling are in vain.        *)
KillCounts(t) == Kill(t) /\ (KillHits \/ killPending')

FairTo(t) ==
    /\ WF_vars(RunStep(t)) /\ WF_vars(ShortCall(t)) /\ WF_vars(FreePinnedDelegates(t))
    /\ WF_vars(Callback(t)) /\ WF_vars(Look(t)) /\ WF_vars(Kill(t))
    /\ SF_vars(KillCounts(t))

FairToGuest == WF_vars(GuestEnters) /\ WF_vars(ToolReturns)

Fairness == (\A t \in Threads : FairTo(t)) /\ FairToGuest

LiveSpec == Spec /\ Fairness
===============================================================================
