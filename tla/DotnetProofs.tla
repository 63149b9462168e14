------------------------------ MODULE DotnetProofs -----------------------------
(***************************************************************************)
(* Threads that share a .NET sandbox: a cancellation stays with its run,   *)
(* and native code uses nothing that was freed.                            *)
(***************************************************************************)
EXTENDS DotnetProps, TLAPS

-----------------------------------------------------------------------------
(* The inductive invariant.                                                *)

\* A call beyond its wait for the lock holds it.
Gated == \A t \in Threads : gate = t <=> pc[t] \notin {"idle", "waiting"}

\* The guest runs for the thread that holds the lock.
GuestInRun == guest # "idle" => gate \in Threads /\ pc[gate] = "native"

\* A callback that may still come finds its run before completed is set, with its
\* interrupt handle open; a task was started by it.
CallbackInRun ==
    \A t \in Threads :
        /\ pc[t] = "register" => interrupt[t]
        /\ registration[t] \in {"armed", "firing"} =>
              pc[t] \in {"check", "native", "finally"} /\ interrupt[t]
        /\ registration[t] = "firing" => token[t] = "cancelled"
        /\ task[t] # "none" =>
              /\ pc[t] \in {"check", "native", "finally", "join"} /\ interrupt[t]
              /\ token[t] = "cancelled"

\* A kill is remembered, and answered, for the run whose token was cancelled.
KillOfRun ==
    /\ killPending => gate \in Threads /\ pc[gate] = "native" /\ token[gate] = "cancelled"
    /\ result # "none" =>
          gate \in Threads /\ pc[gate] \in {"native", "finally", "join", "report"}
    /\ result = "cancelled" => token[gate] = "cancelled"

\* What native execution answered is there when it is reported.
Answered ==
    /\ guest = "ended" => result # "none"
    /\ \A t \in Threads : pc[t] \in {"finally", "join", "report"} => result # "none"

\* The delegates are unpinned after the handle was released.
UnpinnedLast ==
    \A t \in Threads : pc[t] = "unpin" => native = "freed" /\ object = "disposed"

SnapshotHeld == Restoring => snapshot \in {"open", "closing"}

IInv ==
    /\ TypeOK /\ Gated /\ GuestInRun /\ CallbackInRun /\ KillOfRun /\ Answered
    /\ UnpinnedLast /\ SnapshotHeld /\ CancelsOwnRun

\* Nobody has called anything yet.
LEMMA DotnetInit == Init => IInv
<1> SUFFICES ASSUME Init PROVE IInv OBVIOUS
<1>1. TypeOK
  <2>1. /\ op \in [Threads -> Ops]
        /\ pc \in [Threads -> {"idle", "waiting", "calling", "restoring", "unpin"} \cup InRun]
    BY DEF Init, Ops
  <2>2. /\ token \in [Threads -> {"none", "clear", "cancelled"}]
        /\ registration \in [Threads -> {"none", "armed", "firing", "off"}]
        /\ task \in [Threads -> {"none", "look", "kill"}]
    BY DEF Init
  <2>3. completed \in [Threads -> BOOLEAN] /\ interrupt \in [Threads -> BOOLEAN]
    BY DEF Init
  <2> QED BY <2>1, <2>2, <2>3 DEF Init, TypeOK
<1>2. Gated /\ GuestInRun /\ CallbackInRun /\ KillOfRun /\ Answered /\ UnpinnedLast
  BY DotnetAssumption DEF Init, Gated, GuestInRun, CallbackInRun, KillOfRun, Answered, UnpinnedLast
<1> QED BY <1>1, <1>2 DEF Init, IInv, SnapshotHeld, CancelsOwnRun, Restoring

-----------------------------------------------------------------------------
(* Steps.                                                                  *)

\* Outside of native execution and its report, none of it is left.
LEMMA NothingRuns ==
    ASSUME TypeOK, GuestInRun, KillOfRun,
           gate \in Threads => pc[gate] \notin {"native", "finally", "join", "report"}
    PROVE  guest = "idle" /\ ~killPending /\ result = "none"
  BY DEF TypeOK, GuestInRun, KillOfRun

\* How a run begins and ends keeps the shape of the state.
LEMMA RunTyped ==
    ASSUME TypeOK, NEW t \in Threads,
           \/ Forget(t) /\ \E why \in {"ok", "error", "ObjectDisposed", "Canceled"} : Leave(t, why)
           \/ /\ \E next \in InRun : Go(t, next)
              /\ UNCHANGED <<token, registration, completed>>
              /\ interrupt' = interrupt \/ interrupt' = [interrupt EXCEPT ![t] = TRUE],
           UNCHANGED <<objectVars, task, guestVars, snapshot>>
    PROVE  TypeOK'
<1>1. /\ pc' \in [Threads -> {"idle", "waiting", "calling", "restoring", "unpin"} \cup InRun]
      /\ op' \in [Threads -> Ops] /\ gate' \in Threads \cup {NoThread}
      /\ outcome' \in {"ok", "error", "ObjectDisposed", "Canceled", "Unexpected"}
  BY DEF TypeOK, Leave, Go, Ops
<1>2. /\ token' \in [Threads -> {"none", "clear", "cancelled"}]
      /\ registration' \in [Threads -> {"none", "armed", "firing", "off"}]
  BY DEF TypeOK, Forget
<1>3. completed' \in [Threads -> BOOLEAN]
  BY DEF TypeOK, Forget
<1>4. interrupt' \in [Threads -> BOOLEAN]
  BY DEF TypeOK, Forget
<1> QED BY <1>1, <1>2, <1>3, <1>4 DEF TypeOK, objectVars, guestVars

\* Calls begin and end, tokens are cancelled.
LEMMA HostKeeps == ASSUME IInv, NEW t \in Threads, Host(t) PROVE IInv'
<1> USE DotnetAssumption
    DEF IInv, TypeOK, Gated, GuestInRun, CallbackInRun, KillOfRun, Answered, UnpinnedLast,
        SnapshotHeld, CancelsOwnRun, Restoring, InRun, Ops, objectVars, callVars, runVars, guestVars
<1>1. ASSUME NEW o \in Ops, NEW tok \in {"none", "clear"}, Call(t, o, tok) PROVE IInv'
  BY <1>1 DEF Call
<1>2. CASE Cancel(t)
  BY <1>2 DEF Cancel
<1>3. CASE Dispose(t)
  BY <1>3 DEF Dispose, Acquire, Leave, Go
<1>4. CASE FreePinnedDelegates(t)
  <2>1. guest = "idle" /\ ~killPending /\ result = "none"
    BY <1>4, NothingRuns DEF FreePinnedDelegates
  <2>2. TypeOK'
    BY <1>4, <2>1 DEF FreePinnedDelegates, Leave
  <2>3. Gated'
    BY <1>4, <2>1 DEF FreePinnedDelegates, Leave
  <2>4. GuestInRun'
    BY <1>4, <2>1 DEF FreePinnedDelegates, Leave
  <2>5. CallbackInRun'
    BY <1>4, <2>1 DEF FreePinnedDelegates, Leave
  <2>6. KillOfRun'
    BY <1>4, <2>1 DEF FreePinnedDelegates, Leave
  <2>7. Answered'
    BY <1>4, <2>1 DEF FreePinnedDelegates, Leave
  <2>8. UnpinnedLast'
    BY <1>4, <2>1 DEF FreePinnedDelegates, Leave
  <2>9. SnapshotHeld'
    BY <1>4, <2>1 DEF FreePinnedDelegates, Leave
  <2>10. CancelsOwnRun'
    BY <1>4, <2>1 DEF FreePinnedDelegates, Leave
  <2> QED BY <2>2, <2>3, <2>4, <2>5, <2>6, <2>7, <2>8, <2>9, <2>10
<1> QED BY <1>1, <1>2, <1>3, <1>4 DEF Host

\* Calls other than run.
LEMMA ShortCallKeeps == ASSUME IInv, NEW t \in Threads, ShortCall(t) PROVE IInv'
<1> USE DotnetAssumption
    DEF IInv, TypeOK, Gated, GuestInRun, CallbackInRun, KillOfRun, Answered, UnpinnedLast,
        SnapshotHeld, CancelsOwnRun, Restoring, InRun, Ops, objectVars, callVars, runVars, guestVars
<1>1. CASE RegisterTool(t)
  BY <1>1 DEF RegisterTool, Enter, Acquire, Leave, Go
<1>2. CASE AllowDomain(t)
  BY <1>2 DEF AllowDomain, Enter, Acquire, Leave, Go
<1>3. CASE GetOutputFiles(t)
  BY <1>3 DEF GetOutputFiles, Enter, Acquire, Leave, Go
<1>4. CASE OutputPath(t)
  BY <1>4 DEF OutputPath, Enter, Acquire, Leave, Go
<1>5. CASE Snapshot(t)
  BY <1>5 DEF Snapshot, Enter, Acquire, Leave, Go
<1>6. CASE Restore(t)
  BY <1>6 DEF Restore, Enter, Acquire, Leave, Go
<1>7. CASE RestoreNative(t)
  BY <1>7 DEF RestoreNative, Leave, Go
<1>8. CASE Return(t)
  BY <1>8 DEF Return, Leave
<1> QED BY <1>1, <1>2, <1>3, <1>4, <1>5, <1>6, <1>7, <1>8 DEF ShortCall

\* A run.
LEMMA RunStepKeeps == ASSUME IInv, NEW t \in Threads, RunStep(t) PROVE IInv'
<1> USE DotnetAssumption
    DEF IInv, TypeOK, Gated, GuestInRun, CallbackInRun, KillOfRun, Answered, UnpinnedLast,
        SnapshotHeld, CancelsOwnRun, Restoring, InRun, Ops, objectVars, callVars, runVars, guestVars
<1>1. CASE Run(t)
  <2>1. guest = "idle" /\ ~killPending /\ result = "none"
    BY <1>1, NothingRuns DEF Run, Acquire
  <2>2. TypeOK'
    BY <1>1, RunTyped DEF Run
  <2>3. Gated'
    BY <1>1, <2>1 DEF Run, Acquire, Leave, Go, Forget
  <2>4. GuestInRun'
    BY <1>1, <2>1 DEF Run, Acquire, Leave, Go, Forget
  <2>5. CallbackInRun'
    BY <1>1, <2>1 DEF Run, Acquire, Leave, Go, Forget
  <2>6. KillOfRun'
    BY <1>1, <2>1 DEF Run, Acquire, Leave, Go, Forget
  <2>7. Answered'
    BY <1>1, <2>1 DEF Run, Acquire, Leave, Go, Forget
  <2>8. UnpinnedLast'
    BY <1>1, <2>1 DEF Run, Acquire, Leave, Go, Forget
  <2>9. SnapshotHeld'
    BY <1>1, <2>1 DEF Run, Acquire, Leave, Go, Forget
  <2>10. CancelsOwnRun'
    BY <1>1, <2>1 DEF Run, Acquire, Leave, Go, Forget
  <2> QED BY <2>2, <2>3, <2>4, <2>5, <2>6, <2>7, <2>8, <2>9, <2>10
<1>2. CASE GetInterruptHandle(t)
  <2>1. guest = "idle" /\ ~killPending /\ result = "none"
    BY <1>2, NothingRuns DEF GetInterruptHandle
  <2>2. TypeOK'
    BY <1>2, RunTyped DEF GetInterruptHandle
  <2>3. Gated'
    BY <1>2, <2>1 DEF GetInterruptHandle, Leave, Go, Forget
  <2>4. GuestInRun'
    BY <1>2, <2>1 DEF GetInterruptHandle, Leave, Go, Forget
  <2>5. CallbackInRun'
    BY <1>2, <2>1 DEF GetInterruptHandle, Leave, Go, Forget
  <2>6. KillOfRun'
    BY <1>2, <2>1 DEF GetInterruptHandle, Leave, Go, Forget
  <2>7. Answered'
    BY <1>2, <2>1 DEF GetInterruptHandle, Leave, Go, Forget
  <2>8. UnpinnedLast'
    BY <1>2, <2>1 DEF GetInterruptHandle, Leave, Go, Forget
  <2>9. SnapshotHeld'
    BY <1>2, <2>1 DEF GetInterruptHandle, Leave, Go, Forget
  <2>10. CancelsOwnRun'
    BY <1>2, <2>1 DEF GetInterruptHandle, Leave, Go, Forget
  <2> QED BY <2>2, <2>3, <2>4, <2>5, <2>6, <2>7, <2>8, <2>9, <2>10
<1>3. CASE Register(t)
  BY <1>3 DEF Register, Go
<1>4. CASE StartNative(t)
  BY <1>4 DEF StartNative, Go
<1>5. CASE NativeReturns(t)
  <2>1. TypeOK'
    BY <1>5 DEF NativeReturns, Go
  <2>2. Gated'
    BY <1>5 DEF NativeReturns, Go
  <2>3. GuestInRun'
    BY <1>5 DEF NativeReturns, Go
  <2>4. CallbackInRun'
    BY <1>5 DEF NativeReturns, Go
  <2>5. KillOfRun'
    BY <1>5 DEF NativeReturns, Go
  <2>6. Answered'
    BY <1>5 DEF NativeReturns, Go
  <2>7. UnpinnedLast'
    BY <1>5 DEF NativeReturns, Go
  <2>8. SnapshotHeld'
    BY <1>5 DEF NativeReturns, Go
  <2>9. CancelsOwnRun'
    BY <1>5 DEF NativeReturns, Go
  <2> QED BY <2>1, <2>2, <2>3, <2>4, <2>5, <2>6, <2>7, <2>8, <2>9
<1>6. CASE EndRegistration(t)
  BY <1>6 DEF EndRegistration, Go
<1>7. CASE Join(t)
  BY <1>7 DEF Join, Go
<1>8. CASE Report(t)
  BY <1>8 DEF Report, Leave, Forget, ThrowIfError
<1> QED BY <1>1, <1>2, <1>3, <1>4, <1>5, <1>6, <1>7, <1>8 DEF RunStep

\* The callback of a token, and the task it starts.
LEMMA CancellationKeeps == ASSUME IInv, NEW t \in Threads, Callback(t) \/ Look(t) \/ Kill(t) PROVE IInv'
<1> USE DotnetAssumption
    DEF IInv, TypeOK, Gated, GuestInRun, CallbackInRun, KillOfRun, Answered, UnpinnedLast,
        SnapshotHeld, CancelsOwnRun, Restoring, InRun, Ops, objectVars, callVars, runVars, guestVars
<1>1. CASE Callback(t)
  BY <1>1 DEF Callback
<1>2. CASE Look(t)
  BY <1>2 DEF Look
<1>3. CASE Kill(t)
  BY <1>3 DEF Kill, KillHits, KillMisses
<1> QED BY <1>1, <1>2, <1>3 DEF IInv

\* The guest.
LEMMA GuestStepKeeps == ASSUME IInv, GuestStep PROVE IInv'
<1> USE DotnetAssumption
    DEF IInv, TypeOK, Gated, GuestInRun, CallbackInRun, KillOfRun, Answered, UnpinnedLast,
        SnapshotHeld, CancelsOwnRun, Restoring, InRun, Ops, objectVars, callVars, runVars, guestVars
<1>1. CASE GuestEnters
  BY <1>1 DEF GuestEnters, Guest
<1>2. CASE GuestEnds
  BY <1>2 DEF GuestEnds, Guest
<1>3. CASE ToolStarts
  BY <1>3 DEF ToolStarts, Guest
<1>4. CASE ToolReturns
  BY <1>4 DEF ToolReturns, Guest
<1> QED BY <1>1, <1>2, <1>3, <1>4 DEF GuestStep

\* Creation, and what disposes and finalizes.
LEMMA LifeKeeps ==
    ASSUME IInv,
           \/ SnapshotDispose \/ DisposeInCallback \/ Finalize \/ FinalizeNull
           \/ \E refused \in Refusals : Create(refused)
    PROVE  IInv'
<1> USE DotnetAssumption
    DEF IInv, TypeOK, Gated, GuestInRun, CallbackInRun, KillOfRun, Answered, UnpinnedLast,
        SnapshotHeld, CancelsOwnRun, Restoring, InRun, Ops, objectVars, callVars, runVars, guestVars
<1>1. CASE SnapshotDispose
  BY <1>1 DEF SnapshotDispose
<1>2. CASE DisposeInCallback
  BY <1>2 DEF DisposeInCallback
<1>3. CASE Finalize
  BY <1>3 DEF Finalize
<1>4. CASE \E refused \in Refusals : Create(refused)
  BY <1>4 DEF Create
<1>5. CASE FinalizeNull
  BY <1>5 DEF FinalizeNull
<1> QED BY <1>1, <1>2, <1>3, <1>4, <1>5 DEF IInv

\* Every step of a thread, of the guest and of the runtime keeps the invariant.
LEMMA DotnetStep == IInv /\ [Next]_vars => IInv'
<1> SUFFICES ASSUME IInv, [Next]_vars PROVE IInv' OBVIOUS
<1>1. CASE UNCHANGED vars
  BY <1>1
  DEF vars, IInv, TypeOK, Gated, GuestInRun, CallbackInRun, KillOfRun, Answered, UnpinnedLast,
      SnapshotHeld, CancelsOwnRun, Restoring, objectVars, callVars, runVars, guestVars
<1> QED
  BY <1>1, HostKeeps, ShortCallKeeps, RunStepKeeps, CancellationKeeps, GuestStepKeeps, LifeKeeps
  DEF Next

\* The invariant holds whatever the threads do (Sandbox.cs).
LEMMA DotnetInvariant == Spec => []IInv
  BY DotnetInit, DotnetStep, PTL DEF Spec

-----------------------------------------------------------------------------
(* Theorems.                                                               *)

\* The shape of the state of a Sandbox object, whatever its threads do.
THEOREM DotnetTypeCorrect == Spec => []TypeOK
<1>1. IInv => TypeOK BY DEF IInv
<1> QED BY <1>1, DotnetInvariant, PTL

\* No run reports a cancellation that was another's (ThrowIfError): the task that
\* kills is waited for before its run leaves the lock.
THEOREM CancelsOwnRunCorrect == Spec => []CancelsOwnRun
<1>1. IInv => CancelsOwnRun BY DEF IInv
<1> QED BY <1>1, DotnetInvariant, PTL

\* Who unpins the delegates has released the handle, or is a callback of the run.
LEMMA UnpinsLast ==
    ASSUME IInv, [Next]_vars, pinned, ~pinned'
    PROVE  native' = "freed" \/ guest = "tool"
<1> USE DEF objectVars, vars
<1>1. ASSUME NEW t \in Threads, FreePinnedDelegates(t) PROVE native' = "freed"
  BY <1>1 DEF FreePinnedDelegates, IInv, UnpinnedLast
<1>2. ASSUME NEW t \in Threads, Host(t) PROVE native' = "freed"
  BY <1>1, <1>2 DEF Host, Call, Cancel, Dispose
<1>3. ASSUME NEW t \in Threads, ShortCall(t) PROVE FALSE
  BY <1>3 DEF ShortCall, RegisterTool, AllowDomain, GetOutputFiles, OutputPath, Snapshot, Restore,
              RestoreNative, Return
<1>4. ASSUME NEW t \in Threads, RunStep(t) \/ Callback(t) \/ Look(t) \/ Kill(t) PROVE FALSE
  BY <1>4 DEF RunStep, Run, GetInterruptHandle, Register, StartNative, NativeReturns,
              EndRegistration, Join, Report, Callback, Look, Kill
<1>5. ASSUME GuestStep \/ SnapshotDispose \/ FinalizeNull \/ \E refused \in Refusals : Create(refused)
      PROVE  FALSE
  BY <1>5 DEF GuestStep, GuestEnters, GuestEnds, ToolStarts, ToolReturns, Guest, SnapshotDispose,
              FinalizeNull, Create
<1> QED BY <1>2, <1>3, <1>4, <1>5 DEF Next, DisposeInCallback, Finalize

\* Who frees the native sandbox finds no call in it.
LEMMA FreedUnused ==
    ASSUME IInv, IInv', [Next]_vars, native # "freed", native' = "freed"
    PROVE  guest' = "idle" /\ \A t \in Threads : pc'[t] \notin {"calling", "native"}
<1> USE DotnetAssumption DEF objectVars, vars
<1>1. ASSUME NEW t \in Threads, Dispose(t)
      PROVE  \A u \in Threads : pc'[u] \notin {"calling", "native"}
  <2>1. pc[t] = "waiting" /\ gate = NoThread /\ pc'[t] \in {"idle", "unpin"}
    BY <1>1 DEF Dispose, Acquire, Leave, Go, IInv, TypeOK
  <2>2. \A u \in Threads : u # t => pc'[u] = pc[u] /\ pc[u] \in {"idle", "waiting"}
    BY <1>1, <2>1 DEF Dispose, Leave, Go, IInv, TypeOK, Gated
  <2> QED BY <2>1, <2>2
<1>2. ASSUME NEW t \in Threads, NativeReturns(t)
      PROVE  \A u \in Threads : pc'[u] \notin {"calling", "native"}
  <2>1. pc'[t] = "finally" /\ gate = t
    BY <1>2 DEF NativeReturns, Go, IInv, TypeOK, Gated
  <2>2. \A u \in Threads : u # t => pc'[u] = pc[u] /\ pc[u] \in {"idle", "waiting"}
    BY <1>2, <2>1 DEF NativeReturns, Go, IInv, TypeOK, Gated
  <2> QED BY <2>1, <2>2
<1>3. ASSUME Finalize PROVE \A u \in Threads : pc'[u] \notin {"calling", "native"}
  BY <1>3 DEF Finalize, callVars
<1>4. ASSUME NEW t \in Threads, Host(t) PROVE Dispose(t)
  BY <1>4 DEF Host, Call, Cancel, FreePinnedDelegates
<1>5. ASSUME NEW t \in Threads, ShortCall(t) PROVE FALSE
  BY <1>5 DEF ShortCall, RegisterTool, AllowDomain, GetOutputFiles, OutputPath, Snapshot, Restore,
              RestoreNative, Return
<1>6. ASSUME NEW t \in Threads, RunStep(t) \/ Callback(t) \/ Look(t) \/ Kill(t) PROVE NativeReturns(t)
  BY <1>6 DEF RunStep, Run, GetInterruptHandle, Register, StartNative, EndRegistration, Join, Report,
              Callback, Look, Kill
<1>7. ASSUME \/ GuestStep \/ SnapshotDispose \/ DisposeInCallback \/ FinalizeNull
             \/ \E refused \in Refusals : Create(refused)
      PROVE  FALSE
  BY <1>7 DEF GuestStep, GuestEnters, GuestEnds, ToolStarts, ToolReturns, Guest, SnapshotDispose,
              DisposeInCallback, FinalizeNull, Create
<1>8. \A u \in Threads : pc'[u] \notin {"calling", "native"}
  BY <1>1, <1>2, <1>3, <1>4, <1>5, <1>6, <1>7 DEF Next
<1> QED BY <1>8 DEF IInv, TypeOK, GuestInRun

\* Nothing is freed under native code: neither the native sandbox (Sandbox.Dispose and
\* the finalizer) nor, but for a tool that disposes its own sandbox, the delegates, nor
\* the snapshot of a restore (SandboxSnapshot.Dispose).
THEOREM NothingFreedInUseCorrect == Spec => NothingFreedInUse
<1> DEFINE Unused == guest' = "idle" /\ \A t \in Threads : pc'[t] \notin {"calling", "native"}
<1>1. IInv /\ IInv' /\ [Next]_vars =>
        [/\ native # "freed" /\ native' = "freed" => Unused
         /\ pinned /\ ~pinned' => native' = "freed" \/ guest = "tool"
         /\ Restoring' => snapshot' # "freed"]_vars
  <2> SUFFICES ASSUME IInv, IInv', [Next]_vars
               PROVE  /\ native # "freed" /\ native' = "freed" => Unused
                      /\ pinned /\ ~pinned' => native' = "freed" \/ guest = "tool"
                      /\ Restoring' => snapshot' # "freed"
    OBVIOUS
  <2>1. native # "freed" /\ native' = "freed" => Unused
    BY FreedUnused
  <2>2. pinned /\ ~pinned' => native' = "freed" \/ guest = "tool"
    BY UnpinsLast
  <2>3. Restoring' => snapshot' # "freed"
    BY DEF IInv, SnapshotHeld
  <2> QED BY <2>1, <2>2, <2>3
<1> QED BY <1>1, DotnetInvariant, PTL DEF Spec, NothingFreedInUse

-----------------------------------------------------------------------------
(* A cancelled run ends.                                                   *)

\* When each of those whose steps end a run can go on: the guards of its actions.
RunMoves(t) ==
    \/ pc[t] = "waiting" /\ op[t] = "run" /\ gate = NoThread
    \/ pc[t] \in {"interrupt", "register", "check", "report"}
    \/ pc[t] = "native" /\ guest = "ended"
    \/ pc[t] = "finally" /\ registration[t] # "firing"
    \/ pc[t] = "join" /\ task[t] = "none"

KillMayCount(t) == task[t] = "kill" /\ (guest \in {"running", "tool"} \/ killPending)

\* A guard says when its action can be taken.
GuardsEnable ==
    /\ \A t \in Threads :
        /\ RunMoves(t) <=> ENABLED <<RunStep(t)>>_vars
        /\ registration[t] = "firing" <=> ENABLED <<Callback(t)>>_vars
        /\ task[t] = "look" <=> ENABLED <<Look(t)>>_vars
        /\ task[t] = "kill" <=> ENABLED <<Kill(t)>>_vars
        /\ KillMayCount(t) <=> ENABLED <<KillCounts(t)>>_vars
    /\ guest = "entering" <=> ENABLED <<GuestEnters>>_vars
    /\ guest = "tool" <=> ENABLED <<ToolReturns>>_vars

\* Fairness, with the guards in the place of ENABLED: who can go on for good does go
\* on, and of the kills that may count not all are in vain.
Scheduled(t) ==
    /\ []<>~RunMoves(t) \/ []<><<RunStep(t)>>_vars
    /\ []<>~(registration[t] = "firing") \/ []<><<Callback(t)>>_vars
    /\ []<>~(task[t] = "look") \/ []<><<Look(t)>>_vars
    /\ []<>~(task[t] = "kill") \/ []<><<Kill(t)>>_vars
    /\ <>[]~KillMayCount(t) \/ []<><<KillCounts(t)>>_vars

GuestScheduled ==
    /\ []<>~(guest = "entering") \/ []<><<GuestEnters>>_vars
    /\ []<>~(guest = "tool") \/ []<><<ToolReturns>>_vars

\* That is what the fairness of the specification says.
LEMMA FairThread ==
    ASSUME NEW t \in Threads
    PROVE  FairTo(t) /\ []GuardsEnable => Scheduled(t)
<1>1. GuardsEnable =>
        /\ RunMoves(t) <=> ENABLED <<RunStep(t)>>_vars
        /\ registration[t] = "firing" <=> ENABLED <<Callback(t)>>_vars
        /\ task[t] = "look" <=> ENABLED <<Look(t)>>_vars
        /\ task[t] = "kill" <=> ENABLED <<Kill(t)>>_vars
        /\ KillMayCount(t) <=> ENABLED <<KillCounts(t)>>_vars
  BY DEF GuardsEnable
<1> QED BY <1>1, PTL DEF FairTo, Scheduled

\* So it is for the guest.
LEMMA FairGuest == FairToGuest /\ []GuardsEnable => GuestScheduled
<1>1. GuardsEnable => /\ guest = "entering" <=> ENABLED <<GuestEnters>>_vars
                      /\ guest = "tool" <=> ENABLED <<ToolReturns>>_vars
  BY DEF GuardsEnable
<1> QED BY <1>1, PTL DEF FairToGuest, GuestScheduled

\* A token that is cancelled has its callback or its task, until the guest ended;
\* completed is set when the registration is disposed of; a kill is remembered for
\* the end of a host callback.
CancelInv ==
    /\ \A t \in Threads :
        /\ pc[t] = "native" => guest # "idle"
        /\ completed[t] <=> pc[t] \in {"join", "report"}
        /\ token[t] = "cancelled" => registration[t] # "armed"
        /\ pc[t] \in {"check", "native"} /\ token[t] = "clear" => registration[t] = "armed"
        /\ pc[t] \in {"check", "native"} /\ token[t] = "cancelled" =>
              registration[t] = "firing" \/ task[t] # "none" \/ guest = "ended"
    /\ killPending => guest \in {"tool", "ended"}

\* Nobody has been cancelled yet.
LEMMA CancelInit == Init => CancelInv
  BY DEF Init, CancelInv

\* Every step keeps a cancellation alive until the guest has ended.
LEMMA CancelStep == IInv /\ CancelInv /\ [Next]_vars => CancelInv'
<1> SUFFICES ASSUME IInv, CancelInv, [Next]_vars PROVE CancelInv' OBVIOUS
<1> USE DotnetAssumption
    DEF IInv, CancelInv, TypeOK, Gated, GuestInRun, CallbackInRun, Leave, Go, Forget, InRun,
        objectVars, callVars, runVars, guestVars
<1>1. ASSUME NEW t \in Threads, Host(t) PROVE CancelInv'
  <2>1. ASSUME NEW o \in Ops, NEW tok \in {"none", "clear"}, Call(t, o, tok) PROVE CancelInv'
    BY <2>1 DEF Call
  <2>2. CASE Cancel(t)
    BY <2>2 DEF Cancel
  <2>3. CASE Dispose(t) \/ FreePinnedDelegates(t)
    BY <2>3 DEF Dispose, Acquire, FreePinnedDelegates
  <2> QED BY <1>1, <2>1, <2>2, <2>3 DEF Host, Ops
<1>2. ASSUME NEW t \in Threads, ShortCall(t) PROVE CancelInv'
  BY <1>2 DEF ShortCall, RegisterTool, AllowDomain, GetOutputFiles, OutputPath, Snapshot, Restore,
              RestoreNative, Return, Enter, Acquire
<1>3. ASSUME NEW t \in Threads, RunStep(t) PROVE CancelInv'
  <2>1. CASE Run(t)
    BY <2>1 DEF Run, Acquire
  <2>2. CASE GetInterruptHandle(t)
    BY <2>2 DEF GetInterruptHandle
  <2>3. CASE Register(t)
    BY <2>3 DEF Register
  <2>4. CASE StartNative(t)
    BY <2>4 DEF StartNative
  <2>5. CASE NativeReturns(t)
    BY <2>5 DEF NativeReturns
  <2>6. CASE EndRegistration(t)
    BY <2>6 DEF EndRegistration
  <2>7. CASE Join(t) \/ Report(t)
    BY <2>7 DEF Join, Report
  <2> QED BY <1>3, <2>1, <2>2, <2>3, <2>4, <2>5, <2>6, <2>7 DEF RunStep
<1>4. ASSUME NEW t \in Threads, Callback(t) \/ Look(t) \/ Kill(t) PROVE CancelInv'
  BY <1>4 DEF Callback, Look, Kill, KillHits, KillMisses
<1>5. CASE GuestStep
  BY <1>5 DEF GuestStep, GuestEnters, GuestEnds, ToolStarts, ToolReturns, Guest
<1>6. CASE \/ SnapshotDispose \/ DisposeInCallback \/ Finalize \/ FinalizeNull
           \/ \E refused \in Refusals : Create(refused)
  BY <1>6 DEF SnapshotDispose, DisposeInCallback, Finalize, FinalizeNull, Create
<1>7. CASE UNCHANGED vars
  BY <1>7 DEF vars
<1> QED BY <1>1, <1>2, <1>3, <1>4, <1>5, <1>6, <1>7 DEF Next

\* The invariant holds in every reachable state.
LEMMA CancelInvariant == Spec => [](IInv /\ CancelInv)
  BY DotnetInit, DotnetStep, CancelInit, CancelStep, PTL DEF Spec

\* What the run of a thread shows of itself: nobody else changes it in a run whose
\* token is cancelled.
LEMMA OwnRun ==
    ASSUME IInv, [Next]_vars, NEW t \in Threads, token[t] = "cancelled",
           pc[t] \in {"native", "finally", "join", "report"}
    PROVE  \/ RunStep(t) \/ Callback(t) \/ Look(t) \/ Kill(t) \/ GuestStep
           \/ /\ UNCHANGED <<guest, killPending>>
              /\ pc'[t] = pc[t] /\ token'[t] = token[t] /\ registration'[t] = registration[t]
              /\ task'[t] = task[t]
<1> USE DotnetAssumption DEF IInv, TypeOK, Gated, CallbackInRun, objectVars, callVars, runVars, guestVars
<1> DEFINE Calm == /\ UNCHANGED <<guest, killPending>>
                   /\ pc'[t] = pc[t] /\ token'[t] = token[t] /\ registration'[t] = registration[t]
                   /\ task'[t] = task[t]
<1>1. gate = t
  OBVIOUS
<1>2. ASSUME NEW u \in Threads, Host(u) PROVE Calm
  <2>1. ASSUME NEW o \in Ops, NEW tok \in {"none", "clear"}, Call(u, o, tok) PROVE Calm
    BY <2>1 DEF Call
  <2>2. CASE Cancel(u)
    BY <2>2 DEF Cancel
  <2>3. ~Dispose(u) /\ ~FreePinnedDelegates(u)
    BY <1>1 DEF Dispose, Acquire, FreePinnedDelegates
  <2> QED BY <1>2, <2>1, <2>2, <2>3 DEF Host, Ops
<1>3. ASSUME NEW u \in Threads, ShortCall(u) PROVE FALSE
  BY <1>1, <1>3 DEF ShortCall, RegisterTool, AllowDomain, GetOutputFiles, OutputPath, Snapshot, Restore,
              RestoreNative, Return, Enter, Acquire
<1>4. ASSUME NEW u \in Threads, u # t, RunStep(u) PROVE FALSE
  BY <1>1, <1>4 DEF RunStep, Run, GetInterruptHandle, Register, StartNative, NativeReturns,
              EndRegistration, Join, Report, Acquire
<1>5. ASSUME NEW u \in Threads, u # t, Callback(u) \/ Look(u) \/ Kill(u) PROVE FALSE
  BY <1>1, <1>5 DEF Callback, Look, Kill
<1>6. ASSUME \/ SnapshotDispose \/ DisposeInCallback \/ Finalize \/ FinalizeNull
             \/ \E refused \in Refusals : Create(refused)
      PROVE  Calm
  BY <1>6 DEF SnapshotDispose, DisposeInCallback, Finalize, FinalizeNull, Create
<1>7. CASE UNCHANGED vars
  BY <1>7 DEF vars
<1> QED BY <1>2, <1>3, <1>4, <1>5, <1>6, <1>7 DEF Next

\* Where a cancelled run stands, and who is to end it.
Running(t) == pc[t] = "native" /\ token[t] = "cancelled" /\ guest \in {"entering", "running", "tool"}
Entering(t) == Running(t) /\ guest = "entering"
Entered(t) == Running(t) /\ guest # "entering"
Called(t)  == Running(t) /\ registration[t] = "firing"
Looking(t) == Running(t) /\ registration[t] # "firing" /\ task[t] = "look"
Killing(t) == Running(t) /\ registration[t] # "firing" /\ task[t] = "kill"
Pending(t) == Running(t) /\ guest = "tool" /\ killPending
Over(t)    == pc[t] = "native" /\ token[t] = "cancelled" /\ guest = "ended"

\* A run whose guest has not ended has somebody who is to kill it.
LEMMA SomebodyKills ==
    ASSUME IInv, CancelInv, NEW t \in Threads
    PROVE  /\ pc[t] = "native" /\ token[t] = "cancelled" => Running(t) \/ Over(t)
           /\ Running(t) => Called(t) \/ Looking(t) \/ Killing(t)
           /\ Killing(t) /\ Entered(t) => KillMayCount(t)
           /\ Over(t) => RunMoves(t)
  BY DEF IInv, TypeOK, CancelInv, Running, Entered, Called, Looking, Killing, Over, RunMoves, KillMayCount

\* What the steps of a run whose guest has not ended lead to.
LEMMA RunningSteps ==
    ASSUME IInv, CancelInv, [Next]_vars, NEW t \in Threads, Running(t)
    PROVE  /\ Running(t)' \/ Over(t)'
           /\ Entered(t) => Entered(t)' \/ Over(t)'
           /\ Called(t) => Called(t)' \/ Looking(t)' \/ Over(t)'
           /\ Looking(t) => Looking(t)' \/ Killing(t)' \/ Over(t)'
           /\ Killing(t) => Killing(t)' \/ Looking(t)' \/ Over(t)'
           /\ Pending(t) => Pending(t)' \/ Over(t)'
           /\ GuestEnters => ~Entering(t)'
           /\ Callback(t) => ~Called(t)'
           /\ Look(t) => ~Looking(t)'
           /\ Kill(t) => ~Killing(t)'
           /\ KillCounts(t) => Pending(t)' \/ Over(t)'
           /\ ToolReturns => ~Pending(t)'
<1> USE DEF IInv, TypeOK, Running, Entering, Entered, Called, Looking, Killing, Pending, Over,
            objectVars, callVars, runVars, guestVars
<1>1. \/ RunStep(t) \/ Callback(t) \/ Look(t) \/ Kill(t) \/ GuestStep
      \/ /\ UNCHANGED <<guest, killPending>>
         /\ pc'[t] = pc[t] /\ token'[t] = token[t] /\ registration'[t] = registration[t]
         /\ task'[t] = task[t]
  BY OwnRun
<1>2. ~RunStep(t)
  BY DEF RunStep, Run, Acquire, GetInterruptHandle, Register, StartNative, NativeReturns,
         EndRegistration, Join, Report
<1>3. /\ Running(t)' \/ Over(t)'
      /\ Entered(t) => Entered(t)' \/ Over(t)'
      /\ Called(t) => Called(t)' \/ Looking(t)' \/ Over(t)'
      /\ Looking(t) => Looking(t)' \/ Killing(t)' \/ Over(t)'
      /\ Killing(t) => Killing(t)' \/ Looking(t)' \/ Over(t)'
      /\ Pending(t) => Pending(t)' \/ Over(t)'
  <2>1. CASE Callback(t)
    BY <2>1 DEF Callback
  <2>2. CASE Look(t)
    BY <2>2 DEF Look, CancelInv
  <2>3. CASE Kill(t)
    BY <2>3 DEF Kill, KillHits, KillMisses
  <2>4. CASE GuestStep
    BY <2>4 DEF GuestStep, GuestEnters, GuestEnds, ToolStarts, ToolReturns, Guest
  <2>5. CASE /\ UNCHANGED <<guest, killPending>>
             /\ pc'[t] = pc[t] /\ token'[t] = token[t] /\ registration'[t] = registration[t]
             /\ task'[t] = task[t]
    BY <2>5
  <2> QED BY <1>1, <1>2, <2>1, <2>2, <2>3, <2>4, <2>5
<1>4. /\ GuestEnters => ~Entering(t)'
      /\ Callback(t) => ~Called(t)'
      /\ ToolReturns => ~Pending(t)'
  BY DEF GuestEnters, Guest, Callback, ToolReturns
<1>5. /\ Look(t) => ~Looking(t)'
      /\ Kill(t) => ~Killing(t)'
  BY DEF Look, Kill
<1>6. KillCounts(t) => Pending(t)' \/ Over(t)'
  BY DEF KillCounts, Kill, KillHits, KillMisses, CancelInv
<1> QED BY <1>3, <1>4, <1>5, <1>6

\* A cancelled run is killed, whatever its guest does.
LEMMA RunningEnds ==
    ASSUME NEW t \in Threads
    PROVE  Spec /\ Scheduled(t) /\ GuestScheduled => (Running(t) ~> Over(t))
<1>1. IInv /\ CancelInv /\ [Next]_vars =>
        /\ Running(t) => Running(t)' \/ Over(t)'
        /\ Entered(t) => Entered(t)' \/ Over(t)'
        /\ Called(t) => Called(t)' \/ Looking(t)' \/ Over(t)'
        /\ Looking(t) => Looking(t)' \/ Killing(t)' \/ Over(t)'
        /\ Killing(t) => Killing(t)' \/ Looking(t)' \/ Over(t)'
        /\ Pending(t) => Pending(t)' \/ Over(t)'
  BY RunningSteps DEF Entered, Called, Looking, Killing, Pending
<1>2. IInv /\ CancelInv /\ Running(t) =>
        /\ <<GuestEnters>>_vars => ~Entering(t)'
        /\ <<Callback(t)>>_vars => ~Called(t)'
        /\ <<Look(t)>>_vars => ~Looking(t)'
        /\ <<Kill(t)>>_vars => ~Killing(t)'
        /\ <<KillCounts(t)>>_vars => Pending(t)' \/ Over(t)'
        /\ <<ToolReturns>>_vars => ~Pending(t)'
  <2>1. GuestEnters \/ Callback(t) \/ Look(t) \/ Kill(t) \/ KillCounts(t) \/ ToolReturns => [Next]_vars
    BY DEF Next, GuestStep, KillCounts
  <2> QED BY <2>1, RunningSteps
<1>3. IInv /\ CancelInv =>
        /\ Running(t) => Called(t) \/ Looking(t) \/ Killing(t)
        /\ Killing(t) /\ Entered(t) => KillMayCount(t)
  BY SomebodyKills
<1>4. /\ Running(t) => Entering(t) \/ Entered(t)
      /\ Entering(t) => guest = "entering"
      /\ Called(t) => registration[t] = "firing"
      /\ Looking(t) => task[t] = "look"
      /\ Killing(t) => task[t] = "kill"
      /\ Pending(t) => guest = "tool"
      /\ Entering(t) \/ Entered(t) \/ Called(t) \/ Looking(t) \/ Killing(t) \/ Pending(t) => Running(t)
  BY DEF Entering, Entered, Called, Looking, Killing, Pending
<1>5. Spec /\ Scheduled(t) /\ GuestScheduled => (Running(t) ~> Entered(t) \/ Over(t))
  BY <1>1, <1>2, <1>4, CancelInvariant, PTL DEF Spec, GuestScheduled
<1>6. Spec /\ Scheduled(t) /\ GuestScheduled => (Pending(t) ~> Over(t))
  BY <1>1, <1>2, <1>4, CancelInvariant, PTL DEF Spec, GuestScheduled
<1>7. Spec /\ Scheduled(t) => (Called(t) ~> Looking(t) \/ Over(t))
  BY <1>1, <1>2, <1>4, CancelInvariant, PTL DEF Spec, Scheduled
<1>8. Spec /\ Scheduled(t) => (Looking(t) ~> Killing(t) \/ Over(t))
  BY <1>1, <1>2, <1>4, CancelInvariant, PTL DEF Spec, Scheduled
<1>9. Spec /\ Scheduled(t) => (Killing(t) ~> Looking(t) \/ Over(t))
  BY <1>1, <1>2, <1>4, CancelInvariant, PTL DEF Spec, Scheduled
<1>10. Spec /\ Scheduled(t) /\ GuestScheduled => (Entered(t) ~> Pending(t) \/ Over(t))
  BY <1>1, <1>2, <1>3, <1>4, <1>7, <1>8, <1>9, CancelInvariant, PTL DEF Spec, Scheduled
<1> QED BY <1>5, <1>6, <1>10, PTL

\* What follows native execution: the finally block, its wait for a callback that has
\* begun, the join of the task, the report.
Firing(t)  == pc[t] = "finally" /\ token[t] = "cancelled" /\ registration[t] = "firing"
Fired(t)   == pc[t] = "finally" /\ token[t] = "cancelled" /\ registration[t] # "firing"
JoinKill(t) == pc[t] = "join" /\ token[t] = "cancelled" /\ task[t] = "kill"
JoinLook(t) == pc[t] = "join" /\ token[t] = "cancelled" /\ task[t] = "look"
Joined(t)   == pc[t] = "join" /\ token[t] = "cancelled" /\ task[t] = "none"
Reports(t)  == pc[t] = "report" /\ token[t] = "cancelled"

\* What the steps of a run whose guest has ended lead to.
LEMMA EndingSteps ==
    ASSUME IInv, CancelInv, [Next]_vars, NEW t \in Threads
    PROVE  /\ Over(t) => Over(t)' \/ Firing(t)' \/ Fired(t)'
           /\ Firing(t) => Firing(t)' \/ Fired(t)'
           /\ Fired(t) => Fired(t)' \/ JoinKill(t)' \/ JoinLook(t)' \/ Joined(t)'
           /\ JoinKill(t) => JoinKill(t)' \/ JoinLook(t)'
           /\ JoinLook(t) => JoinLook(t)' \/ Joined(t)'
           /\ Joined(t) => Joined(t)' \/ Reports(t)'
           /\ Reports(t) => Reports(t)' \/ pc'[t] = "idle"
           /\ RunStep(t) => ~Over(t)' /\ ~(Fired(t) /\ Fired(t)') /\ ~(Joined(t) /\ Joined(t)')
                            /\ ~(Reports(t) /\ Reports(t)')
           /\ Callback(t) => ~Firing(t)'
           /\ Kill(t) => ~JoinKill(t)'
           /\ Look(t) => ~JoinLook(t)'
<1> USE DEF IInv, TypeOK, Over, Firing, Fired, JoinKill, JoinLook, Joined, Reports,
            objectVars, callVars, runVars, guestVars
<1>1. ASSUME RunStep(t)
      PROVE  /\ Over(t) => Firing(t)' \/ Fired(t)'
             /\ ~Firing(t) /\ ~JoinKill(t) /\ ~JoinLook(t)
             /\ Fired(t) => JoinKill(t)' \/ JoinLook(t)' \/ Joined(t)'
             /\ Joined(t) => Reports(t)'
             /\ Reports(t) => pc'[t] = "idle"
             /\ ~Over(t)' /\ ~(Fired(t) /\ Fired(t)') /\ ~(Joined(t) /\ Joined(t)')
             /\ ~(Reports(t) /\ Reports(t)')
  <2>1. CASE NativeReturns(t)
    BY <2>1 DEF NativeReturns, Go
  <2>2. CASE EndRegistration(t)
    BY <2>2 DEF EndRegistration, Go
  <2>3. CASE Join(t)
    BY <2>3 DEF Join, Go
  <2>4. CASE Report(t)
    BY <2>4 DEF Report, Leave
  <2>5. CASE Run(t) \/ GetInterruptHandle(t) \/ Register(t)
    BY <2>5 DEF Run, Acquire, GetInterruptHandle, Register, Go, Leave
  <2>6. CASE StartNative(t)
    BY <2>6 DEF StartNative, Go
  <2> QED BY <1>1, <2>1, <2>2, <2>3, <2>4, <2>5, <2>6 DEF RunStep
<1>2. ASSUME Callback(t) \/ Look(t) \/ Kill(t) \/ GuestStep
      PROVE  /\ Over(t) => Over(t)'
             /\ Firing(t) => Firing(t)' \/ Fired(t)'
             /\ Fired(t) => Fired(t)'
             /\ JoinKill(t) => JoinKill(t)' \/ JoinLook(t)'
             /\ JoinLook(t) => JoinLook(t)' \/ Joined(t)'
             /\ Joined(t) => Joined(t)'
             /\ Reports(t) => Reports(t)'
  <2>1. CASE Callback(t)
    BY <2>1 DEF Callback, CallbackInRun, InRun
  <2>2. CASE Look(t)
    BY <2>2 DEF Look, CancelInv
  <2>3. CASE Kill(t)
    BY <2>3 DEF Kill, KillHits, KillMisses, Gated, GuestInRun
  <2>4. CASE GuestStep
    BY <2>4 DEF GuestStep, GuestEnters, GuestEnds, ToolStarts, ToolReturns, Guest
  <2> QED BY <1>2, <2>1, <2>2, <2>3, <2>4
<1>3. ASSUME pc'[t] = pc[t], token'[t] = token[t], registration'[t] = registration[t],
             task'[t] = task[t], guest' = guest
      PROVE  /\ Over(t) => Over(t)'
             /\ Firing(t) => Firing(t)'
             /\ Fired(t) => Fired(t)'
             /\ JoinKill(t) => JoinKill(t)'
             /\ JoinLook(t) => JoinLook(t)'
             /\ Joined(t) => Joined(t)'
             /\ Reports(t) => Reports(t)'
  BY <1>3
<1>4. /\ Callback(t) => ~Firing(t)'
      /\ Kill(t) => ~JoinKill(t)'
      /\ Look(t) => ~JoinLook(t)'
  BY DEF Callback, Kill, Look
<1>5. Over(t) \/ Firing(t) \/ Fired(t) \/ JoinKill(t) \/ JoinLook(t) \/ Joined(t) \/ Reports(t)
      => token[t] = "cancelled" /\ pc[t] \in {"native", "finally", "join", "report"}
  OBVIOUS
<1> HIDE DEF Over, Firing, Fired, JoinKill, JoinLook, Joined, Reports
<1> QED BY <1>1, <1>2, <1>3, <1>4, <1>5, OwnRun

\* A cancelled run whose guest has ended reports and leaves the lock.
LEMMA EndingEnds ==
    ASSUME NEW t \in Threads
    PROVE  Spec /\ Scheduled(t) => (Over(t) ~> pc[t] = "idle")
<1> DEFINE Idle == pc[t] = "idle"
<1>1. IInv /\ CancelInv /\ [Next]_vars =>
        /\ Over(t) => Over(t)' \/ Firing(t)' \/ Fired(t)'
        /\ Firing(t) => Firing(t)' \/ Fired(t)'
        /\ Fired(t) => Fired(t)' \/ JoinKill(t)' \/ JoinLook(t)' \/ Joined(t)'
        /\ JoinKill(t) => JoinKill(t)' \/ JoinLook(t)'
        /\ JoinLook(t) => JoinLook(t)' \/ Joined(t)'
        /\ Joined(t) => Joined(t)' \/ Reports(t)'
        /\ Reports(t) => Reports(t)' \/ Idle'
  BY EndingSteps
<1>2. IInv /\ CancelInv =>
        /\ <<RunStep(t)>>_vars => ~Over(t)' /\ ~(Fired(t) /\ Fired(t)') /\ ~(Joined(t) /\ Joined(t)')
                                  /\ ~(Reports(t) /\ Reports(t)')
        /\ <<Callback(t)>>_vars => ~Firing(t)'
        /\ <<Kill(t)>>_vars => ~JoinKill(t)'
        /\ <<Look(t)>>_vars => ~JoinLook(t)'
  <2>1. RunStep(t) \/ Callback(t) \/ Kill(t) \/ Look(t) => [Next]_vars
    BY DEF Next
  <2> QED BY <2>1, EndingSteps
<1>3. /\ Over(t) \/ Fired(t) \/ Joined(t) \/ Reports(t) => RunMoves(t)
      /\ Firing(t) => registration[t] = "firing"
      /\ JoinKill(t) => task[t] = "kill"
      /\ JoinLook(t) => task[t] = "look"
  BY DEF Over, Firing, Fired, JoinKill, JoinLook, Joined, Reports, RunMoves
<1> HIDE DEF Idle
<1>4. Spec /\ Scheduled(t) => (Over(t) ~> Firing(t) \/ Fired(t))
  BY <1>1, <1>2, <1>3, CancelInvariant, PTL DEF Spec, Scheduled
<1>5. Spec /\ Scheduled(t) => (Firing(t) ~> Fired(t))
  BY <1>1, <1>2, <1>3, CancelInvariant, PTL DEF Spec, Scheduled
<1>6. Spec /\ Scheduled(t) => (Fired(t) ~> JoinKill(t) \/ JoinLook(t) \/ Joined(t))
  BY <1>1, <1>2, <1>3, CancelInvariant, PTL DEF Spec, Scheduled
<1>7. Spec /\ Scheduled(t) => (JoinKill(t) ~> JoinLook(t))
  BY <1>1, <1>2, <1>3, CancelInvariant, PTL DEF Spec, Scheduled
<1>8. Spec /\ Scheduled(t) => (JoinLook(t) ~> Joined(t))
  BY <1>1, <1>2, <1>3, CancelInvariant, PTL DEF Spec, Scheduled
<1>9. Spec /\ Scheduled(t) => (Joined(t) ~> Reports(t))
  BY <1>1, <1>2, <1>3, CancelInvariant, PTL DEF Spec, Scheduled
<1>10. Spec /\ Scheduled(t) => (Reports(t) ~> Idle)
  BY <1>1, <1>2, <1>3, CancelInvariant, PTL DEF Spec, Scheduled
<1>11. Spec /\ Scheduled(t) => (Over(t) ~> Idle)
  BY <1>4, <1>5, <1>6, <1>7, <1>8, <1>9, <1>10, PTL
<1> QED BY <1>11 DEF Idle

\* A run that was cancelled ends, whatever its guest does and however many threads
\* share the sandbox (Sandbox.cs, the task that retries kill()).
THEOREM CancelledRunEndsCorrect == LiveSpec /\ []GuardsEnable => CancelledRunEnds
<1>1. ASSUME NEW t \in Threads
      PROVE  Spec /\ Scheduled(t) /\ GuestScheduled =>
               (pc[t] = "native" /\ token[t] = "cancelled" ~> pc[t] = "idle")
  <2> DEFINE Cancelled == pc[t] = "native" /\ token[t] = "cancelled"
             Idle == pc[t] = "idle"
  <2>1. IInv /\ CancelInv => (Cancelled => Running(t) \/ Over(t))
    BY SomebodyKills
  <2>2. Spec /\ Scheduled(t) => (Over(t) ~> Idle)
    BY EndingEnds
  <2> HIDE DEF Cancelled, Idle
  <2>3. Spec /\ Scheduled(t) /\ GuestScheduled => (Cancelled ~> Idle)
    BY <2>1, <2>2, RunningEnds, CancelInvariant, PTL
  <2> QED BY <2>3 DEF Cancelled, Idle
<1>2. LiveSpec => Spec /\ (\A t \in Threads : FairTo(t)) /\ FairToGuest
  BY DEF LiveSpec, Fairness
<1>3. \A t \in Threads : FairTo(t) /\ []GuardsEnable => Scheduled(t)
  BY FairThread
<1> QED BY <1>1, <1>2, <1>3, FairGuest DEF CancelledRunEnds
===============================================================================
