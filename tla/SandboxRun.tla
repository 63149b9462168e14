------------------------------ MODULE SandboxRun ------------------------------
(***************************************************************************)
(* One sandbox of the core library (hyperlight_sandbox/src/lib.rs) over    *)
(* the Wasm backend or the JavaScript backend: runs, the host functions a  *)
(* guest calls, interruption, snapshots and restores.  Memory and output   *)
(* are known by the runs that left a trace in them.  The virtual machine   *)
(* is a library: it refuses to run once poisoned, and a restore heals it.  *)
(* Operators whose comment starts with "Defect" are plausible bugs and not *)
(* part of the specification.                                              *)
(***************************************************************************)
EXTENDS Naturals, Sequences, FiniteSets

CONSTANTS
    Snapshots,  \* snapshot names
    Targets,    \* network targets
    MaxStdout,  \* MAX_STDOUT_BYTES
    MaxRuns     \* bound: runs of one sandbox

ASSUME RunAssumption == MaxStdout \in Nat /\ MaxRuns \in Nat

VARIABLES
    backend,    \* "Wasm" or "JavaScript"
    hasOutput,  \* an output directory is configured
    phase,      \* "unbuilt", "idle", "ready" (code is handed to the guest), "guest"
    runs,       \* runs so far; the number of the current one
    memory,     \* runs whose effects the guest's memory has
    poisoned,   \* the virtual machine must be restored
    printed,    \* what the guest of a run wrote: in its own memory (Wasm)
    stdout,     \* the host's buffer (JavaScript), one entry per byte
    locked,     \* its mutex is poisoned
    output,     \* runs that left files in /output
    allowed,    \* permitted targets
    sent,       \* history: targets requests were sent to
    taken,      \* memory in each snapshot
    reply       \* how the last call ended

guestVars == <<memory, poisoned, printed>>
hostVars  == <<stdout, locked, output>>
fixedVars == <<backend, hasOutput>>
netVars   == <<allowed, sent>>
vars == <<fixedVars, phase, runs, guestVars, hostVars, netVars, taken, reply>>

NoSnapshot == {MaxRuns + 1}
Copies(n, r) == [i \in 1..n |-> r]
Least(m, n) == IF m < n THEN m ELSE n
Authors(s) == {s[i] : i \in DOMAIN s}
Replied(call, kind) == [call |-> call, kind |-> kind, stdout |-> {}]

Ends(call, kind) == phase' = "idle" /\ reply' = Replied(call, kind)

-----------------------------------------------------------------------------
(* SandboxBuilder::build.  Directories, the module and the runtime may     *)
(* fail; an explicit directory wins over a temporary one.                  *)

Build(outputDir, tempOutput) ==
    /\ phase = "unbuilt"
    /\ \/ /\ phase' = "idle" /\ reply' = Replied("build", "ok")
          /\ hasOutput' = (outputDir \/ tempOutput)
       \/ reply' = Replied("build", "error") /\ UNCHANGED <<phase, hasOutput>>
    /\ UNCHANGED <<backend, runs, guestVars, hostVars, netVars, taken>>

AllowDomain(d) ==
    /\ phase = "idle"
    /\ \/ allowed' = allowed \cup {d} /\ reply' = Replied("allow", "ok")
       \/ UNCHANGED allowed /\ reply' = Replied("allow", "error")
    /\ UNCHANGED <<fixedVars, phase, runs, guestVars, hostVars, sent, taken>>

-----------------------------------------------------------------------------
(* The start of a run: the host's buffers and handles first.               *)

Started(clear) ==
    /\ phase = "idle" /\ runs < MaxRuns
    /\ runs' = runs + 1
    /\ \/ backend = "JavaScript" /\ locked /\ Ends("run", "error") /\ UNCHANGED stdout
       \/ /\ backend = "JavaScript" => ~locked
          /\ stdout' = IF clear THEN <<>> ELSE stdout
          /\ \/ phase' = "ready" /\ UNCHANGED reply
             \/ Ends("run", "error")
    /\ UNCHANGED <<fixedVars, guestVars, locked, output, netVars, taken>>

\* Defect: captured output is only taken, never cleared.
StartRunKeepsStdout == Started(FALSE)

\* prepare_for_run may fail, after the buffer is cleared.
StartRun == Started(TRUE)

EnterGuest ==
    /\ phase = "ready"
    /\ IF poisoned
       THEN Ends("run", "poisoned") /\ UNCHANGED <<memory, printed>>
       ELSE /\ phase' = "guest"
            /\ memory' = memory \cup {runs}
            /\ printed' = FALSE
            /\ UNCHANGED reply
    /\ UNCHANGED <<fixedVars, runs, poisoned, hostVars, netVars, taken>>

-----------------------------------------------------------------------------
(* Host functions.                                                         *)

InGuest == phase = "guest"

HostCall == UNCHANGED <<fixedVars, phase, runs, memory, poisoned, taken, reply>>

\* A Wasm guest captures what it prints in its own memory.
GuestPrint ==
    /\ InGuest /\ backend = "Wasm" /\ ~printed
    /\ printed' = TRUE
    /\ HostCall /\ UNCHANGED <<hostVars, netVars>>

Cuts(n, wide) == wide /\ Least(n, MaxStdout - Len(stdout)) % 2 = 1

\* print_fn: a text of n bytes is cut to what remains.  Characters of a wide text
\* take two bytes: see PrintCut.
PrintFn(n, wide) ==
    /\ InGuest /\ backend = "JavaScript" /\ ~locked
    /\ ~Cuts(n, wide)
    /\ stdout' = stdout \o Copies(Least(n, MaxStdout - Len(stdout)), runs)
    /\ HostCall /\ UNCHANGED <<printed, locked, output, netVars>>

\* A cut in a character panics with the mutex locked; the panic may end the run.
PrintCut(n, wide) ==
    /\ InGuest /\ backend = "JavaScript" /\ ~locked
    /\ Cuts(n, wide)
    /\ locked' = TRUE
    /\ poisoned' \in {poisoned, TRUE}
    /\ \/ Ends("run", "panic")
       \/ UNCHANGED <<phase, reply>>
    /\ UNCHANGED <<fixedVars, runs, memory, printed, stdout, output, netVars, taken>>

\* write_file_text and write_file_bytes; a Wasm guest writes through WASI.
WriteFile ==
    /\ InGuest /\ hasOutput
    /\ output' = output \cup {runs}
    /\ HostCall /\ UNCHANGED <<printed, stdout, locked, netVars>>

\* Permissions are read under their lock, the request is sent outside of it.
Fetch(d) ==
    /\ InGuest
    /\ d \in allowed
    /\ sent' = sent \cup {d}
    /\ HostCall /\ UNCHANGED <<printed, hostVars, allowed>>

-----------------------------------------------------------------------------
(* The end of a run.                                                       *)

Takes == backend = "JavaScript" /\ ~locked

\* The guest ends by itself; an answer that cannot be decoded leaves the buffer.
GuestReturns ==
    /\ InGuest
    /\ phase' = "idle"
    /\ \/ /\ backend = "Wasm"
          /\ reply' = [Replied("run", "ok") EXCEPT !.stdout = IF printed THEN {runs} ELSE {}]
          /\ UNCHANGED stdout
       \/ /\ Takes
          /\ reply' = [Replied("run", "ok") EXCEPT !.stdout = Authors(stdout)]
          /\ stdout' = <<>>
       \/ backend = "JavaScript" /\ reply' = Replied("run", "error") /\ UNCHANGED stdout
    /\ UNCHANGED <<fixedVars, runs, guestVars, locked, output, netVars, taken>>

\* kill(): the run ends where it is, the machine is poisoned, the buffer stays.
Interrupted ==
    /\ InGuest
    /\ poisoned' = TRUE
    /\ Ends("run", "cancelled")
    /\ UNCHANGED <<fixedVars, runs, memory, printed, hostVars, netVars, taken>>

\* The guest traps or the machine fails: an error of the Wasm backend, an answer
\* with exit code -1 of the JavaScript backend and of a host function that panicked.
GuestFails ==
    /\ InGuest
    /\ poisoned' \in {poisoned, TRUE}
    /\ phase' = "idle"
    /\ \/ /\ backend = "Wasm"
          /\ \E kind \in {"error", "exit -1"} : reply' = Replied("run", kind)
          /\ UNCHANGED stdout
       \/ /\ backend = "JavaScript"
          /\ reply' = [Replied("run", "exit -1") EXCEPT
                            !.stdout = IF Takes THEN Authors(stdout) ELSE {}]
          /\ stdout' = IF Takes THEN <<>> ELSE stdout
    /\ UNCHANGED <<fixedVars, runs, memory, printed, locked, output, netVars, taken>>

-----------------------------------------------------------------------------
(* Snapshot and restore.                                                   *)

Snapshot(s) ==
    /\ phase = "idle"
    /\ taken[s] = NoSnapshot
    /\ \/ /\ ~poisoned
          /\ taken' = [taken EXCEPT ![s] = memory]
          /\ reply' = Replied("snapshot", "ok")
       \/ UNCHANGED taken /\ reply' = Replied("snapshot", "error")
    /\ UNCHANGED <<fixedVars, phase, runs, guestVars, hostVars, netVars>>

RestoreRefused ==
    /\ reply' = Replied("restore", "error")
    /\ UNCHANGED <<guestVars, output>>

\* The machine first, then the output files, of which some may stay.
Restore(s) ==
    /\ phase = "idle"
    /\ taken[s] # NoSnapshot
    /\ \/ RestoreRefused
       \/ /\ memory' = taken[s] /\ poisoned' = FALSE /\ printed' = FALSE
          /\ \/ output' = {} /\ reply' = Replied("restore", "ok")
             \/ output' \in SUBSET output /\ reply' = Replied("restore", "error")
    /\ UNCHANGED <<fixedVars, phase, runs, stdout, locked, netVars, taken>>

-----------------------------------------------------------------------------
Init ==
    /\ backend \in {"Wasm", "JavaScript"} /\ hasOutput = FALSE
    /\ phase = "unbuilt" /\ runs = 0
    /\ memory = {} /\ poisoned = FALSE /\ printed = FALSE
    /\ stdout = <<>> /\ locked = FALSE /\ output = {}
    /\ allowed = {} /\ sent = {}
    /\ taken = [s \in Snapshots |-> NoSnapshot]
    /\ reply = Replied("build", "ok")

HostFunction ==
    \/ GuestPrint
    \/ \E n \in 1..2, wide \in BOOLEAN : PrintFn(n, wide) \/ PrintCut(n, wide)
    \/ WriteFile
    \/ \E d \in Targets : Fetch(d)

RunStep == EnterGuest \/ HostFunction \/ GuestReturns \/ Interrupted \/ GuestFails

Next ==
    \/ \E outputDir, tempOutput \in BOOLEAN : Build(outputDir, tempOutput)
    \/ \E d \in Targets : AllowDomain(d)
    \/ StartRun \/ RunStep
    \/ \E s \in Snapshots : Snapshot(s) \/ Restore(s)

Spec == Init /\ [][Next]_vars
===============================================================================
