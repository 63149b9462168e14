------------------------------ MODULE FfiSandbox ------------------------------
(***************************************************************************)
(* One sandbox handle of the C interface that the .NET API calls           *)
(* (sdk/dotnet/ffi/src/lib.rs).  Configuration is collected in             *)
(* SandboxState and the sandbox is built by the first run() or             *)
(* get_interrupt_handle().  Calls are sequential: the caller owns the      *)
(* handle.  Operators whose comment starts with "Defect" are plausible     *)
(* bugs and not part of the specification.                                 *)
(***************************************************************************)
EXTENDS FilesystemLimits, Sequences, FiniteSets

CONSTANTS
    Tools,           \* tool names
    Domains,         \* targets given to allow_domain
    Invalid,         \* those whose URL or methods the core rejects
    MaxPermissions,  \* NetworkPermissions::MAX_PERMISSIONS
    MaxQueue,        \* bound: targets queued or granted
    LimitValues,     \* bound: values given to set_filesystem_limits
    Snapshots        \* snapshot handles

ASSUME FfiAssumption ==
    /\ Invalid \subseteq Domains
    /\ MaxPermissions \in Nat /\ MaxQueue \in Nat
    /\ LimitValues \subseteq 0 .. MaxU64

VARIABLES
    handle,       \* the life of the handle
    backend,      \* SandboxState::backend
    tools,        \* SandboxState::tools: the schema each was registered with
    pending,      \* SandboxState::pending_networks
    settings,     \* directories and filesystem limits
    built,        \* SandboxState::inner is Some
    given,        \* what the builder received
    permissions,  \* NetworkPermissions of the built sandbox
    accepted,     \* history: targets for which allow_domain answered success
    snapshots,    \* the backend each live snapshot handle belongs to
    interrupts,   \* an interrupt handle was given out
    reply         \* how the last call ended

configVars == <<tools, settings, accepted>>
initVars   == <<pending, built, given, permissions>>
outVars    == <<snapshots, interrupts>>
ffiVars == <<handle, backend, configVars, initVars, outVars, reply>>

Backends == {"Wasm", "JavaScript"}
Schemas  == {"none", "valid", "invalid"}
Unregistered == "unregistered"
NoSnapshot == "free"
Listed(s) == {s[i] : i \in DOMAIN s}

DefaultSettings == [input |-> FALSE, output |-> FALSE, temp |-> FALSE, limits |-> DefaultLimits]

\* The filesystem the builder makes of the settings: an output directory wins
\* over a temporary one.
Filesystem(s) ==
    [input |-> s.input, limits |-> s.limits,
     output |-> IF s.output THEN "dir" ELSE IF s.temp THEN "temp" ELSE "none"]

Registered == {t \in Tools : tools[t] # Unregistered}

Live == handle = "live"

Refuse(code) ==
    /\ reply' = code
    /\ UNCHANGED <<handle, backend, configVars, initVars, outVars>>

-----------------------------------------------------------------------------
(* Life cycle.                                                             *)

\* Wasm needs a module path, JavaScript must not have one.
Create(b, modulePath) ==
    /\ handle = "none"
    /\ IF modulePath = (b = "Wasm")
       THEN handle' = "live" /\ backend' = b /\ reply' = "Success"
       ELSE reply' = "InvalidArgument" /\ UNCHANGED <<handle, backend>>
    /\ UNCHANGED <<configVars, initVars, outVars>>

\* Snapshots and interrupt handles outlive the sandbox.
Free ==
    /\ Live
    /\ handle' = "freed"
    /\ reply' = "Success"
    /\ UNCHANGED <<backend, configVars, initVars, outVars>>

-----------------------------------------------------------------------------
(* Configuration, refused once the sandbox is built.                       *)

Configure(s) ==
    /\ settings' = s
    /\ reply' = "Success"
    /\ UNCHANGED <<handle, backend, tools, accepted, initVars, outVars>>

SetInputDir ==
    /\ Live
    /\ IF built THEN Refuse("InvalidArgument")
       ELSE Configure([settings EXCEPT !.input = TRUE])

\* Defect: the output directory can be set after the build.
SetOutputDirAnyTime ==
    /\ Live
    /\ Configure([settings EXCEPT !.output = TRUE])

SetOutputDir ==
    /\ Live
    /\ IF built THEN Refuse("InvalidArgument")
       ELSE Configure([settings EXCEPT !.output = TRUE])

SetTempOutput(enabled) ==
    /\ Live
    /\ IF built THEN Refuse("InvalidArgument")
       ELSE Configure([settings EXCEPT !.temp = enabled])

SetFilesystemLimits(mode, file, total, count) ==
    /\ Live
    /\ IF built \/ SetLimits(mode, file, total, count) = {}
       THEN Refuse("InvalidArgument")
       ELSE \E limits \in SetLimits(mode, file, total, count) :
                Configure([settings EXCEPT !.limits = limits])

\* The schema text is stored, not parsed.
RegisterTool(t, schema) ==
    /\ Live
    /\ IF built \/ tools[t] # Unregistered
       THEN Refuse("InvalidArgument")
       ELSE /\ tools' = [tools EXCEPT ![t] = schema]
            /\ reply' = "Success"
            /\ UNCHANGED <<handle, backend, settings, accepted, initVars, outVars>>

Allowed(d) ==
    /\ accepted' = accepted \cup {d}
    /\ reply' = "Success"
    /\ UNCHANGED <<handle, backend, tools, settings, built, given, outVars>>

\* NetworkPermissions::allow_domain answers an error.
CoreRejects(d) == d \in Invalid \/ Len(permissions) >= MaxPermissions

\* Defect: a target of a built sandbox is queued as before the build.
AllowDomainQueues(d, jsonOk) ==
    /\ Live
    /\ Len(pending) < MaxQueue
    /\ \/ ~jsonOk /\ Refuse("InvalidArgument")
       \/ /\ jsonOk
          /\ pending' = Append(pending, d)
          /\ UNCHANGED permissions
          /\ Allowed(d)

\* Before the build the target is queued unchecked, after it the core answers.
AllowDomain(d, jsonOk) ==
    /\ Live
    /\ Len(pending) < MaxQueue /\ Len(permissions) < MaxQueue
    /\ \/ ~jsonOk /\ Refuse("InvalidArgument")
       \/ jsonOk /\ built /\ CoreRejects(d) /\ Refuse("Error")
       \/ /\ jsonOk /\ built /\ ~CoreRejects(d)
          /\ permissions' = Append(permissions, d)
          /\ UNCHANGED pending
          /\ Allowed(d)
       \/ /\ jsonOk /\ ~built
          /\ pending' = Append(pending, d)
          /\ UNCHANGED permissions
          /\ Allowed(d)

-----------------------------------------------------------------------------
(* Initialization and the calls that need it.                              *)

\* parse_tool_schema runs for every tool before anything is built.
BuildToolRegistry == \A t \in Registered : tools[t] # "invalid"

PendingApplies ==
    /\ Listed(pending) \cap Invalid = {}
    /\ Len(pending) <= MaxPermissions

\* Defect: the queue is taken before the builder runs.
BuildFailsAfterTake ==
    /\ pending' = <<>>
    /\ UNCHANGED <<built, given, permissions>>

\* The builder may fail for reasons of its own: a directory, the module, memory.
BuildFails ==
    /\ UNCHANGED initVars

\* Taking the queue and applying it: one rejected target ends the build.
ApplyPending ==
    /\ pending' = <<>>
    /\ IF PendingApplies
       THEN /\ built' = TRUE
            /\ given' = [fs |-> Filesystem(settings), tools |-> Registered]
            /\ permissions' = pending
       ELSE UNCHANGED <<built, given, permissions>>

EnsureInitialized ==
    \/ built /\ UNCHANGED initVars
    \/ ~built /\ BuildFails
    \/ ~built /\ BuildToolRegistry /\ ApplyPending

\* The guest's own failures answer an error as well.
Run ==
    /\ Live
    /\ EnsureInitialized
    /\ reply' \in IF built' THEN {"Success", "Error"} ELSE {"Error"}
    /\ UNCHANGED <<handle, backend, configVars, outVars>>

GetInterruptHandle ==
    /\ Live
    /\ EnsureInitialized
    /\ interrupts' = (interrupts \/ built')
    /\ reply' = IF built' THEN "Success" ELSE "Error"
    /\ UNCHANGED <<handle, backend, configVars, snapshots>>

\* get_output_files and output_path only read.
GetOutputFiles ==
    /\ Live
    /\ reply' = IF built THEN "Success" ELSE "InvalidArgument"
    /\ UNCHANGED <<handle, backend, configVars, initVars, outVars>>

OutputPath ==
    /\ Live
    /\ reply' = IF built THEN "Success" ELSE "InvalidArgument"
    /\ UNCHANGED <<handle, backend, configVars, initVars, outVars>>

TakeSnapshot(s) ==
    /\ Live
    /\ snapshots[s] = NoSnapshot
    /\ \/ ~built /\ Refuse("InvalidArgument")
       \/ built /\ Refuse("Error")
       \/ /\ built
          /\ snapshots' = [snapshots EXCEPT ![s] = backend]
          /\ reply' = "Success"
          /\ UNCHANGED <<handle, backend, configVars, initVars, interrupts>>

\* A snapshot that another sandbox of this process took.
OtherSnapshot(s, b) ==
    /\ snapshots[s] = NoSnapshot
    /\ snapshots' = [snapshots EXCEPT ![s] = b]
    /\ reply' = "Success"
    /\ UNCHANGED <<handle, backend, configVars, initVars, interrupts>>

Restore(s) ==
    /\ Live
    /\ snapshots[s] # NoSnapshot
    /\ reply' \in IF ~built \/ snapshots[s] # backend THEN {"InvalidArgument"}
                  ELSE {"Success", "Error"}
    /\ UNCHANGED <<handle, backend, configVars, initVars, outVars>>

FreeSnapshot(s) ==
    /\ snapshots[s] # NoSnapshot
    /\ snapshots' = [snapshots EXCEPT ![s] = NoSnapshot]
    /\ reply' = "Success"
    /\ UNCHANGED <<handle, backend, configVars, initVars, interrupts>>

FreeInterruptHandle ==
    /\ interrupts
    /\ interrupts' = FALSE
    /\ reply' = "Success"
    /\ UNCHANGED <<handle, backend, configVars, initVars, snapshots>>

-----------------------------------------------------------------------------
FfiInit ==
    /\ handle = "none" /\ backend = "Wasm"
    /\ tools = [t \in Tools |-> Unregistered]
    /\ settings = DefaultSettings
    /\ accepted = {}
    /\ pending = <<>>
    /\ built = FALSE
    /\ given = [fs |-> Filesystem(DefaultSettings), tools |-> {}]
    /\ permissions = <<>>
    /\ snapshots = [s \in Snapshots |-> NoSnapshot]
    /\ interrupts = FALSE
    /\ reply = "Success"

ConfigCall ==
    \/ SetInputDir \/ SetOutputDir
    \/ \E enabled \in BOOLEAN : SetTempOutput(enabled)
    \/ \E mode \in {"finite", "unlimited", "other"}, file, total, count \in LimitValues :
            SetFilesystemLimits(mode, file, total, count)
    \/ \E t \in Tools, schema \in Schemas : RegisterTool(t, schema)
    \/ \E d \in Domains, jsonOk \in BOOLEAN : AllowDomain(d, jsonOk)

HandleCall ==
    \/ \E b \in Backends, modulePath \in BOOLEAN : Create(b, modulePath)
    \/ Free
    \/ \E s \in Snapshots :
        TakeSnapshot(s) \/ Restore(s) \/ FreeSnapshot(s)
        \/ \E b \in Backends : OtherSnapshot(s, b)
    \/ FreeInterruptHandle

FfiNext ==
    \/ HandleCall
    \/ ConfigCall
    \/ Run \/ GetInterruptHandle \/ GetOutputFiles \/ OutputPath

FfiSpec == FfiInit /\ [][FfiNext]_ffiVars
===============================================================================
