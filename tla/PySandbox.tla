------------------------------ MODULE PySandbox ------------------------------
(***************************************************************************)
(* The Python SDK: the native class of a backend (wasm_backend/src/lib.rs  *)
(* and hyperlight_js_backend, which differ in new()), the helpers they     *)
(* share (pyo3_common) and CodeExecutionTool, which makes a sandbox on its *)
(* first run.  Calls are sequential, the class is not sendable.  Operators *)
(* whose comment starts with "Defect" are plausible bugs and not part of   *)
(* the specification.                                                      *)
(***************************************************************************)
EXTENDS FilesystemLimits, Sequences, FiniteSets

CONSTANTS
    PyTools,           \* tool names
    Opaque,            \* tools whose signature cannot be inspected
    PyDomains,         \* targets given to allow_domain
    BadMethods,        \* those with methods parse_list rejects
    BadTargets,        \* those whose URL the core rejects
    PyMaxPermissions,  \* NetworkPermissions::MAX_PERMISSIONS
    PyMaxQueue,        \* bound: targets queued or granted
    Sizes, Counts      \* bound: limits the caller asks for

ASSUME PyAssumption ==
    /\ Opaque \subseteq PyTools
    /\ BadMethods \subseteq PyDomains /\ BadTargets \subseteq PyDomains
    /\ PyMaxPermissions \in Nat /\ PyMaxQueue \in Nat
    /\ Sizes \subseteq Texts /\ Counts \subseteq 0 .. MaxUsize

VARIABLES
    owner,          \* a user or a CodeExecutionTool has the sandbox
    list,           \* the tools of that CodeExecutionTool; "plain": just callables
    created,        \* the native object exists
    limits,         \* its filesystem_limits
    asked,          \* history: the limits its caller asked for
    pyTools,        \* names in the native tools map
    pyPending,      \* pending_networks
    pyBuilt,        \* inner is Some
    pyGiven,        \* tools of the registry the builder received
    pyPermissions,  \* NetworkPermissions of the built sandbox
    held,           \* history: tools that register_tool took
    pyAccepted,     \* history: targets that allow_domain took
    ran,            \* guest code ran
    pyReply         \* how the last call ended

object     == <<created, limits, asked>>
nativeVars == <<pyTools, pyPending, pyBuilt, pyGiven, pyPermissions>>
history    == <<held, pyAccepted, ran>>
ownVars    == <<owner, list>>
pyVars == <<ownVars, object, nativeVars, history, pyReply>>

Targets(s) == {s[i] : i \in DOMAIN s}

Raise(why) ==
    /\ pyReply' = why
    /\ UNCHANGED <<ownVars, object, nativeVars, history>>

Usable == owner = "user" /\ created

-----------------------------------------------------------------------------
(* The native class.                                                       *)

Option(S) == {{}} \cup {{x} : x \in S}
Arguments == [mode : Option({"unlimited", "other"}),
              file : Option(Sizes), total : Option(Sizes), count : Option(Counts)]
NoArguments == [mode |-> {}, file |-> {}, total |-> {}, count |-> {}]

\* The object keeps its limits for the builder.
Make(a) ==
    /\ created' = TRUE
    /\ limits' \in ParseFilesystemLimits(a)
    /\ asked' = a

\* new() parses the sizes of heap and stack and the limits, and builds nothing.
New(argumentsOk, a) ==
    /\ owner = "user" /\ ~created
    /\ IF argumentsOk /\ ParseFilesystemLimits(a) # {}
       THEN Make(a) /\ pyReply' = "ok"
       ELSE pyReply' = "raised" /\ UNCHANGED object
    /\ UNCHANGED <<ownVars, nativeVars, history>>

\* The JavaScript class takes no module path.
NewJs(modulePath, argumentsOk, a) == New(~modulePath /\ argumentsOk, a)

\* parse_tool_registration takes (name, callable) or a tool object.
ParseToolRegistration(form) == form \in {"pair", "toolObject"}

\* Defect: tools may be added to a built sandbox.
RegisterToolAnyTime(t, form) ==
    /\ Usable
    /\ \/ ~ParseToolRegistration(form) /\ Raise("raised")
       \/ /\ ParseToolRegistration(form)
          /\ pyTools' = pyTools \cup {t}
          /\ held' = held \cup {t}
          /\ pyReply' = "ok"
          /\ UNCHANGED <<ownVars, object, pyPending, pyBuilt, pyGiven, pyPermissions, pyAccepted, ran>>

\* A second registration of a name replaces the first.
PyRegisterTool(t, form) ==
    /\ Usable
    /\ \/ (pyBuilt \/ ~ParseToolRegistration(form)) /\ Raise("raised")
       \/ /\ ~pyBuilt /\ ParseToolRegistration(form)
          /\ pyTools' = pyTools \cup {t}
          /\ held' = held \cup {t}
          /\ pyReply' = "ok"
          /\ UNCHANGED <<ownVars, object, pyPending, pyBuilt, pyGiven, pyPermissions, pyAccepted, ran>>

PyCoreRejects(d) == d \in BadTargets \/ Len(pyPermissions) >= PyMaxPermissions

\* Methods are parsed at once, targets when the core sees them.
PyAllowDomain(d) ==
    /\ Usable
    /\ Len(pyPending) < PyMaxQueue /\ Len(pyPermissions) < PyMaxQueue
    /\ \/ (d \in BadMethods \/ (pyBuilt /\ PyCoreRejects(d))) /\ Raise("raised")
       \/ /\ d \notin BadMethods /\ ~(pyBuilt /\ PyCoreRejects(d))
          /\ IF pyBuilt
             THEN pyPermissions' = Append(pyPermissions, d) /\ UNCHANGED pyPending
             ELSE pyPending' = Append(pyPending, d) /\ UNCHANGED pyPermissions
          /\ pyAccepted' = pyAccepted \cup {d}
          /\ pyReply' = "ok"
          /\ UNCHANGED <<ownVars, object, pyTools, pyBuilt, pyGiven, held, ran>>

\* build_tool_registry takes the map and then infers a schema for each tool.
PyBuildToolRegistry(registered) ==
    /\ pyTools' = {}
    /\ registered \cap Opaque = {}

PyPendingApplies ==
    /\ Targets(pyPending) \cap BadTargets = {}
    /\ Len(pyPending) <= PyMaxPermissions

Build(registered) ==
    /\ ~pyBuilt
    /\ PyBuildToolRegistry(registered) /\ PyPendingApplies
    /\ pyBuilt' = TRUE
    /\ pyGiven' = registered
    /\ pyPending' = <<>>
    /\ pyPermissions' = pyPending

\* The registry, the builder or a target fails; what was taken is gone.
PyBuildFails(registered) ==
    /\ ~pyBuilt
    /\ pyTools' = {}
    /\ \/ UNCHANGED pyPending
       \/ registered \cap Opaque = {} /\ ~PyPendingApplies /\ pyPending' = <<>>
    /\ UNCHANGED <<pyBuilt, pyGiven, pyPermissions>>

\* ensure_initialized, and then the guest for a run.
Execute(registered) ==
    \/ /\ pyBuilt
       /\ pyReply' \in {"ok", "raised"}
       /\ ran' = TRUE
       /\ UNCHANGED nativeVars
    \/ /\ Build(registered)
       /\ pyReply' \in {"ok", "raised"}
       /\ ran' = TRUE
    \/ /\ PyBuildFails(registered)
       /\ pyReply' = "buildFailed"
       /\ UNCHANGED ran

PyRun ==
    /\ Usable
    /\ Execute(pyTools)
    /\ UNCHANGED <<ownVars, object, held, pyAccepted>>

InterruptHandle ==
    /\ Usable
    /\ \/ pyBuilt /\ pyReply' = "ok" /\ UNCHANGED nativeVars
       \/ Build(pyTools) /\ pyReply' = "ok"
       \/ PyBuildFails(pyTools) /\ pyReply' = "buildFailed"
    /\ UNCHANGED <<ownVars, object, history>>

\* snapshot, restore, get_output_files and output_path need a built sandbox
\* and change nothing here.
Snapshot ==
    /\ Usable
    /\ IF pyBuilt THEN \E why \in {"ok", "raised"} : Raise(why) ELSE Raise("raised")

-----------------------------------------------------------------------------
(* CodeExecutionTool: _get_sandbox and run.                                *)

\* The object is kept before its tools are registered; the first plain callable
\* of the list raises, the tools before it stay.
GetSandboxRaises ==
    /\ ~created
    /\ \/ UNCHANGED <<object, pyTools, held>>
       \/ /\ list.plain # {}
          /\ \E a \in Arguments : Make(a)
          /\ \E before \in SUBSET (list.tools \ list.plain) :
                pyTools' = before /\ held' = before
    /\ pyReply' = "raised"
    /\ UNCHANGED <<ownVars, pyPending, pyBuilt, pyGiven, pyPermissions, pyAccepted, ran>>

GetSandbox ==
    /\ ~created /\ list.plain = {}
    /\ \E a \in Arguments : Make(a)
    /\ held' = list.tools
    /\ Execute(list.tools)

AgentRun ==
    /\ owner = "agent"
    /\ \/ GetSandboxRaises
       \/ GetSandbox /\ UNCHANGED <<ownVars, pyAccepted>>
       \/ created /\ Execute(pyTools) /\ UNCHANGED <<ownVars, object, held, pyAccepted>>

-----------------------------------------------------------------------------
PyInit ==
    /\ owner \in {"user", "agent"}
    /\ list \in [tools : SUBSET PyTools, plain : SUBSET PyTools]
    /\ list.plain \subseteq list.tools
    /\ owner = "user" => list.tools = {}
    /\ created = FALSE /\ limits = {} /\ asked = NoArguments
    /\ pyTools = {} /\ pyPending = <<>>
    /\ pyBuilt = FALSE /\ pyGiven = {} /\ pyPermissions = <<>>
    /\ held = {} /\ pyAccepted = {} /\ ran = FALSE
    /\ pyReply = "ok"

PyNext ==
    \/ \E ok \in BOOLEAN, a \in Arguments :
          New(ok, a) \/ \E modulePath \in BOOLEAN : NewJs(modulePath, ok, a)
    \/ \E t \in PyTools, form \in {"pair", "toolObject", "plain"} : PyRegisterTool(t, form)
    \/ \E d \in PyDomains : PyAllowDomain(d)
    \/ PyRun \/ InterruptHandle \/ Snapshot
    \/ AgentRun

PySpec == PyInit /\ [][PyNext]_pyVars
===============================================================================
