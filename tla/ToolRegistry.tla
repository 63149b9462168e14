---------------------------- MODULE ToolRegistry ------------------------------
(***************************************************************************)
(* The registry of host tools (hyperlight_sandbox/src/tools.rs): a tool is *)
(* registered with the schema of its declaration, a Python signature or a  *)
(* .NET argument type, and calls are dispatched to it.                     *)
(***************************************************************************)
EXTENDS ToolArgs

CONSTANTS
    Names,        \* tool names
    Arguments,    \* names of parameters and properties
    Kinds,        \* kinds of Python parameters
    Annotations,  \* their annotations
    Defaults,     \* the types of their defaults
    DotnetTypes,  \* types of .NET properties
    Values,       \* the JSON values calls are made of
    Nesting,      \* how deep each of them is nested
    Limits,       \* values of max_args_size
    Estimate(_)   \* estimate_json_size (EstimateJsonSize of ToolValues)

ASSUME RegistryAssumption ==
    /\ Kinds \subseteq {"named", "*args", "**kwargs"}
    /\ "Annotated[int]" \notin Defaults  \* a default has a plain type

\* A value of serde_json is a finite tree.
ASSUME ValuesAssumption ==
    /\ Null \in Values
    /\ Nesting \in [Values -> Nat]
    /\ \A v \in Values :
         /\ IsJson(v)
         /\ \A w \in Parts(v) : w \in Values /\ Nesting[w] < Nesting[v]

VARIABLES
    tools,         \* the declaration of each registered tool
    maxArgsSize,   \* max_args_size
    call           \* the last call and how it ended

registryVars == <<tools, maxArgsSize, call>>

NoTool == [sdk |-> "none"]

Parameters == [kind : Kinds, annotation : Annotations, default : Defaults]

PartialFunctions(S, T) == UNION {[D -> T] : D \in SUBSET S}

Schema(tool) ==
    IF tool.sdk = "python" THEN InferToolSchema(tool.signature)
    ELSE ParseToolSchema(BuildSchema(tool.properties))

-----------------------------------------------------------------------------
\* A name that is taken is replaced.
RegisterWithSchema(name, tool) ==
    /\ tools' = [tools EXCEPT ![name] = tool]
    /\ UNCHANGED <<maxArgsSize, call>>

RegisterPython(name, signature) ==
    RegisterWithSchema(name, [sdk |-> "python", signature |-> signature])

RegisterDotnet(name, properties) ==
    RegisterWithSchema(name, [sdk |-> "dotnet", properties |-> properties])

\* Raw JSON tools and register_typed check nothing before the handler.
RegisterUnvalidated(name) == RegisterWithSchema(name, [sdk |-> "raw"])

SetMaxArgsSize(n) ==
    /\ maxArgsSize' = n
    /\ UNCHANGED <<tools, call>>

Answer(name, args) ==
    IF maxArgsSize > 0 /\ Estimate(args) > maxArgsSize THEN "too large"
    ELSE IF tools[name] = NoTool THEN "unknown tool"
    ELSE IF tools[name].sdk # "raw" /\ ~Validate(Schema(tools[name]), args) THEN "invalid"
    ELSE "handled"

Dispatch(name, args) ==
    /\ call' = [tool |-> tools[name], args |-> args, answer |-> Answer(name, args)]
    /\ UNCHANGED <<tools, maxArgsSize>>

RegistryInit ==
    /\ tools = [n \in Names |-> NoTool]
    /\ maxArgsSize \in Limits
    /\ call = [tool |-> NoTool, args |-> Null, answer |-> "none"]

Register ==
    \E name \in Names :
        \/ \E signature \in PartialFunctions(Arguments, Parameters) :
                RegisterPython(name, signature)
        \/ \E properties \in PartialFunctions(Arguments, DotnetTypes) :
                RegisterDotnet(name, properties)
        \/ RegisterUnvalidated(name)

\* The sandbox owns the registry from its first call on; a call leaves nothing
\* behind, so one call (a bound) shows what any call does.
Configurable == call.answer = "none"

RegistryNext ==
    \/ Configurable /\ Register
    \/ Configurable /\ \E n \in Limits : SetMaxArgsSize(n)
    \/ Configurable /\ \E name \in Names, args \in Values : Dispatch(name, args)

RegistrySpec == RegistryInit /\ [][RegistryNext]_registryVars
===============================================================================
