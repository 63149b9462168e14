-------------------------------- MODULE MCCore --------------------------------
(***************************************************************************)
(* Instances of the core library for TLC.  Its parts share no state here:  *)
(* a behaviour moves one of them and leaves the others as they are, so     *)
(* that one run checks them all without multiplying their states.          *)
(***************************************************************************)
EXTENDS AgentProps, ToolValues, NetworkProps, TreeProps

\* A value in so many lists.
Inside(v, n) == LET A[i \in 0..n] == IF i = 0 THEN v ELSE Array(<<A[i - 1]>>) IN A[n]

\* Values of every type: an integer beyond i64, a string with escapes, and values as
\* deep as the limit and beyond it.
MCShapes ==
    {Null, Bool(TRUE), Number("i64", 1), Number("float", 3), Number("u64", 20), String(2, 0),
     String(2, 2), Array(<<Bool(FALSE), Null>>), Object([k \in {"k"} |-> Bool(TRUE)]),
     Inside(Null, MaxDepth), Inside(Number("u64", 20), MaxDepth + 1)}

\* With those inside them, and the objects they are the fields of.
MCValues ==
    MCShapes \cup {Bool(FALSE)}
      \cup {Inside(Null, n) : n \in 1 .. MaxDepth} \cup {Inside(Number("u64", 20), n) : n \in 1 .. MaxDepth}
      \cup {Object(f) : f \in PartialFunctions(Arguments, MCShapes)}

RECURSIVE Depth(_)
Depth(v) == IF Parts(v) = {} THEN 0
            ELSE 1 + (CHOOSE d \in {Depth(w) : w \in Parts(v)} : \A w \in Parts(v) : Depth(w) <= d)

MCNesting == [v \in Values |-> Depth(v)]

MCGuestPaths ==
    {<<"", "output", "a">>, <<"output", "a", "b">>, <<"output", "..", "a">>, <<"outputs", "a">>,
     <<"", "", "output", "b", "a">>, <<"output">>, <<"output", "b", "">>}

VARIABLE part  \* what this behaviour moves

callerVars == <<vars, step, agentVars>>

MCInit ==
    /\ part \in {"caller", "agent", "tools", "network", "tree"}
    /\ AgentInit /\ RegistryInit /\ PolicyInit /\ TreeInit
    \* What does not move has one initial state.
    /\ part # "tools" => maxArgsSize = 0
    /\ part # "tree" => maxFiles = Unlimited
    /\ part \in {"tools", "network", "tree"} => backend = "Wasm"

\* A sandbox whose caller makes any calls in any order.
CallerMoves ==
    /\ part = "caller"
    /\ Next
    /\ UNCHANGED <<step, agentVars, registryVars, policyVars, treeVars>>

AgentMoves ==
    /\ part = "agent"
    /\ AgentNext
    /\ UNCHANGED <<registryVars, policyVars, treeVars>>

ToolsMove ==
    /\ part = "tools"
    /\ RegistryNext
    /\ UNCHANGED <<callerVars, policyVars, treeVars>>

NetworkMoves ==
    /\ part = "network"
    /\ PolicyNext
    /\ UNCHANGED <<callerVars, registryVars, treeVars>>

TreeMoves ==
    /\ part = "tree"
    /\ TreeNext
    /\ UNCHANGED <<callerVars, registryVars, policyVars>>

MCNext ==
    /\ UNCHANGED part
    /\ CallerMoves \/ AgentMoves \/ ToolsMove \/ NetworkMoves \/ TreeMoves

MCSpec == MCInit /\ [][MCNext]_<<part, callerVars, registryVars, policyVars, treeVars>>
===============================================================================
