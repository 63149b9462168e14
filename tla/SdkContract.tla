----------------------------- MODULE SdkContract -----------------------------
(***************************************************************************)
(* What the SDKs promise of a sandbox that is built on first use: callers  *)
(* add tools and domains before, and only domains after; the guest never   *)
(* has an item that nobody accepted, its tools are fixed by the build, and *)
(* a built sandbox stays built.                                            *)
(***************************************************************************)
CONSTANTS Tools, Domains

VARIABLES
    ready,     \* the sandbox is built
    accepted,  \* items for which a call answered success
    inForce    \* items the guest can use

contractVars == <<ready, accepted, inForce>>

Init ==
    /\ ready = FALSE
    /\ accepted = {}
    /\ inForce = {}

Accept(items) ==
    /\ ~ready
    /\ accepted' = accepted \cup items
    /\ UNCHANGED <<ready, inForce>>

\* A build may be part of the call that adds the last items.
Build(items) ==
    /\ ~ready
    /\ ready' = TRUE
    /\ accepted' = accepted \cup items
    /\ inForce' \in SUBSET accepted'

Grant(domain) ==
    /\ ready
    /\ accepted' = accepted \cup {domain}
    /\ inForce' = inForce \cup {domain}
    /\ UNCHANGED ready

Next ==
    \/ \E items \in SUBSET (Tools \cup Domains) : Accept(items) \/ Build(items)
    \/ \E domain \in Domains : Grant(domain)

Spec == Init /\ [][Next]_contractVars
===============================================================================
