----------------------------- MODULE HttpContract -----------------------------
(* What outgoing HTTP promises, without its tasks, locks and counters: a   *)
(* request is refused or accepted once, at most MaxConcurrent accepted     *)
(* ones wait for their answer, and an answer is given once, never changes  *)
(* and is delivered once.                                                  *)
EXTENDS Integers, FiniteSets

CONSTANTS Requests, MaxConcurrent

VARIABLES
    status,     \* "unsent", "refused", "pending", "answered" or "delivered"
    answer      \* the answer that waits for the guest

vars == <<status, answer>>

Pending == {r \in Requests : status[r] = "pending"}

Move(r, from, to) == status[r] = from /\ status' = [status EXCEPT ![r] = to]

Init ==
    /\ status = [r \in Requests |-> "unsent"]
    /\ answer = [r \in Requests |-> "none"]

Refuse(r) ==
    /\ Move(r, "unsent", "refused")
    /\ UNCHANGED answer

Accept(r) ==
    /\ Move(r, "unsent", "pending")
    /\ Cardinality(Pending) < MaxConcurrent
    /\ UNCHANGED answer

Answer(r) ==
    /\ Move(r, "pending", "answered")
    /\ \E a \in {"ok", "err"} : answer' = [answer EXCEPT ![r] = a]

Deliver(r) ==
    /\ Move(r, "answered", "delivered")
    /\ answer' = [answer EXCEPT ![r] = "none"]

Next == \E r \in Requests : Refuse(r) \/ Accept(r) \/ Answer(r) \/ Deliver(r)

Spec == Init /\ [][Next]_vars
===============================================================================
