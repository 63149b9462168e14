------------------------------- MODULE HttpProps -------------------------------
(* What must hold of outgoing HTTP.                                        *)
EXTENDS HttpOutgoing

(* The shape of the state.                                                 *)
Calls ==
    {Free} \cup ({"write", "finish", "handle", "block"} \X Requests)
           \cup ({"blockingWrite"} \X Requests \X Lens)

TypeOK ==
    /\ guest \in Calls
    /\ phase \in [Requests -> Phases]
    /\ bodyHandle \in [Requests -> {"inRequest", "held", "gone"}]
    /\ streamTaken \in [Requests -> BOOLEAN]
    /\ finished \in [Requests -> BOOLEAN]
    /\ closed \in [Requests -> BOOLEAN]
    /\ buffered \in [Requests -> Nat]
    /\ okBytes \in [Requests -> Nat]
    /\ sent \in [Requests -> Nat \cup {NotTaken}]
    /\ value \in [Requests -> {"none", "ok", "err"}]
    /\ consumed \in [Requests -> BOOLEAN]
    /\ active \in Nat

Slots   == {r \in Requests : phase[r] \in InFlight \cup {"overLimit"}}
Running == {r \in Requests : phase[r] \in InFlight}

SlotLimit == Cardinality(Running) <= MaxConcurrent

(* active_requests never drifts: it counts the requests whose tasks run    *)
(* and the one that handle() is about to refuse, panics included, so it    *)
(* cannot wrap below zero or creep up to the limit; and the limit bounds   *)
(* the requests whose tasks run, although the counter is raised before it  *)
(* is compared and tasks lower it in between.                              *)
SlotsExact == active = Cardinality(Slots) /\ SlotLimit

(* The body sent is what the guest was told is written, up to the cap of   *)
(* the buffer: no byte written while the handler starts, waits or takes    *)
(* the data is lost, and none is added later.                              *)
BodyIntegrity ==
    \A r \in Requests : sent[r] # NotTaken => sent[r] = Min(MaxBuffer, okBytes[r])

(* The tasks implement the contract: one answer, kept until it is          *)
(* delivered once, whatever the handler and its monitor do.                *)
Status(r) ==
    IF phase[r] \in {"owned", "overLimit"} THEN "unsent"
    ELSE IF phase[r] = "refused" THEN "refused"
    ELSE IF consumed[r] THEN "delivered"
    ELSE IF value[r] # "none" THEN "answered"
    ELSE "pending"

Contract == INSTANCE HttpContract WITH
    status <- [r \in Requests |-> Status(r)],
    answer <- value

ContractSpec == Contract!Spec

(* The guest can no longer keep the handler from going on.                 *)
Completable(r) == finished[r] \/ (~streamTaken[r] /\ bodyHandle[r] # "held")

(* An accepted request whose body is complete gets an answer and gives its *)
(* slot back, also when the handler panics and when the guest is blocked   *)
(* elsewhere.                                                              *)
Answered ==
    \A r \in Requests :
      phase[r] \in InFlight /\ Completable(r) ~> Ready(r) /\ phase[r] = "released"

(* A guest thread inside a call on the body of a request returns, though   *)
(* the handler keeps the lock of the body while it sends; and one blocked  *)
(* on a response returns if the body of the request is complete.           *)
InBodyCall(r) == guest \in {<<"write", r>>, <<"finish", r>>}
BlockedOn(r) == guest = <<"block", r>>

CallReturns ==
    \A r \in Requests :
      InBodyCall(r) \/ (BlockedOn(r) /\ Completable(r)) ~> guest = Free
===============================================================================
