----------------------------- MODULE HttpOutgoing -----------------------------
(***************************************************************************)
(* Outgoing HTTP requests of the Wasm backend (http_handler.rs, http.rs):  *)
(* the guest thread builds a request, hands it to handle() and may go on   *)
(* writing its body, while a spawned handler task sends it and a monitor   *)
(* task watches the handler and gives the request slot back.               *)
(*                                                                         *)
(* A host call of the guest that takes the lock of the outgoing body is    *)
(* two steps, entering and completing: the handler holds that lock from    *)
(* taking the data until its end.  The other locks are held for one step.  *)
(* Bytes are counted, not stored.  Operators whose comment starts with     *)
(* "Defect" are plausible bugs and not part of the specification.          *)
(***************************************************************************)
EXTENDS Integers, FiniteSets

CONSTANTS
    Requests,       \* the outgoing requests the guest creates
    MaxConcurrent,  \* MAX_CONCURRENT_REQUESTS
    MaxBuffer,      \* MAX_BUFFER_BYTES
    Lens,           \* lengths of the buffers the guest writes
    MaxOk           \* bound: bytes the guest writes to one body

ASSUME HttpAssumption ==
    /\ IsFiniteSet(Requests)
    /\ MaxConcurrent \in Nat /\ MaxBuffer \in Nat /\ MaxOk \in Nat
    /\ Lens \subseteq Nat

VARIABLES
    guest,        \* the host call the guest thread is inside
    phase,        \* what became of each request
    bodyHandle,   \* whether the guest holds the outgoing-body resource
    streamTaken,  \* OutgoingBody::body_taken
    finished,     \* OutgoingBody::finished
    closed,       \* the body's Buffer is closed
    buffered,     \* length of the body's Buffer
    okBytes,      \* bytes of the writes that returned Ok
    sent,         \* bytes of the body the handler took
    value,        \* FutureHttp::value
    consumed,     \* FutureHttp::consumed
    active        \* active_requests

bodyVars   == <<bodyHandle, streamTaken, finished, closed, buffered, okBytes>>
futureVars == <<value, consumed>>
vars == <<guest, phase, bodyVars, sent, futureVars, active>>

Free  == <<"free">>
Phases == {"owned", "refused", "overLimit", "spawned", "waiting", "sending",
           "answered", "panicked", "reported", "released"}
NotTaken == -1
Min(a, b) == IF a <= b THEN a ELSE b

\* Requests whose handler or monitor task still runs.
InFlight == {"spawned", "waiting", "sending", "answered", "panicked", "reported"}

-----------------------------------------------------------------------------
(* The guest thread.  It is in one host call at a time.                    *)

\* outgoing-request.body: the resource is given out once.
RequestBody(r) ==
    /\ guest = Free
    /\ phase[r] = "owned" /\ bodyHandle[r] = "inRequest"
    /\ bodyHandle' = [bodyHandle EXCEPT ![r] = "held"]
    /\ UNCHANGED <<guest, phase, streamTaken, finished, closed, buffered, okBytes,
                   sent, futureVars, active>>

\* Dropping the body resource; unlike finish it tells the handler nothing.
DropBody(r) ==
    /\ guest = Free
    /\ bodyHandle[r] = "held"
    /\ bodyHandle' = [bodyHandle EXCEPT ![r] = "gone"]
    /\ UNCHANGED <<guest, phase, streamTaken, finished, closed, buffered, okBytes,
                   sent, futureVars, active>>

\* The guest enters outgoing-body.write or outgoing-body.finish.
EnterBody(r) ==
    /\ guest = Free
    /\ bodyHandle[r] = "held"
    /\ guest' \in {<<"write", r>>, <<"finish", r>>}
    /\ UNCHANGED <<phase, bodyVars, sent, futureVars, active>>

\* outgoing-body.write hands the stream out once.
BodyWrite(r) ==
    /\ guest = <<"write", r>>
    /\ phase[r] # "sending"
    /\ streamTaken' = [streamTaken EXCEPT ![r] = TRUE]
    /\ guest' = Free
    /\ UNCHANGED <<phase, bodyHandle, finished, closed, buffered, okBytes,
                   sent, futureVars, active>>

\* outgoing-body.finish consumes the body.
BodyFinish(r) ==
    /\ guest = <<"finish", r>>
    /\ phase[r] # "sending"
    /\ closed' = [closed EXCEPT ![r] = TRUE]
    /\ finished' = [finished EXCEPT ![r] = TRUE]
    /\ bodyHandle' = [bodyHandle EXCEPT ![r] = "gone"]
    /\ guest' = Free
    /\ UNCHANGED <<phase, streamTaken, buffered, okBytes, sent, futureVars, active>>

\* Buffer::write appends what fits and answers Ok for all of it.
Append(r, len) ==
    /\ ~closed[r]
    /\ buffered' = [buffered EXCEPT ![r] = Min(MaxBuffer, @ + len)]
    /\ okBytes' = [okBytes EXCEPT ![r] = @ + len]

\* output-stream.write.
StreamWrite(r, len) ==
    /\ guest = Free
    /\ streamTaken[r]
    /\ okBytes[r] + len <= MaxOk
    /\ Append(r, len)
    /\ UNCHANGED <<guest, phase, bodyHandle, streamTaken, finished, closed,
                   sent, futureVars, active>>

\* output-stream.blocking-write-and-flush waits for write_ready.
EnterBlockingWrite(r, len) ==
    /\ guest = Free
    /\ streamTaken[r]
    /\ okBytes[r] + len <= MaxOk
    /\ guest' = <<"blockingWrite", r, len>>
    /\ UNCHANGED <<phase, bodyVars, sent, futureVars, active>>

BlockingWrite(r, len) ==
    /\ guest = <<"blockingWrite", r, len>>
    /\ closed[r] \/ buffered[r] < MaxBuffer
    /\ Append(r, len) \/ (closed[r] /\ UNCHANGED <<buffered, okBytes>>)
    /\ guest' = Free
    /\ UNCHANGED <<phase, bodyHandle, streamTaken, finished, closed,
                   sent, futureVars, active>>

\* output-stream.write-zeroes over MAX_ALLOC_BYTES closes the stream.
WriteTooManyZeroes(r) ==
    /\ guest = Free
    /\ streamTaken[r]
    /\ closed' = [closed EXCEPT ![r] = TRUE]
    /\ UNCHANGED <<guest, phase, bodyHandle, streamTaken, finished, buffered, okBytes,
                   sent, futureVars, active>>

\* handle() rejects the request before it counts it: no authority, a method,
\* scheme or URL it does not accept, or is_allowed says no.
Deny(r) ==
    /\ guest = Free
    /\ phase[r] = "owned"
    /\ phase' = [phase EXCEPT ![r] = "refused"]
    /\ UNCHANGED <<guest, bodyVars, sent, futureVars, active>>

\* Defect: the limit lets one request too many in.
HandleOffByOne(r) ==
    /\ guest = Free
    /\ phase[r] = "owned"
    /\ active' = active + 1
    /\ IF active > MaxConcurrent
         THEN guest' = <<"handle", r>> /\ phase' = [phase EXCEPT ![r] = "overLimit"]
         ELSE guest' = Free /\ phase' = [phase EXCEPT ![r] = "spawned"]
    /\ UNCHANGED <<bodyVars, sent, futureVars>>

\* handle() takes a slot with fetch_add and looks at the count before it.
Handle(r) ==
    /\ guest = Free
    /\ phase[r] = "owned"
    /\ active' = active + 1
    /\ IF active >= MaxConcurrent
         THEN guest' = <<"handle", r>> /\ phase' = [phase EXCEPT ![r] = "overLimit"]
         ELSE guest' = Free /\ phase' = [phase EXCEPT ![r] = "spawned"]
    /\ UNCHANGED <<bodyVars, sent, futureVars>>

\* Defect: the error path keeps the slot.
RefuseKeepsSlot(r) ==
    /\ guest = <<"handle", r>>
    /\ guest' = Free
    /\ phase' = [phase EXCEPT ![r] = "refused"]
    /\ UNCHANGED <<bodyVars, sent, futureVars, active>>

\* The error path gives the slot back with fetch_sub.
Refuse(r) ==
    /\ guest = <<"handle", r>>
    /\ guest' = Free
    /\ active' = active - 1
    /\ phase' = [phase EXCEPT ![r] = "refused"]
    /\ UNCHANGED <<bodyVars, sent, futureVars>>

HasFuture(r) == phase[r] \in InFlight \cup {"released"}
Ready(r) == consumed[r] \/ value[r] # "none"

\* future-incoming-response.get: the value once, then an error.
Get(r) ==
    /\ guest = Free
    /\ HasFuture(r)
    /\ ~consumed[r] /\ value[r] # "none"
    /\ value' = [value EXCEPT ![r] = "none"]
    /\ consumed' = [consumed EXCEPT ![r] = TRUE]
    /\ UNCHANGED <<guest, phase, bodyVars, sent, active>>

\* pollable.block on the future.
EnterBlock(r) ==
    /\ guest = Free
    /\ HasFuture(r)
    /\ guest' = <<"block", r>>
    /\ UNCHANGED <<phase, bodyVars, sent, futureVars, active>>

Block(r) ==
    /\ guest = <<"block", r>>
    /\ Ready(r)
    /\ guest' = Free
    /\ UNCHANGED <<phase, bodyVars, sent, futureVars, active>>

-----------------------------------------------------------------------------
(* The handler task.                                                       *)

\* Under the body lock: a body nobody took and nobody finished is closed.
TaskStart(r) ==
    /\ phase[r] = "spawned"
    /\ IF ~streamTaken[r] /\ ~finished[r]
         THEN /\ closed' = [closed EXCEPT ![r] = TRUE]
              /\ finished' = [finished EXCEPT ![r] = TRUE]
         ELSE UNCHANGED <<closed, finished>>
    /\ phase' = [phase EXCEPT ![r] = "waiting"]
    /\ UNCHANGED <<guest, bodyHandle, streamTaken, buffered, okBytes, sent,
                   futureVars, active>>

\* Defect: the data is taken without waiting for the guest to finish.
TaskTakeEarly(r) ==
    /\ phase[r] = "waiting"
    /\ sent' = [sent EXCEPT ![r] = buffered[r]]
    /\ buffered' = [buffered EXCEPT ![r] = 0]
    /\ phase' = [phase EXCEPT ![r] = "sending"]
    /\ UNCHANGED <<guest, bodyHandle, streamTaken, finished, closed, okBytes,
                   futureVars, active>>

\* write_wait_until(is_finished) and take_data; the body lock is kept.
TaskTake(r) ==
    /\ phase[r] = "waiting"
    /\ finished[r]
    /\ sent' = [sent EXCEPT ![r] = buffered[r]]
    /\ buffered' = [buffered EXCEPT ![r] = 0]
    /\ phase' = [phase EXCEPT ![r] = "sending"]
    /\ UNCHANGED <<guest, bodyHandle, streamTaken, finished, closed, okBytes,
                   futureVars, active>>

\* Defect: the handler gives its slot back, and so will the monitor.
TaskAnswerReleases(r) ==
    /\ phase[r] = "sending"
    /\ \E answer \in {"ok", "err"} : value' = [value EXCEPT ![r] = answer]
    /\ phase' = [phase EXCEPT ![r] = "answered"]
    /\ active' = active - 1
    /\ UNCHANGED <<guest, bodyVars, sent, consumed>>

\* send_http_request returns, in time or with an error, and the future is set.
TaskAnswer(r) ==
    /\ phase[r] = "sending"
    /\ \E answer \in {"ok", "err"} : value' = [value EXCEPT ![r] = answer]
    /\ phase' = [phase EXCEPT ![r] = "answered"]
    /\ UNCHANGED <<guest, bodyVars, sent, consumed, active>>

\* The handler panics before it sets the future; its guards are dropped.
TaskPanic(r) ==
    /\ phase[r] \in {"spawned", "waiting", "sending"}
    /\ phase' = [phase EXCEPT ![r] = "panicked"]
    /\ UNCHANGED <<guest, bodyVars, sent, futureVars, active>>

-----------------------------------------------------------------------------
(* The monitor task.                                                       *)

\* Defect: the monitor reports whatever the handler did.
MonitorReportAlways(r) ==
    /\ phase[r] \in {"answered", "panicked"}
    /\ value' = [value EXCEPT ![r] = "err"]
    /\ phase' = [phase EXCEPT ![r] = "reported"]
    /\ UNCHANGED <<guest, bodyVars, sent, consumed, active>>

\* Defect: the monitor drops the join error.
MonitorReportDropped(r) ==
    /\ phase[r] = "panicked"
    /\ phase' = [phase EXCEPT ![r] = "reported"]
    /\ UNCHANGED <<guest, bodyVars, sent, futureVars, active>>

\* A panic of the handler is surfaced as an error.
MonitorReport(r) ==
    /\ phase[r] = "panicked"
    /\ value' = [value EXCEPT ![r] = "err"]
    /\ phase' = [phase EXCEPT ![r] = "reported"]
    /\ UNCHANGED <<guest, bodyVars, sent, consumed, active>>

\* Defect: the slot comes back only when the handler did not panic.
MonitorReleaseAnswered(r) ==
    /\ phase[r] = "answered"
    /\ active' = active - 1
    /\ phase' = [phase EXCEPT ![r] = "released"]
    /\ UNCHANGED <<guest, bodyVars, sent, futureVars>>

\* The slot comes back last.
MonitorRelease(r) ==
    /\ phase[r] \in {"answered", "reported"}
    /\ active' = active - 1
    /\ phase' = [phase EXCEPT ![r] = "released"]
    /\ UNCHANGED <<guest, bodyVars, sent, futureVars>>

-----------------------------------------------------------------------------
Init ==
    /\ guest = Free
    /\ phase = [r \in Requests |-> "owned"]
    /\ bodyHandle = [r \in Requests |-> "inRequest"]
    /\ streamTaken = [r \in Requests |-> FALSE]
    /\ finished = [r \in Requests |-> FALSE]
    /\ closed = [r \in Requests |-> FALSE]
    /\ buffered = [r \in Requests |-> 0]
    /\ okBytes = [r \in Requests |-> 0]
    /\ sent = [r \in Requests |-> NotTaken]
    /\ value = [r \in Requests |-> "none"]
    /\ consumed = [r \in Requests |-> FALSE]
    /\ active = 0

\* What the guest chooses to call.
Call(r) ==
    \/ RequestBody(r) \/ DropBody(r) \/ EnterBody(r)
    \/ WriteTooManyZeroes(r)
    \/ \E len \in Lens : StreamWrite(r, len) \/ EnterBlockingWrite(r, len)
    \/ Deny(r) \/ Handle(r) \/ Get(r) \/ EnterBlock(r)

\* How the calls that can block, or that take several steps, come back.
Return(r) ==
    \/ BodyWrite(r) \/ BodyFinish(r) \/ Refuse(r) \/ Block(r)
    \/ \E len \in Lens : BlockingWrite(r, len)

Task(r) == TaskStart(r) \/ TaskTake(r) \/ TaskAnswer(r)
Monitor(r) == MonitorReport(r) \/ MonitorRelease(r)

Next == \E r \in Requests : Call(r) \/ Return(r) \/ Task(r) \/ TaskPanic(r) \/ Monitor(r)

Spec == Init /\ [][Next]_vars

\* The runtime polls every task that can go on, a send ends by its timeouts,
\* and the thread of the guest goes on when its call can return.  Nothing makes
\* the guest call anything.
FairTo(r) == WF_vars(Return(r)) /\ WF_vars(Task(r)) /\ WF_vars(Monitor(r))

Fairness == \A r \in Requests : FairTo(r)

FairSpec == Spec /\ Fairness
===============================================================================
