------------------------------ MODULE HttpProofs ------------------------------
(* Outgoing HTTP, for any number of requests, any limit and any buffer.    *)
EXTENDS HttpProps, FiniteSetTheorems, TLAPS

(* What the phase of a request says about its body and its future, and     *)
(* what a guest inside handle() is doing: the facts the properties rest on.*)
CallInv ==
    \A r \in Requests : guest = <<"handle", r>> => phase[r] = "overLimit"

BodyInv ==
    \A r \in Requests :
      /\ finished[r] => closed[r]
      /\ sent[r] # NotTaken => closed[r]
      /\ sent[r] = NotTaken => buffered[r] = Min(MaxBuffer, okBytes[r])
      /\ phase[r] \in {"owned", "refused", "overLimit", "spawned", "waiting"}
           => sent[r] = NotTaken

FutureInv ==
    \A r \in Requests :
      /\ consumed[r] => value[r] = "none"
      /\ phase[r] \notin {"answered", "reported", "released"}
           => value[r] = "none" /\ ~consumed[r]

ReleasedInv ==
    \A r \in Requests :
      phase[r] \in {"answered", "reported", "released"} => Ready(r)

SlotInv == SlotsExact

HttpInv == CallInv /\ BodyInv /\ BodyIntegrity /\ FutureInv /\ ReleasedInv /\ SlotInv

-----------------------------------------------------------------------------
(* Every step keeps the types.                                             *)
LEMMA HttpType == TypeOK /\ CallInv /\ SlotsExact /\ [Next]_vars => TypeOK'
<1> SUFFICES ASSUME TypeOK, CallInv, SlotsExact, [Next]_vars PROVE TypeOK'
  OBVIOUS
<1> USE HttpAssumption DEF TypeOK, Phases
<1>1. ASSUME NEW r \in Requests, Call(r)
      PROVE  TypeOK'
  <2>1. CASE RequestBody(r)
    BY <2>1 DEF RequestBody, futureVars
  <2>2. CASE DropBody(r)
    BY <2>2 DEF DropBody, futureVars
  <2>3. CASE EnterBody(r)
    BY <2>3 DEF EnterBody, bodyVars, futureVars, Calls
  <2>4. CASE WriteTooManyZeroes(r)
    BY <2>4 DEF WriteTooManyZeroes, futureVars
  <2>5. ASSUME NEW len \in Lens, StreamWrite(r, len)
        PROVE  TypeOK'
    BY <2>5 DEF StreamWrite, Append, Min, futureVars
  <2>6. ASSUME NEW len \in Lens, EnterBlockingWrite(r, len)
        PROVE  TypeOK'
    BY <2>6 DEF EnterBlockingWrite, bodyVars, futureVars, Calls
  <2>7. CASE Deny(r)
    BY <2>7 DEF Deny, bodyVars, futureVars
  <2>8. CASE Handle(r)
    BY <2>8 DEF Handle, bodyVars, futureVars, Calls
  <2>9. CASE Get(r)
    BY <2>9 DEF Get, bodyVars
  <2>10. CASE EnterBlock(r)
    BY <2>10 DEF EnterBlock, bodyVars, futureVars, Calls
  <2> QED
    BY <1>1, <2>1, <2>2, <2>3, <2>4, <2>5, <2>6, <2>7, <2>8, <2>9, <2>10 DEF Call
<1>2. ASSUME NEW r \in Requests, phase[r] \in InFlight \cup {"overLimit"}
      PROVE  active - 1 \in Nat
  <2>1. r \in Slots /\ IsFiniteSet(Slots)
    BY <1>2, FS_Subset DEF Slots
  <2>2. Cardinality(Slots) # 0 /\ Cardinality(Slots) \in Nat
    BY <2>1, FS_EmptySet, FS_CardinalityType
  <2> QED
    BY <2>2 DEF SlotsExact
<1>3. ASSUME NEW r \in Requests, Return(r)
      PROVE  TypeOK'
  <2>1. CASE BodyWrite(r)
    BY <2>1 DEF BodyWrite, futureVars, Calls
  <2>2. CASE BodyFinish(r)
    BY <2>2 DEF BodyFinish, futureVars, Calls
  <2>3. CASE Refuse(r)
    BY <1>2, <2>3 DEF Refuse, bodyVars, futureVars, Calls, CallInv
  <2>4. CASE Block(r)
    BY <2>4 DEF Block, bodyVars, futureVars, Calls
  <2>5. ASSUME NEW len \in Lens, BlockingWrite(r, len)
        PROVE  TypeOK'
    BY <2>5 DEF BlockingWrite, Append, Min, futureVars, Calls
  <2> QED
    BY <1>3, <2>1, <2>2, <2>3, <2>4, <2>5 DEF Return
<1>4. ASSUME NEW r \in Requests, Task(r) \/ TaskPanic(r)
      PROVE  TypeOK'
  <2>1. CASE TaskStart(r)
    BY <2>1 DEF TaskStart, futureVars
  <2>2. CASE TaskTake(r)
    BY <2>2 DEF TaskTake, futureVars
  <2>3. CASE TaskAnswer(r)
    BY <2>3 DEF TaskAnswer, bodyVars
  <2>4. CASE TaskPanic(r)
    BY <2>4 DEF TaskPanic, bodyVars, futureVars
  <2> QED
    BY <1>4, <2>1, <2>2, <2>3, <2>4 DEF Task
<1>5. ASSUME NEW r \in Requests, Monitor(r)
      PROVE  TypeOK'
  <2>1. CASE MonitorReport(r)
    BY <2>1 DEF MonitorReport, bodyVars
  <2>2. CASE MonitorRelease(r)
    BY <1>2, <2>2 DEF MonitorRelease, InFlight, bodyVars, futureVars
  <2> QED
    BY <1>5, <2>1, <2>2 DEF Monitor
<1>6. CASE UNCHANGED vars
  BY <1>6 DEF vars, bodyVars, futureVars
<1> QED
  BY <1>1, <1>3, <1>4, <1>5, <1>6 DEF Next

-----------------------------------------------------------------------------
(* Slots.                                                                  *)

(* A phase change of one request moves that request alone.                 *)
LEMMA PhaseMove ==
    ASSUME TypeOK, NEW r \in Requests, NEW p, phase' = [phase EXCEPT ![r] = p]
    PROVE  /\ IsFiniteSet(Slots) /\ IsFiniteSet(Running)
           /\ Slots' = IF p \in InFlight \cup {"overLimit"} THEN Slots \cup {r}
                                                            ELSE Slots \ {r}
           /\ Running' = IF p \in InFlight THEN Running \cup {r} ELSE Running \ {r}
<1>1. Slots \subseteq Requests /\ Running \subseteq Requests
  BY DEF Slots, Running
<1>2. IsFiniteSet(Slots) /\ IsFiniteSet(Running)
  BY <1>1, HttpAssumption, FS_Subset
<1>3. \A q \in Requests : phase'[q] = IF q = r THEN p ELSE phase[q]
  BY DEF TypeOK
<1>4. Slots' = IF p \in InFlight \cup {"overLimit"} THEN Slots \cup {r} ELSE Slots \ {r}
  BY <1>3 DEF Slots
<1>5. Running' = IF p \in InFlight THEN Running \cup {r} ELSE Running \ {r}
  BY <1>3 DEF Running
<1> QED
  BY <1>2, <1>4, <1>5

(* A request may change its phase freely while it keeps its slot, or while *)
(* it has none; it takes a slot where active is below the limit, or to be  *)
(* refused, and gives it back with the counter.                            *)
LEMMA SlotStep ==
    ASSUME TypeOK, SlotInv, NEW r \in Requests, NEW p,
           phase' = [phase EXCEPT ![r] = p],
           \/ /\ phase[r] \in InFlight <=> p \in InFlight
              /\ phase[r] = "overLimit" <=> p = "overLimit"
              /\ UNCHANGED active
           \/ /\ phase[r] \notin InFlight \cup {"overLimit"}
              /\ p = "overLimit" \/ (p \in InFlight /\ active < MaxConcurrent)
              /\ active' = active + 1
           \/ /\ phase[r] \in InFlight \cup {"overLimit"}
              /\ p \notin InFlight \cup {"overLimit"}
              /\ active' = active - 1
    PROVE  SlotInv'
<1>1. /\ IsFiniteSet(Slots) /\ IsFiniteSet(Running)
      /\ Slots' = IF p \in InFlight \cup {"overLimit"} THEN Slots \cup {r} ELSE Slots \ {r}
      /\ Running' = IF p \in InFlight THEN Running \cup {r} ELSE Running \ {r}
  BY PhaseMove
<1>2. /\ Cardinality(Slots) \in Nat /\ Cardinality(Running) \in Nat
      /\ Cardinality(Running) <= Cardinality(Slots)
  <2>1. Running \in SUBSET Slots
    BY DEF Running, Slots
  <2> QED
    BY <1>1, <2>1, FS_Subset, FS_CardinalityType
<1>3. r \in Slots <=> phase[r] \in InFlight \cup {"overLimit"}
  BY DEF Slots
<1>4. r \in Running <=> phase[r] \in InFlight
  BY DEF Running
<1>5. "overLimit" \notin InFlight
  BY DEF InFlight
<1>6. /\ Cardinality(Slots \cup {r}) =
           IF r \in Slots THEN Cardinality(Slots) ELSE Cardinality(Slots) + 1
      /\ Cardinality(Slots \ {r}) =
           IF r \in Slots THEN Cardinality(Slots) - 1 ELSE Cardinality(Slots)
      /\ Cardinality(Running \cup {r}) =
           IF r \in Running THEN Cardinality(Running) ELSE Cardinality(Running) + 1
      /\ Cardinality(Running \ {r}) =
           IF r \in Running THEN Cardinality(Running) - 1 ELSE Cardinality(Running)
  BY <1>1, FS_AddElement, FS_RemoveElement
<1>7. active = Cardinality(Slots) /\ Cardinality(Running) <= MaxConcurrent
  BY DEF SlotInv, SlotsExact, SlotLimit
<1>8. active' = Cardinality(Slots')
  BY <1>1, <1>2, <1>3, <1>5, <1>6, <1>7
<1>9. Cardinality(Running') <= MaxConcurrent
  BY <1>1, <1>2, <1>4, <1>5, <1>6, <1>7, HttpAssumption
<1> QED
  BY <1>8, <1>9 DEF SlotInv, SlotsExact, SlotLimit

(* Steps that change no phase change no slot.                              *)
LEMMA SlotsUnchanged ==
    ASSUME SlotInv, UNCHANGED <<phase, active>>
    PROVE  SlotInv'
BY DEF SlotInv, SlotsExact, SlotLimit, Slots, Running

(* Every step keeps the count of slots exact and within the limit.         *)
LEMMA NextSlots ==
    ASSUME TypeOK, CallInv, SlotInv, [Next]_vars
    PROVE  SlotInv'
<1>1. CASE UNCHANGED <<phase, active>>
  BY <1>1, SlotsUnchanged
<1>2. ASSUME NEW r \in Requests, Call(r)
      PROVE  SlotInv'
  <2>1. CASE Deny(r)
    BY <2>1, SlotStep DEF Deny, InFlight
  <2>2. CASE Handle(r)
    <3>1. active \in Nat /\ MaxConcurrent \in Nat
      BY HttpAssumption DEF TypeOK
    <3>2. active < MaxConcurrent <=> ~(active >= MaxConcurrent)
      BY <3>1
    <3> QED
      BY <2>2, <3>2, SlotStep DEF Handle, InFlight
  <2> QED
    BY <1>1, <1>2, <2>1, <2>2
    DEF Call, RequestBody, DropBody, EnterBody, WriteTooManyZeroes, StreamWrite,
        EnterBlockingWrite, Get, EnterBlock
<1>3. ASSUME NEW r \in Requests, Return(r)
      PROVE  SlotInv'
  <2>1. CASE Refuse(r)
    BY <2>1, SlotStep DEF Refuse, CallInv, InFlight
  <2> QED
    BY <1>1, <1>3, <2>1 DEF Return, BodyWrite, BodyFinish, Block, BlockingWrite
<1>4. ASSUME NEW r \in Requests, Task(r) \/ TaskPanic(r)
      PROVE  SlotInv'
  <2>1. \E p \in InFlight : phase' = [phase EXCEPT ![r] = p]
    BY <1>4 DEF Task, TaskPanic, TaskStart, TaskTake, TaskAnswer, InFlight
  <2>2. phase[r] \in InFlight /\ UNCHANGED active
    BY <1>4 DEF Task, TaskPanic, TaskStart, TaskTake, TaskAnswer, InFlight
  <2> QED
    BY <2>1, <2>2, SlotStep DEF InFlight
<1>5. ASSUME NEW r \in Requests, Monitor(r)
      PROVE  SlotInv'
  <2>1. CASE MonitorReport(r)
    BY <2>1, SlotStep DEF MonitorReport, InFlight
  <2>2. CASE MonitorRelease(r)
    BY <2>2, SlotStep DEF MonitorRelease, InFlight
  <2> QED
    BY <1>5, <2>1, <2>2 DEF Monitor
<1> QED
  BY <1>1, <1>2, <1>3, <1>4, <1>5 DEF Next, vars

-----------------------------------------------------------------------------
(* Bodies and futures.                                                     *)

(* A guest inside handle() stays on the error path until it leaves.        *)
LEMMA NextCalls ==
    ASSUME TypeOK, CallInv, [Next]_vars
    PROVE  CallInv'
<1> SUFFICES ASSUME NEW q \in Requests, guest' = <<"handle", q>>
             PROVE  phase'[q] = "overLimit"
  BY DEF CallInv
<1> USE DEF CallInv, TypeOK
<1>1. CASE guest' = guest /\ phase' = phase
  BY <1>1
<1>2. ASSUME NEW r \in Requests, Call(r)
      PROVE  phase'[q] = "overLimit"
  BY <1>1, <1>2
  DEF Call, RequestBody, DropBody, EnterBody, WriteTooManyZeroes, StreamWrite,
      EnterBlockingWrite, Deny, Handle, Get, EnterBlock, Free
<1>3. ASSUME NEW r \in Requests, Return(r)
      PROVE  phase'[q] = "overLimit"
  BY <1>3 DEF Return, BodyWrite, BodyFinish, Refuse, Block, BlockingWrite, Free
<1>4. ASSUME NEW r \in Requests, Task(r) \/ TaskPanic(r) \/ Monitor(r)
      PROVE  phase'[q] = "overLimit"
  <2>1. phase[r] # "overLimit" /\ UNCHANGED guest
    BY <1>4 DEF Task, TaskPanic, TaskStart, TaskTake, TaskAnswer, Monitor,
                MonitorReport, MonitorRelease
  <2>2. \E p : phase' = [phase EXCEPT ![r] = p]
    BY <1>4 DEF Task, TaskPanic, TaskStart, TaskTake, TaskAnswer, Monitor,
                MonitorReport, MonitorRelease
  <2> QED
    BY <2>1, <2>2
<1> QED
  BY <1>1, <1>2, <1>3, <1>4 DEF Next, vars

(* Once the data is taken the body is closed, so neither side changes it.  *)
LEMMA NextBodies ==
    ASSUME TypeOK, CallInv, BodyInv, BodyIntegrity, [Next]_vars
    PROVE  BodyInv' /\ BodyIntegrity'
<1> SUFFICES ASSUME NEW q \in Requests
             PROVE  /\ finished'[q] => closed'[q]
                    /\ sent'[q] # NotTaken => closed'[q]
                    /\ sent'[q] = NotTaken => buffered'[q] = Min(MaxBuffer, okBytes'[q])
                    /\ phase'[q] \in {"owned", "refused", "overLimit", "spawned", "waiting"}
                         => sent'[q] = NotTaken
                    /\ sent'[q] # NotTaken => sent'[q] = Min(MaxBuffer, okBytes'[q])
  BY DEF BodyInv, BodyIntegrity, Min, NotTaken
<1> USE DEF BodyInv, BodyIntegrity, TypeOK
<1>1. CASE UNCHANGED <<finished, closed, buffered, okBytes, sent, phase>>
  BY <1>1 DEF Min
<1>2. ASSUME NEW r \in Requests, NEW len \in Lens, Append(r, len),
             UNCHANGED <<finished, closed, sent, phase>>
      PROVE  /\ sent'[q] = NotTaken => buffered'[q] = Min(MaxBuffer, okBytes'[q])
             /\ sent'[q] # NotTaken => okBytes'[q] = okBytes[q]
  <2>1. CASE q # r
    BY <1>2, <2>1 DEF Append
  <2>2. CASE q = r
    <3>1. sent[q] = NotTaken
      BY <1>2, <2>2 DEF Append
    <3>2. buffered[q] = Min(MaxBuffer, okBytes[q]) /\ okBytes[q] \in Nat
          /\ len \in Nat /\ MaxBuffer \in Nat
      BY <3>1, HttpAssumption
    <3>3. Min(MaxBuffer, Min(MaxBuffer, okBytes[q]) + len) = Min(MaxBuffer, okBytes[q] + len)
      BY <3>2 DEF Min
    <3>4. buffered'[q] = Min(MaxBuffer, buffered[q] + len) /\ okBytes'[q] = okBytes[q] + len
      BY <1>2, <2>2 DEF Append
    <3> QED
      BY <1>2, <3>1, <3>2, <3>3, <3>4
  <2> QED
    BY <2>1, <2>2
<1>3. ASSUME NEW r \in Requests, Call(r)
      PROVE  /\ finished'[q] => closed'[q]
             /\ sent'[q] # NotTaken => closed'[q]
             /\ sent'[q] = NotTaken => buffered'[q] = Min(MaxBuffer, okBytes'[q])
             /\ phase'[q] \in {"owned", "refused", "overLimit", "spawned", "waiting"}
                  => sent'[q] = NotTaken
             /\ sent'[q] # NotTaken => sent'[q] = Min(MaxBuffer, okBytes'[q])
  <2>1. CASE \E len \in Lens : StreamWrite(r, len)
    <3>1. PICK len \in Lens : Append(r, len) /\ UNCHANGED <<finished, closed, sent, phase>>
      BY <2>1 DEF StreamWrite
    <3>2. /\ sent'[q] = NotTaken => buffered'[q] = Min(MaxBuffer, okBytes'[q])
          /\ sent'[q] # NotTaken => okBytes'[q] = okBytes[q]
      BY <1>2, <3>1
    <3> QED
      BY <3>1, <3>2
  <2>2. CASE WriteTooManyZeroes(r)
    BY <2>2 DEF WriteTooManyZeroes, Min
  <2>3. CASE Deny(r) \/ Handle(r)
    <3>1. /\ UNCHANGED <<finished, closed, buffered, okBytes, sent>>
          /\ phase'[q] # phase[q] => phase[q] = "owned"
      BY <2>3 DEF Deny, Handle, bodyVars
    <3> QED
      BY <3>1 DEF Min
  <2> QED
    BY <1>1, <1>3, <2>1, <2>2, <2>3
    DEF Call, RequestBody, DropBody, EnterBody, EnterBlockingWrite, Get, EnterBlock, bodyVars
<1>4. ASSUME NEW r \in Requests, Return(r)
      PROVE  /\ finished'[q] => closed'[q]
             /\ sent'[q] # NotTaken => closed'[q]
             /\ sent'[q] = NotTaken => buffered'[q] = Min(MaxBuffer, okBytes'[q])
             /\ phase'[q] \in {"owned", "refused", "overLimit", "spawned", "waiting"}
                  => sent'[q] = NotTaken
             /\ sent'[q] # NotTaken => sent'[q] = Min(MaxBuffer, okBytes'[q])
  <2>1. CASE \E len \in Lens : BlockingWrite(r, len)
    <3>1. UNCHANGED <<finished, closed, sent, phase>>
      BY <2>1 DEF BlockingWrite
    <3>2. CASE UNCHANGED <<buffered, okBytes>>
      BY <1>1, <3>1, <3>2
    <3>3. CASE \E len \in Lens : Append(r, len)
      <4>1. PICK len \in Lens : Append(r, len)
        BY <3>3
      <4>2. /\ sent'[q] = NotTaken => buffered'[q] = Min(MaxBuffer, okBytes'[q])
            /\ sent'[q] # NotTaken => okBytes'[q] = okBytes[q]
        BY <1>2, <3>1, <4>1
      <4> QED
        BY <3>1, <4>2
    <3> QED
      BY <2>1, <3>2, <3>3 DEF BlockingWrite
  <2>2. CASE BodyFinish(r)
    BY <2>2 DEF BodyFinish, Min
  <2>3. CASE Refuse(r)
    <3>1. /\ UNCHANGED <<finished, closed, buffered, okBytes, sent>>
          /\ phase'[q] # phase[q] => phase[q] = "overLimit"
      BY <2>3 DEF Refuse, CallInv, bodyVars
    <3> QED
      BY <3>1 DEF Min
  <2> QED
    BY <1>1, <1>4, <2>1, <2>2, <2>3 DEF Return, BodyWrite, Block, bodyVars
<1>5. ASSUME NEW r \in Requests, Task(r) \/ TaskPanic(r)
      PROVE  /\ finished'[q] => closed'[q]
             /\ sent'[q] # NotTaken => closed'[q]
             /\ sent'[q] = NotTaken => buffered'[q] = Min(MaxBuffer, okBytes'[q])
             /\ phase'[q] \in {"owned", "refused", "overLimit", "spawned", "waiting"}
                  => sent'[q] = NotTaken
             /\ sent'[q] # NotTaken => sent'[q] = Min(MaxBuffer, okBytes'[q])
  <2>1. CASE TaskStart(r)
    BY <2>1 DEF TaskStart, Min
  <2>2. CASE TaskTake(r)
    BY <2>2 DEF TaskTake, Min, NotTaken
  <2>3. CASE TaskAnswer(r) \/ TaskPanic(r)
    <3>1. /\ UNCHANGED <<finished, closed, buffered, okBytes, sent>>
          /\ phase'[q] # phase[q] => phase'[q] \in {"answered", "panicked"}
      BY <2>3 DEF TaskAnswer, TaskPanic, bodyVars
    <3> QED
      BY <3>1 DEF Min
  <2> QED
    BY <1>5, <2>1, <2>2, <2>3 DEF Task
<1>6. ASSUME NEW r \in Requests, Monitor(r)
      PROVE  /\ finished'[q] => closed'[q]
             /\ sent'[q] # NotTaken => closed'[q]
             /\ sent'[q] = NotTaken => buffered'[q] = Min(MaxBuffer, okBytes'[q])
             /\ phase'[q] \in {"owned", "refused", "overLimit", "spawned", "waiting"}
                  => sent'[q] = NotTaken
             /\ sent'[q] # NotTaken => sent'[q] = Min(MaxBuffer, okBytes'[q])
  <2>1. /\ UNCHANGED <<finished, closed, buffered, okBytes, sent>>
        /\ phase'[q] # phase[q] => phase'[q] \in {"reported", "released"}
    BY <1>6 DEF Monitor, MonitorReport, MonitorRelease, bodyVars
  <2> QED
    BY <2>1 DEF Min
<1> QED
  BY <1>1, <1>3, <1>4, <1>5, <1>6 DEF Next, vars, bodyVars

(* The future is set once, before the slot comes back, and read once.      *)
LEMMA NextFutures ==
    ASSUME TypeOK, CallInv, FutureInv, [Next]_vars
    PROVE  FutureInv'
<1> SUFFICES ASSUME NEW q \in Requests
             PROVE  /\ consumed'[q] => value'[q] = "none"
                    /\ phase'[q] \notin {"answered", "reported", "released"}
                         => value'[q] = "none" /\ ~consumed'[q]
  BY DEF FutureInv
<1> USE DEF FutureInv, TypeOK
<1>1. CASE UNCHANGED <<value, consumed, phase>>
  BY <1>1
<1>2. ASSUME NEW r \in Requests, NEW p,
             UNCHANGED <<value, consumed>>, phase' = [phase EXCEPT ![r] = p],
             \/ phase[r] \notin {"answered", "reported", "released"}
             \/ p \in {"answered", "reported", "released"}
      PROVE  /\ consumed'[q] => value'[q] = "none"
             /\ phase'[q] \notin {"answered", "reported", "released"}
                  => value'[q] = "none" /\ ~consumed'[q]
  BY <1>2
<1>3. ASSUME NEW r \in Requests, Call(r)
      PROVE  /\ consumed'[q] => value'[q] = "none"
             /\ phase'[q] \notin {"answered", "reported", "released"}
                  => value'[q] = "none" /\ ~consumed'[q]
  <2>1. CASE Deny(r) \/ Handle(r)
    BY <1>2, <2>1 DEF Deny, Handle, futureVars
  <2>2. CASE Get(r)
    BY <2>2 DEF Get
  <2> QED
    BY <1>1, <1>3, <2>1, <2>2
    DEF Call, RequestBody, DropBody, EnterBody, WriteTooManyZeroes, StreamWrite,
        EnterBlockingWrite, EnterBlock, futureVars
<1>4. ASSUME NEW r \in Requests, Return(r)
      PROVE  /\ consumed'[q] => value'[q] = "none"
             /\ phase'[q] \notin {"answered", "reported", "released"}
                  => value'[q] = "none" /\ ~consumed'[q]
  BY <1>1, <1>2, <1>4
  DEF Return, BodyWrite, BodyFinish, Refuse, Block, BlockingWrite, CallInv, futureVars
<1>5. ASSUME NEW r \in Requests, Task(r) \/ TaskPanic(r)
      PROVE  /\ consumed'[q] => value'[q] = "none"
             /\ phase'[q] \notin {"answered", "reported", "released"}
                  => value'[q] = "none" /\ ~consumed'[q]
  <2>1. CASE TaskAnswer(r)
    BY <2>1 DEF TaskAnswer
  <2>2. CASE TaskStart(r) \/ TaskTake(r) \/ TaskPanic(r)
    BY <1>2, <2>2 DEF TaskStart, TaskTake, TaskPanic, futureVars
  <2> QED
    BY <1>5, <2>1, <2>2 DEF Task
<1>6. ASSUME NEW r \in Requests, Monitor(r)
      PROVE  /\ consumed'[q] => value'[q] = "none"
             /\ phase'[q] \notin {"answered", "reported", "released"}
                  => value'[q] = "none" /\ ~consumed'[q]
  <2>1. CASE MonitorReport(r)
    BY <2>1 DEF MonitorReport
  <2>2. CASE MonitorRelease(r)
    BY <1>2, <2>2 DEF MonitorRelease, futureVars
  <2> QED
    BY <1>6, <2>1, <2>2 DEF Monitor
<1> QED
  BY <1>1, <1>3, <1>4, <1>5, <1>6 DEF Next, vars, futureVars

(* A slot comes back only after the answer is there.                       *)
LEMMA NextReleased ==
    ASSUME TypeOK, CallInv, ReleasedInv, [Next]_vars
    PROVE  ReleasedInv'
<1> SUFFICES ASSUME NEW q \in Requests,
                    phase'[q] \in {"answered", "reported", "released"}
             PROVE  consumed'[q] \/ value'[q] # "none"
  BY DEF ReleasedInv, Ready
<1> USE DEF ReleasedInv, Ready, TypeOK
<1>1. CASE UNCHANGED <<value, consumed, phase>>
  BY <1>1
<1>2. ASSUME NEW r \in Requests, NEW p,
             UNCHANGED <<value, consumed>>, phase' = [phase EXCEPT ![r] = p],
             \/ p \notin {"answered", "reported", "released"}
             \/ phase[r] \in {"answered", "reported", "released"}
      PROVE  consumed'[q] \/ value'[q] # "none"
  BY <1>2
<1>3. ASSUME NEW r \in Requests, Call(r)
      PROVE  consumed'[q] \/ value'[q] # "none"
  <2>1. CASE Deny(r) \/ Handle(r)
    BY <1>2, <2>1 DEF Deny, Handle, futureVars
  <2>2. CASE Get(r)
    BY <2>2 DEF Get
  <2> QED
    BY <1>1, <1>3, <2>1, <2>2
    DEF Call, RequestBody, DropBody, EnterBody, WriteTooManyZeroes, StreamWrite,
        EnterBlockingWrite, EnterBlock, futureVars
<1>4. ASSUME NEW r \in Requests, Return(r)
      PROVE  consumed'[q] \/ value'[q] # "none"
  BY <1>1, <1>2, <1>4
  DEF Return, BodyWrite, BodyFinish, Refuse, Block, BlockingWrite, futureVars
<1>5. ASSUME NEW r \in Requests, Task(r) \/ TaskPanic(r)
      PROVE  consumed'[q] \/ value'[q] # "none"
  <2>1. CASE TaskAnswer(r)
    BY <2>1 DEF TaskAnswer
  <2>2. CASE TaskStart(r) \/ TaskTake(r) \/ TaskPanic(r)
    BY <1>2, <2>2 DEF TaskStart, TaskTake, TaskPanic, futureVars
  <2> QED
    BY <1>5, <2>1, <2>2 DEF Task
<1>6. ASSUME NEW r \in Requests, Monitor(r)
      PROVE  consumed'[q] \/ value'[q] # "none"
  <2>1. CASE MonitorReport(r)
    BY <2>1 DEF MonitorReport
  <2>2. CASE MonitorRelease(r)
    BY <1>2, <2>2 DEF MonitorRelease, futureVars
  <2> QED
    BY <1>6, <2>1, <2>2 DEF Monitor
<1> QED
  BY <1>1, <1>3, <1>4, <1>5, <1>6 DEF Next, vars, futureVars

(* The invariant holds at first, and every step keeps it.                  *)
LEMMA InitHttp == Init => TypeOK /\ HttpInv
<1> SUFFICES ASSUME Init PROVE TypeOK /\ HttpInv
  OBVIOUS
<1>1. TypeOK
  BY DEF Init, TypeOK, Phases, Calls
<1>2. Slots = {} /\ Running = {}
  BY DEF Init, Slots, Running, InFlight
<1>3. SlotInv
  BY <1>2, FS_EmptySet, HttpAssumption DEF Init, SlotInv, SlotsExact, SlotLimit
<1>4. CallInv /\ BodyInv /\ BodyIntegrity /\ FutureInv /\ ReleasedInv
  BY HttpAssumption
  DEF Init, CallInv, BodyInv, BodyIntegrity, FutureInv, ReleasedInv, Min, NotTaken, Free
<1> QED
  BY <1>1, <1>3, <1>4 DEF HttpInv

\* Every step keeps the types and the invariant of the outgoing request.
LEMMA NextHttp == TypeOK /\ HttpInv /\ [Next]_vars => TypeOK' /\ HttpInv'
BY HttpType, NextSlots, NextCalls, NextBodies, NextFutures, NextReleased DEF HttpInv, SlotInv

(* The tasks, the locks and the counter stay within their types.           *)
THEOREM HttpTypeCorrect == Spec => []TypeOK
<1>1. Spec => [](TypeOK /\ HttpInv)
  BY InitHttp, NextHttp, PTL DEF Spec
<1> QED
  BY <1>1, PTL

(* active_requests is exact: no path, panics included, leaks or returns a  *)
(* slot twice.                                                             *)
THEOREM SlotsCorrect == Spec => []SlotsExact
<1>1. Spec => [](TypeOK /\ HttpInv)
  BY InitHttp, NextHttp, PTL DEF Spec
<1>2. HttpInv => SlotsExact
  BY DEF HttpInv, SlotInv
<1> QED
  BY <1>1, <1>2, PTL

(* What goes out is what the guest was told is written, up to the cap.     *)
THEOREM BodyCorrect == Spec => []BodyIntegrity
<1>1. Spec => [](TypeOK /\ HttpInv)
  BY InitHttp, NextHttp, PTL DEF Spec
<1>2. HttpInv => BodyIntegrity
  BY DEF HttpInv
<1> QED
  BY <1>1, <1>2, PTL

-----------------------------------------------------------------------------
(* HttpOutgoing implements HttpContract: each step of the guest and of the *)
(* tasks is a step of the contract or changes nothing it shows.            *)

(* A step that moves the phase of r and leaves the futures alone shows as  *)
(* a move of the status of r alone.                                        *)
LEMMA StatusMove ==
    ASSUME TypeOK, NEW r \in Requests, NEW p,
           phase' = [phase EXCEPT ![r] = p], UNCHANGED futureVars
    PROVE  /\ UNCHANGED value
           /\ \A q \in Requests : q # r => Status(q)' = Status(q)
           /\ Status(r)' = IF p \in {"owned", "overLimit"} THEN "unsent"
                           ELSE IF p = "refused" THEN "refused"
                           ELSE IF consumed[r] THEN "delivered"
                           ELSE IF value[r] # "none" THEN "answered"
                           ELSE "pending"
<1>1. \A q \in Requests : phase'[q] = IF q = r THEN p ELSE phase[q]
  BY DEF TypeOK
<1> QED
  BY <1>1 DEF Status, futureVars

(* Phases of one request the contract does not tell apart.                 *)
LEMMA Hidden ==
    ASSUME TypeOK, NEW r \in Requests, NEW p,
           phase' = [phase EXCEPT ![r] = p], UNCHANGED futureVars,
           \/ phase[r] \in {"owned", "overLimit"} /\ p \in {"owned", "overLimit"}
           \/ /\ phase[r] \notin {"owned", "overLimit", "refused"}
              /\ p \notin {"owned", "overLimit", "refused"}
    PROVE  UNCHANGED Contract!vars
<1>1. UNCHANGED value /\ \A q \in Requests : Status(q)' = Status(q)
  <2>1. Status(r)' = Status(r)
    BY StatusMove DEF Status
  <2> QED
    BY <2>1, StatusMove
<1> QED
  BY <1>1 DEF Contract!vars

(* A request refused, before or after it was counted.                      *)
LEMMA RefuseStep ==
    ASSUME TypeOK, NEW r \in Requests, phase[r] \in {"owned", "overLimit"},
           phase' = [phase EXCEPT ![r] = "refused"], UNCHANGED futureVars
    PROVE  Contract!Next
<1>1. Status(r) = "unsent"
  BY DEF Status
<1>2. /\ UNCHANGED value /\ Status(r)' = "refused"
      /\ \A q \in Requests : q # r => Status(q)' = Status(q)
  BY StatusMove
<1>3. Contract!Refuse(r)
  BY <1>1, <1>2 DEF Contract!Refuse, Contract!Move
<1> QED
  BY <1>3 DEF Contract!Next

(* A request accepted below the limit: what the contract counts as pending *)
(* holds a slot.                                                           *)
LEMMA AcceptStep ==
    ASSUME TypeOK, HttpInv, NEW r \in Requests, phase[r] = "owned",
           active < MaxConcurrent,
           phase' = [phase EXCEPT ![r] = "spawned"], UNCHANGED futureVars
    PROVE  Contract!Next
<1>1. value[r] = "none" /\ ~consumed[r]
  BY DEF HttpInv, FutureInv
<1>2. Status(r) = "unsent"
  BY DEF Status
<1>3. /\ UNCHANGED value /\ Status(r)' = "pending"
      /\ \A q \in Requests : q # r => Status(q)' = Status(q)
  <2>1. Status(r)' = "pending"
    <3>1. phase'[r] = "spawned" /\ value'[r] = "none" /\ ~consumed'[r]
      BY <1>1 DEF TypeOK, futureVars
    <3> QED
      BY <3>1 DEF Status
  <2>2. UNCHANGED value /\ \A q \in Requests : q # r => Status(q)' = Status(q)
    BY StatusMove
  <2> QED
    BY <2>1, <2>2
<1>4. Contract!Cardinality(Contract!Pending) < MaxConcurrent
  <2>1. \A q \in Requests : Status(q) = "pending" => q \in Slots \/ phase[q] = "released"
    BY DEF Status, Slots, TypeOK, Phases, InFlight
  <2>2. \A q \in Requests : phase[q] = "released" => Status(q) # "pending"
    BY DEF Status, HttpInv, ReleasedInv, Ready
  <2>3. Contract!Pending \in SUBSET Slots
    BY <2>1, <2>2 DEF Contract!Pending
  <2>4. Slots \in SUBSET Requests
    BY DEF Slots
  <2>5. IsFiniteSet(Slots)
    BY <2>4, HttpAssumption, FS_Subset
  <2>6. /\ Cardinality(Contract!Pending) <= Cardinality(Slots)
        /\ Cardinality(Contract!Pending) \in Nat /\ Cardinality(Slots) \in Nat
    BY <2>3, <2>5, FS_Subset, FS_CardinalityType
  <2>7. active = Cardinality(Slots)
    BY DEF HttpInv, SlotInv, SlotsExact
  <2>8. Contract!Cardinality(Contract!Pending) = Cardinality(Contract!Pending)
    BY DEF Contract!Cardinality, Cardinality
  <2> QED
    BY <2>6, <2>7, <2>8, HttpAssumption
<1>5. Contract!Accept(r)
  BY <1>2, <1>3, <1>4 DEF Contract!Accept, Contract!Move
<1> QED
  BY <1>5 DEF Contract!Next

(* An answer, from the handler or from its monitor.                        *)
LEMMA AnswerStep ==
    ASSUME TypeOK, HttpInv, NEW r \in Requests, phase[r] \in {"sending", "panicked"},
           NEW p \in {"answered", "reported"}, NEW a \in {"ok", "err"},
           phase' = [phase EXCEPT ![r] = p],
           value' = [value EXCEPT ![r] = a], UNCHANGED consumed
    PROVE  Contract!Next
<1>1. value[r] = "none" /\ ~consumed[r]
  BY DEF HttpInv, FutureInv
<1>2. /\ Status(r) = "pending" /\ Status(r)' = "answered"
      /\ \A q \in Requests : q # r => Status(q)' = Status(q)
  <2>1. \A q \in Requests : /\ phase'[q] = IF q = r THEN p ELSE phase[q]
                            /\ value'[q] = IF q = r THEN a ELSE value[q]
    BY DEF TypeOK
  <2> QED
    BY <1>1, <2>1 DEF Status
<1>3. Contract!Answer(r)
  BY <1>2 DEF Contract!Answer, Contract!Move
<1> QED
  BY <1>3 DEF Contract!Next

(* The guest reads the answer.                                             *)
LEMMA DeliverStep ==
    ASSUME TypeOK, NEW r \in Requests, Get(r)
    PROVE  Contract!Next
<1>1. /\ Status(r) = "answered" /\ Status(r)' = "delivered"
      /\ \A q \in Requests : q # r => Status(q)' = Status(q)
  <2>1. \A q \in Requests : /\ phase'[q] = phase[q]
                            /\ value'[q] = IF q = r THEN "none" ELSE value[q]
                            /\ consumed'[q] = IF q = r THEN TRUE ELSE consumed[q]
    BY DEF TypeOK, Get
  <2>2. phase[r] \notin {"owned", "overLimit", "refused"} /\ ~consumed[r] /\ value[r] # "none"
    BY DEF Get, HasFuture, InFlight
  <2> QED
    BY <2>1, <2>2 DEF Status
<1>2. Contract!Deliver(r)
  BY <1>1 DEF Contract!Deliver, Contract!Move, Get
<1> QED
  BY <1>2 DEF Contract!Next

(* Each step of the tasks and the guest is a step of the contract, or none.*)
LEMMA ContractStep == TypeOK /\ HttpInv /\ [Next]_vars => [Contract!Next]_(Contract!vars)
<1> SUFFICES ASSUME TypeOK, HttpInv, [Next]_vars
             PROVE  Contract!Next \/ UNCHANGED Contract!vars
  OBVIOUS
<1>1. CASE UNCHANGED <<phase, futureVars>>
  BY <1>1 DEF Contract!vars, Status, futureVars
<1>2. ASSUME NEW r \in Requests, Call(r)
      PROVE  Contract!Next \/ UNCHANGED Contract!vars
  <2>1. CASE Deny(r)
    BY <2>1, RefuseStep DEF Deny
  <2>2. CASE Handle(r)
    <3>1. CASE active >= MaxConcurrent
      BY <2>2, <3>1, Hidden DEF Handle
    <3>2. CASE ~(active >= MaxConcurrent)
      <4>1. active < MaxConcurrent
        BY <3>2, HttpAssumption DEF TypeOK
      <4> QED
        BY <2>2, <3>2, <4>1, AcceptStep DEF Handle
    <3> QED
      BY <3>1, <3>2
  <2>3. CASE Get(r)
    BY <2>3, DeliverStep
  <2> QED
    BY <1>1, <1>2, <2>1, <2>2, <2>3
    DEF Call, RequestBody, DropBody, EnterBody, WriteTooManyZeroes, StreamWrite,
        EnterBlockingWrite, EnterBlock
<1>3. ASSUME NEW r \in Requests, Return(r)
      PROVE  Contract!Next \/ UNCHANGED Contract!vars
  <2>1. CASE Refuse(r)
    BY <2>1, RefuseStep DEF Refuse, HttpInv, CallInv
  <2> QED
    BY <1>1, <1>3, <2>1 DEF Return, BodyWrite, BodyFinish, Block, BlockingWrite
<1>4. ASSUME NEW r \in Requests, Task(r) \/ TaskPanic(r)
      PROVE  Contract!Next \/ UNCHANGED Contract!vars
  <2>1. CASE TaskAnswer(r)
    BY <2>1, AnswerStep DEF TaskAnswer
  <2>2. CASE TaskStart(r) \/ TaskTake(r) \/ TaskPanic(r)
    BY <2>2, Hidden DEF TaskStart, TaskTake, TaskPanic
  <2> QED
    BY <1>4, <2>1, <2>2 DEF Task
<1>5. ASSUME NEW r \in Requests, Monitor(r)
      PROVE  Contract!Next \/ UNCHANGED Contract!vars
  <2>1. CASE MonitorReport(r)
    BY <2>1, AnswerStep DEF MonitorReport
  <2>2. CASE MonitorRelease(r)
    BY <2>2, Hidden DEF MonitorRelease
  <2> QED
    BY <1>5, <2>1, <2>2 DEF Monitor
<1>6. CASE UNCHANGED vars
  BY <1>1, <1>6 DEF vars
<1> QED
  BY <1>2, <1>3, <1>4, <1>5, <1>6 DEF Next

(* At first the guest owns every request, and no answer waits.             *)
LEMMA ContractInit == Init => Contract!Init
BY DEF Init, Contract!Init, Status

(* Outgoing HTTP keeps its contract: each accepted request gets at most    *)
(* one answer, which no later event replaces and the guest reads once, and *)
(* no more than MaxConcurrent requests wait for theirs.                    *)
THEOREM ContractKept == Spec => ContractSpec
<1>1. Spec => [](TypeOK /\ HttpInv)
  BY InitHttp, NextHttp, PTL DEF Spec
<1> QED
  BY <1>1, ContractInit, ContractStep, PTL DEF Spec, ContractSpec, Contract!Spec

-----------------------------------------------------------------------------
(* Answers arrive and calls return.                                        *)

(* When the tasks of a request and a call on it can go on: their guards.   *)
TaskMoves(r) == phase[r] \in {"spawned", "sending"} \/ (phase[r] = "waiting" /\ finished[r])

MonitorMoves(r) == phase[r] \in {"answered", "panicked", "reported"}

ReturnMoves(r) ==
    \/ guest = <<"handle", r>>
    \/ InBodyCall(r) /\ phase[r] # "sending"
    \/ BlockedOn(r) /\ Ready(r)
    \/ \E len \in Lens : guest = <<"blockingWrite", r, len>>
                         /\ (closed[r] \/ buffered[r] < MaxBuffer)

(* A guard says when its action can be taken.                              *)
GuardsEnable ==
    \A r \in Requests :
        /\ TaskMoves(r) <=> ENABLED <<Task(r)>>_vars
        /\ MonitorMoves(r) <=> ENABLED <<Monitor(r)>>_vars
        /\ ReturnMoves(r) <=> ENABLED <<Return(r)>>_vars

(* Weak fairness, with the guards in the place of ENABLED: whoever can go  *)
(* on for good does go on.                                                 *)
Scheduled(r) ==
    /\ []<>~TaskMoves(r) \/ []<><<Task(r)>>_vars
    /\ []<>~MonitorMoves(r) \/ []<><<Monitor(r)>>_vars
    /\ []<>~ReturnMoves(r) \/ []<><<Return(r)>>_vars

(* That is what the fairness of the specification says.                    *)
LEMMA FairRequest ==
    ASSUME NEW r \in Requests
    PROVE  FairTo(r) /\ []GuardsEnable => Scheduled(r)
<1>1. GuardsEnable => /\ TaskMoves(r) <=> ENABLED <<Task(r)>>_vars
                      /\ MonitorMoves(r) <=> ENABLED <<Monitor(r)>>_vars
                      /\ ReturnMoves(r) <=> ENABLED <<Return(r)>>_vars
  BY DEF GuardsEnable
<1> QED BY <1>1, PTL DEF FairTo, Scheduled

(* A call on the body is made with its handle, one that blocks on a future *)
(* that is there, and a handler waits only for a guest that has the stream.*)
WaitInv ==
    \A r \in Requests :
      /\ InBodyCall(r) => bodyHandle[r] = "held"
      /\ BlockedOn(r) => HasFuture(r)
      /\ phase[r] = "waiting" => streamTaken[r] \/ finished[r]

(* The phases of a request go forward only.                                *)
Onward ==
    {<<"owned", "refused">>, <<"owned", "overLimit">>, <<"owned", "spawned">>,
     <<"overLimit", "refused">>, <<"spawned", "waiting">>, <<"waiting", "sending">>,
     <<"sending", "answered">>, <<"spawned", "panicked">>, <<"waiting", "panicked">>,
     <<"sending", "panicked">>, <<"panicked", "reported">>,
     <<"answered", "released">>, <<"reported", "released">>}

(* No step leaves that order.                                              *)
LEMMA PhasesGoOn ==
    ASSUME TypeOK, CallInv, [Next]_vars, NEW r \in Requests
    PROVE  phase'[r] = phase[r] \/ <<phase[r], phase'[r]>> \in Onward
<1>1. CASE UNCHANGED phase
  BY <1>1
<1>2. ASSUME NEW q \in Requests, Call(q), phase' # phase
      PROVE  phase'[r] = phase[r] \/ <<phase[r], phase'[r]>> \in Onward
  <2>1. phase[q] = "owned" /\ \E p \in {"refused", "overLimit", "spawned"} : phase' = [phase EXCEPT ![q] = p]
    BY <1>2 DEF Call, RequestBody, DropBody, EnterBody, WriteTooManyZeroes, StreamWrite,
                EnterBlockingWrite, Deny, Handle, Get, EnterBlock
  <2> QED BY <2>1 DEF TypeOK, Onward
<1>3. ASSUME NEW q \in Requests, Return(q), phase' # phase
      PROVE  phase'[r] = phase[r] \/ <<phase[r], phase'[r]>> \in Onward
  <2>1. phase[q] = "overLimit" /\ phase' = [phase EXCEPT ![q] = "refused"]
    BY <1>3 DEF Return, BodyWrite, BodyFinish, Refuse, Block, BlockingWrite, CallInv
  <2> QED BY <2>1 DEF TypeOK, Onward
<1>4. ASSUME NEW q \in Requests, Task(q) \/ TaskPanic(q) \/ Monitor(q)
      PROVE  phase'[r] = phase[r] \/ <<phase[r], phase'[r]>> \in Onward
  <2>1. \E p \in Phases : <<phase[q], p>> \in Onward /\ phase' = [phase EXCEPT ![q] = p]
    BY <1>4 DEF Task, TaskStart, TaskTake, TaskAnswer, TaskPanic, Monitor, MonitorReport,
                MonitorRelease, Onward, Phases
  <2> QED BY <2>1 DEF TypeOK
<1> QED
  BY <1>1, <1>2, <1>3, <1>4 DEF Next, vars

(* What a step may do to the body of a request and to a call on it.        *)
LEMMA BodySteps ==
    ASSUME TypeOK, WaitInv, [Next]_vars, NEW r \in Requests
    PROVE  /\ finished[r] => finished'[r]
           /\ streamTaken[r] => streamTaken'[r]
           /\ streamTaken'[r] => streamTaken[r] \/ bodyHandle[r] = "held"
           /\ bodyHandle'[r] = "held" => bodyHandle[r] = "held" \/ phase[r] = "owned"
           /\ InBodyCall(r)' => bodyHandle'[r] = "held"
           /\ phase'[r] = "waiting" => phase[r] = "waiting" \/ streamTaken'[r] \/ finished'[r]
<1> USE DEF TypeOK, WaitInv, InBodyCall
<1>1. ASSUME NEW q \in Requests, Call(q)
      PROVE  /\ UNCHANGED <<finished, streamTaken>>
             /\ phase'[r] = "waiting" => phase[r] = "waiting"
             /\ bodyHandle'[r] = "held" => bodyHandle[r] = "held" \/ phase[r] = "owned"
             /\ InBodyCall(r)' => bodyHandle'[r] = "held"
  <2>1. CASE RequestBody(q)
    BY <2>1 DEF RequestBody, Free
  <2>2. CASE DropBody(q)
    BY <2>2 DEF DropBody, Free
  <2>3. CASE EnterBody(q)
    BY <2>3 DEF EnterBody, bodyVars
  <2>4. CASE WriteTooManyZeroes(q)
    BY <2>4 DEF WriteTooManyZeroes
  <2>5. CASE \E len \in Lens : StreamWrite(q, len) \/ EnterBlockingWrite(q, len)
    BY <2>5 DEF StreamWrite, EnterBlockingWrite, bodyVars
  <2>6. CASE Deny(q) \/ Handle(q)
    BY <2>6 DEF Deny, Handle, bodyVars, Free
  <2>7. CASE Get(q) \/ EnterBlock(q)
    BY <2>7 DEF Get, EnterBlock, bodyVars
  <2> QED BY <1>1, <2>1, <2>2, <2>3, <2>4, <2>5, <2>6, <2>7 DEF Call
<1>2. ASSUME NEW q \in Requests, Return(q)
      PROVE  /\ guest' = Free
             /\ finished[r] => finished'[r]
             /\ streamTaken[r] => streamTaken'[r]
             /\ streamTaken'[r] => streamTaken[r] \/ bodyHandle[r] = "held"
             /\ bodyHandle'[r] = "held" => bodyHandle[r] = "held"
             /\ phase'[r] = "waiting" => phase[r] = "waiting"
  BY <1>2 DEF Return, BodyWrite, BodyFinish, Refuse, Block, BlockingWrite, bodyVars
<1>3. ASSUME NEW q \in Requests, Task(q) \/ TaskPanic(q) \/ Monitor(q)
      PROVE  /\ UNCHANGED <<guest, bodyHandle, streamTaken>>
             /\ finished[r] => finished'[r]
             /\ phase'[r] = "waiting" => phase[r] = "waiting" \/ streamTaken'[r] \/ finished'[r]
  BY <1>3 DEF Task, TaskStart, TaskTake, TaskAnswer, TaskPanic, Monitor, MonitorReport,
              MonitorRelease, bodyVars
<1>4. CASE UNCHANGED vars
  BY <1>4 DEF vars, bodyVars
<1>5. ASSUME NEW q \in Requests, Call(q) \/ Return(q) \/ Task(q) \/ TaskPanic(q) \/ Monitor(q)
      PROVE  /\ finished[r] => finished'[r]
             /\ streamTaken[r] => streamTaken'[r]
             /\ streamTaken'[r] => streamTaken[r] \/ bodyHandle[r] = "held"
             /\ bodyHandle'[r] = "held" => bodyHandle[r] = "held" \/ phase[r] = "owned"
             /\ InBodyCall(r)' => bodyHandle'[r] = "held"
             /\ phase'[r] = "waiting" => phase[r] = "waiting" \/ streamTaken'[r] \/ finished'[r]
  <2>1. CASE Call(q)
    BY <1>1, <2>1
  <2>2. CASE Return(q)
    BY <1>2, <2>2 DEF Free
  <2>3. CASE Task(q) \/ TaskPanic(q) \/ Monitor(q)
    BY <1>3, <2>3
  <2> QED BY <1>5, <2>1, <2>2, <2>3
<1> QED
  BY <1>4, <1>5 DEF Next

(* A guest that blocks stays blocked until its call returns.               *)
LEMMA CallsStay ==
    ASSUME TypeOK, [Next]_vars, NEW r \in Requests
    PROVE  /\ InBodyCall(r) => InBodyCall(r)' \/ guest' = Free
           /\ BlockedOn(r) => BlockedOn(r)' \/ guest' = Free
           /\ BlockedOn(r)' => BlockedOn(r) \/ HasFuture(r)
           /\ guest # Free => \A q \in Requests : ~Get(q)
<1> USE DEF InBodyCall, BlockedOn, Free
<1>1. guest' = guest \/ guest' = Free \/ guest = Free
  BY DEF Next, vars, Call, RequestBody, DropBody, EnterBody, WriteTooManyZeroes, StreamWrite,
         EnterBlockingWrite, Deny, Handle, Get, EnterBlock, Return, BodyWrite, BodyFinish,
         Refuse, Block, BlockingWrite, Task, TaskStart, TaskTake, TaskAnswer, TaskPanic,
         Monitor, MonitorReport, MonitorRelease
<1>2. BlockedOn(r)' => BlockedOn(r) \/ HasFuture(r)
  <2> SUFFICES ASSUME BlockedOn(r)', ~BlockedOn(r) PROVE HasFuture(r)
    OBVIOUS
  <2>1. EnterBlock(r)
    BY DEF Next, vars, Call, RequestBody, DropBody, EnterBody, WriteTooManyZeroes, StreamWrite,
         EnterBlockingWrite, Deny, Handle, Get, EnterBlock, Return, BodyWrite, BodyFinish,
         Refuse, Block, BlockingWrite, Task, TaskStart, TaskTake, TaskAnswer, TaskPanic,
         Monitor, MonitorReport, MonitorRelease
  <2> QED BY <2>1 DEF EnterBlock
<1>3. guest # Free => \A q \in Requests : ~Get(q)
  BY DEF Get
<1> QED BY <1>1, <1>2, <1>3

LiveInv == TypeOK /\ HttpInv /\ WaitInv

(* It holds in every reachable state.                                      *)
LEMMA LiveInvariant == Spec => []LiveInv
<1>1. Init => LiveInv
  <2>1. Init => WaitInv
    BY DEF Init, WaitInv, InBodyCall, BlockedOn, Free
  <2> QED BY <2>1, InitHttp DEF LiveInv
<1>2. LiveInv /\ [Next]_vars => LiveInv'
  <2> SUFFICES ASSUME LiveInv, [Next]_vars PROVE LiveInv'
    OBVIOUS
  <2> USE DEF LiveInv
  <2>1. ASSUME NEW r \in Requests, BlockedOn(r)' PROVE HasFuture(r)'
    <3>1. HasFuture(r)
      BY <2>1, CallsStay DEF WaitInv
    <3>2. phase'[r] = phase[r] \/ <<phase[r], phase'[r]>> \in Onward
      BY PhasesGoOn DEF HttpInv
    <3> QED BY <3>1, <3>2 DEF HasFuture, InFlight, Onward
  <2>2. WaitInv'
    BY <2>1, BodySteps DEF WaitInv
  <2> QED BY <2>2, NextHttp
<1> QED BY <1>1, <1>2, PTL DEF Spec

(* Once the guest can no longer hold up the handler, it never can again.   *)
LEMMA CompleteStays ==
    ASSUME LiveInv, [Next]_vars, NEW r \in Requests, phase[r] \in InFlight \cup {"released"}, Completable(r)
    PROVE  Completable(r)'
  BY BodySteps DEF LiveInv, Completable, InFlight

(* A request in a phase, with a body the handler need not wait for.        *)
At(r, p) == phase[r] = p /\ Completable(r)

(* The steps between the phases of such a request.                         *)
LEMMA AtStays ==
    ASSUME LiveInv, [Next]_vars, NEW r \in Requests
    PROVE  /\ At(r, "spawned") => At(r, "spawned")' \/ At(r, "waiting")' \/ At(r, "panicked")'
           /\ At(r, "waiting") => At(r, "waiting")' \/ At(r, "sending")' \/ At(r, "panicked")'
           /\ At(r, "sending") => At(r, "sending")' \/ At(r, "answered")' \/ At(r, "panicked")'
           /\ At(r, "panicked") => At(r, "panicked")' \/ At(r, "reported")'
           /\ At(r, "answered") => At(r, "answered")' \/ At(r, "released")'
           /\ At(r, "reported") => At(r, "reported")' \/ At(r, "released")'
<1>1. phase'[r] = phase[r] \/ <<phase[r], phase'[r]>> \in Onward
  BY PhasesGoOn DEF LiveInv, HttpInv
<1>2. phase[r] \in InFlight /\ Completable(r) => Completable(r)'
  BY CompleteStays
<1> QED BY <1>1, <1>2 DEF At, Onward, InFlight

(* The tasks do go on where they can, whatever else happens.               *)
LEMMA TasksGoOn ==
    ASSUME LiveInv, NEW r \in Requests
    PROVE  /\ Task(r) => phase'[r] # phase[r]
           /\ Monitor(r) => phase'[r] # phase[r]
           /\ At(r, "spawned") \/ At(r, "waiting") \/ At(r, "sending") => TaskMoves(r)
           /\ At(r, "panicked") \/ At(r, "answered") \/ At(r, "reported") => MonitorMoves(r)
           /\ At(r, "released") => Ready(r)
<1>1. Task(r) => phase'[r] # phase[r]
  BY DEF LiveInv, TypeOK, Task, TaskStart, TaskTake, TaskAnswer
<1>2. Monitor(r) => phase'[r] # phase[r]
  BY DEF LiveInv, TypeOK, Monitor, MonitorReport, MonitorRelease
<1>3. At(r, "waiting") => finished[r]
  BY DEF LiveInv, WaitInv, At, Completable
<1>4. At(r, "released") => Ready(r)
  BY DEF LiveInv, HttpInv, ReleasedInv, At
<1> QED BY <1>1, <1>2, <1>3, <1>4 DEF At, TaskMoves, MonitorMoves

(* A request whose body is complete is answered and gives its slot back.   *)
LEMMA AnswerArrives ==
    ASSUME NEW r \in Requests
    PROVE  Spec /\ Scheduled(r) =>
             (phase[r] \in InFlight /\ Completable(r) ~> Ready(r) /\ phase[r] = "released")
<1>1. LiveInv /\ [Next]_vars =>
        /\ At(r, "spawned") => At(r, "spawned")' \/ At(r, "waiting")' \/ At(r, "panicked")'
        /\ At(r, "waiting") => At(r, "waiting")' \/ At(r, "sending")' \/ At(r, "panicked")'
        /\ At(r, "sending") => At(r, "sending")' \/ At(r, "answered")' \/ At(r, "panicked")'
        /\ At(r, "panicked") => At(r, "panicked")' \/ At(r, "reported")'
        /\ At(r, "answered") => At(r, "answered")' \/ At(r, "released")'
        /\ At(r, "reported") => At(r, "reported")' \/ At(r, "released")'
  BY AtStays
<1>2. LiveInv /\ <<Task(r)>>_vars =>
        /\ At(r, "spawned") => ~At(r, "spawned")'
        /\ At(r, "waiting") => ~At(r, "waiting")'
        /\ At(r, "sending") => ~At(r, "sending")'
  BY TasksGoOn DEF At
<1>3. LiveInv /\ <<Monitor(r)>>_vars =>
        /\ At(r, "panicked") => ~At(r, "panicked")'
        /\ At(r, "answered") => ~At(r, "answered")'
        /\ At(r, "reported") => ~At(r, "reported")'
  BY TasksGoOn DEF At
<1>4. LiveInv =>
        /\ At(r, "spawned") \/ At(r, "waiting") \/ At(r, "sending") => TaskMoves(r)
        /\ At(r, "panicked") \/ At(r, "answered") \/ At(r, "reported") => MonitorMoves(r)
        /\ At(r, "released") => Ready(r) /\ phase[r] = "released"
  BY TasksGoOn DEF At
<1>5. phase[r] \in InFlight /\ Completable(r) =>
        \/ At(r, "spawned") \/ At(r, "waiting") \/ At(r, "sending")
        \/ At(r, "panicked") \/ At(r, "answered") \/ At(r, "reported")
  BY DEF At, InFlight
<1>6. Spec /\ Scheduled(r) => (At(r, "answered") ~> At(r, "released"))
  BY <1>1, <1>3, <1>4, LiveInvariant, PTL DEF Spec, Scheduled
<1>7. Spec /\ Scheduled(r) => (At(r, "reported") ~> At(r, "released"))
  BY <1>1, <1>3, <1>4, LiveInvariant, PTL DEF Spec, Scheduled
<1>8. Spec /\ Scheduled(r) => (At(r, "panicked") ~> At(r, "reported"))
  BY <1>1, <1>3, <1>4, LiveInvariant, PTL DEF Spec, Scheduled
<1>9. Spec /\ Scheduled(r) => (At(r, "sending") ~> At(r, "answered") \/ At(r, "panicked"))
  BY <1>1, <1>2, <1>4, LiveInvariant, PTL DEF Spec, Scheduled
<1>10. Spec /\ Scheduled(r) => (At(r, "waiting") ~> At(r, "sending") \/ At(r, "panicked"))
  BY <1>1, <1>2, <1>4, LiveInvariant, PTL DEF Spec, Scheduled
<1>11. Spec /\ Scheduled(r) => (At(r, "spawned") ~> At(r, "waiting") \/ At(r, "panicked"))
  BY <1>1, <1>2, <1>4, LiveInvariant, PTL DEF Spec, Scheduled
<1> QED
  BY <1>4, <1>5, <1>6, <1>7, <1>8, <1>9, <1>10, <1>11, LiveInvariant, PTL

(* An accepted request whose body is complete gets an answer and its slot  *)
(* comes back (http_handler.rs:125-180), for any number of requests, also  *)
(* when handlers panic.                                                    *)
THEOREM AnsweredCorrect == FairSpec /\ []GuardsEnable => Answered
<1>1. \A r \in Requests : Spec /\ Scheduled(r) =>
        (phase[r] \in InFlight /\ Completable(r) ~> Ready(r) /\ phase[r] = "released")
  BY AnswerArrives
<1>2. FairSpec => Spec /\ \A r \in Requests : FairTo(r)
  BY DEF FairSpec, Fairness
<1>3. \A r \in Requests : FairTo(r) /\ []GuardsEnable => Scheduled(r)
  BY FairRequest
<1> QED BY <1>1, <1>2, <1>3 DEF Answered

(* Where a call on the body of a request finds it: before the handler has  *)
(* its lock, while it has, and after.                                      *)
Before(r) == InBodyCall(r) /\ phase[r] \in {"owned", "refused", "overLimit", "spawned", "waiting"}
During(r) == InBodyCall(r) /\ phase[r] = "sending"
After(r)  == InBodyCall(r) /\ phase[r] \in {"answered", "panicked", "reported", "released"}

(* The steps a call of the guest waits through.                            *)
LEMMA CallSteps ==
    ASSUME LiveInv, [Next]_vars, NEW r \in Requests
    PROVE  /\ Before(r) => Before(r)' \/ During(r)' \/ After(r)' \/ guest' = Free
           /\ During(r) => During(r)' \/ After(r)' \/ guest' = Free
           /\ After(r) => After(r)' \/ guest' = Free
           /\ BlockedOn(r) => BlockedOn(r)' \/ guest' = Free
           /\ BlockedOn(r) /\ Completable(r) => Completable(r)' \/ guest' = Free
           /\ BlockedOn(r) /\ Ready(r) => Ready(r)' \/ guest' = Free
<1>1. phase'[r] = phase[r] \/ <<phase[r], phase'[r]>> \in Onward
  BY PhasesGoOn DEF LiveInv, HttpInv
<1>2. /\ InBodyCall(r) => InBodyCall(r)' \/ guest' = Free
      /\ BlockedOn(r) => BlockedOn(r)' \/ guest' = Free
  BY CallsStay DEF LiveInv
<1>3. BlockedOn(r) /\ Completable(r) => Completable(r)'
  BY CompleteStays DEF LiveInv, WaitInv, HasFuture
<1>4. BlockedOn(r) /\ Ready(r) => Ready(r)'
  <2> SUFFICES ASSUME BlockedOn(r), Ready(r) PROVE Ready(r)'
    OBVIOUS
  <2>1. \A q \in Requests : ~Get(q)
    BY CallsStay DEF LiveInv, BlockedOn, Free
  <2>2. UNCHANGED futureVars \/ \E q \in Requests, a \in {"ok", "err"} :
          value' = [value EXCEPT ![q] = a] /\ UNCHANGED consumed
    BY <2>1 DEF Next, vars, futureVars, Call, RequestBody, DropBody, EnterBody, WriteTooManyZeroes,
         StreamWrite, EnterBlockingWrite, Deny, Handle, EnterBlock, Return, BodyWrite, BodyFinish,
         Refuse, Block, BlockingWrite, Task, TaskStart, TaskTake, TaskAnswer, TaskPanic,
         Monitor, MonitorReport, MonitorRelease
  <2> QED BY <2>2 DEF LiveInv, TypeOK, Ready, futureVars
<1> QED BY <1>1, <1>2, <1>3, <1>4 DEF Before, During, After, Onward

(* A call on the body, or on the response of a complete request, returns.  *)
LEMMA CallsComeBack ==
    ASSUME NEW r \in Requests
    PROVE  Spec /\ Scheduled(r) =>
             (InBodyCall(r) \/ (BlockedOn(r) /\ Completable(r)) ~> guest = Free)
<1> DEFINE Back == guest = Free
           Waiting == BlockedOn(r) /\ Completable(r)
           Accepted == phase[r] \in InFlight /\ Completable(r)
           Delivered == Ready(r) /\ phase[r] = "released"
           Answer == BlockedOn(r) /\ Ready(r)
<1>1. LiveInv /\ [Next]_vars =>
        /\ Before(r) => Before(r)' \/ During(r)' \/ After(r)' \/ Back'
        /\ During(r) => During(r)' \/ After(r)' \/ Back'
        /\ After(r) => After(r)' \/ Back'
        /\ Waiting => Waiting' \/ Back'
        /\ Answer => Answer' \/ Back'
  BY CallSteps
<1>2. LiveInv /\ <<Task(r)>>_vars => (During(r) => ~During(r)')
  BY TasksGoOn DEF During
<1>3. <<Return(r)>>_vars => Back'
  BY DEF Return, BodyWrite, BodyFinish, Refuse, Block, BlockingWrite
<1>4. /\ Before(r) \/ After(r) => ReturnMoves(r)
      /\ During(r) => TaskMoves(r)
      /\ Answer => ReturnMoves(r)
  BY DEF Before, During, After, ReturnMoves, TaskMoves
<1>5. LiveInv => (Waiting => Accepted \/ Answer)
  BY DEF LiveInv, WaitInv, HttpInv, ReleasedInv, HasFuture
<1>6. Delivered /\ Waiting => Answer
  OBVIOUS
<1>7. LiveInv => (InBodyCall(r) => Before(r) \/ During(r) \/ After(r))
  BY DEF LiveInv, TypeOK, Phases, Before, During, After
<1>8. Spec /\ Scheduled(r) => (Accepted ~> Delivered)
  BY AnswerArrives
<1> HIDE DEF Back, Waiting, Accepted, Delivered, Answer
<1>9. Spec /\ Scheduled(r) => (After(r) ~> Back)
  BY <1>1, <1>3, <1>4, LiveInvariant, PTL DEF Spec, Scheduled
<1>10. Spec /\ Scheduled(r) => (During(r) ~> After(r) \/ Back)
  BY <1>1, <1>2, <1>4, LiveInvariant, PTL DEF Spec, Scheduled
<1>11. Spec /\ Scheduled(r) => (Before(r) ~> During(r) \/ After(r) \/ Back)
  BY <1>1, <1>3, <1>4, LiveInvariant, PTL DEF Spec, Scheduled
<1>12. Spec /\ Scheduled(r) => (Answer ~> Back)
  BY <1>1, <1>3, <1>4, LiveInvariant, PTL DEF Spec, Scheduled
<1>13. Spec /\ Scheduled(r) => (Waiting ~> Back)
  BY <1>1, <1>5, <1>6, <1>8, <1>12, LiveInvariant, PTL DEF Spec
<1>14. Spec /\ Scheduled(r) => (InBodyCall(r) ~> Back)
  BY <1>7, <1>9, <1>10, <1>11, LiveInvariant, PTL
<1>15. Spec /\ Scheduled(r) => (InBodyCall(r) \/ Waiting ~> Back)
  BY <1>13, <1>14, PTL
<1> QED BY <1>15 DEF Waiting, Back

(* The guest thread comes back from every call on a body, though the       *)
(* handler keeps the lock of the body while it sends, and from waiting for *)
(* the response of a request whose body is complete (http.rs:150-240).     *)
THEOREM CallReturnsCorrect == FairSpec /\ []GuardsEnable => CallReturns
<1>1. \A r \in Requests : Spec /\ Scheduled(r) =>
        (InBodyCall(r) \/ (BlockedOn(r) /\ Completable(r)) ~> guest = Free)
  BY CallsComeBack
<1>2. FairSpec => Spec /\ \A r \in Requests : FairTo(r)
  BY DEF FairSpec, Fairness
<1>3. \A r \in Requests : FairTo(r) /\ []GuardsEnable => Scheduled(r)
  BY FairRequest
<1> QED BY <1>1, <1>2, <1>3 DEF CallReturns
===============================================================================
