------------------------------ MODULE SyncProofs ------------------------------
(***************************************************************************)
(* The resources of the Wasm backend lose no wakeup and take none for an   *)
(* event: the fair lock is exclusive, and a future looks at its event and  *)
(* registers for the next notification in one hold of it.                  *)
(***************************************************************************)
EXTENDS PollLoopProps, FiniteSetTheorems, SequenceTheorems, TLAPS

-----------------------------------------------------------------------------
(* The inductive invariant.                                                *)

\* The guest's future exists inside the calls that work on a resource.
GuestInCall ==
    /\ call # None /\ call.op \in OnResource => call.res \in Resources
    /\ pc[Guest] # "off" => call # None /\ call.op \in OnResource

\* A writer that has the lock has it alone.
Exclusive ==
    \A r \in Resources : \A h, k \in holders[r] : h.mode = "write" => h = k

\* Who works on a resource has its permit.
WorkerHolds ==
    \A c \in Clients : pc[c] \in {"wait", "held", "drop"} => Permit(c) \in holders[Res(c)]

\* Nothing happens between the look at the event and the sleep.
NotYet ==
    \A c \in Clients : pc[c] \in {"wait", "asleep"} => ~happened[Res(c)]

\* A pollable has the lock, or had it, with its event there.
SeenByPollable ==
    \A p \in Pollables : pc[p] \in {"held", "drop", "done"} => happened[Watches[p]]

IInv == TypeOK /\ GuestInCall /\ Exclusive /\ WorkerHolds /\ NotYet /\ SeenByPollable

-----------------------------------------------------------------------------
(* Clients, permits and the lock.                                          *)

\* A client that is in a call works on a resource.
LEMMA ResOfClient ==
    ASSUME IInv, NEW c \in Clients, pc[c] # "off"
    PROVE  Res(c) \in Resources
  BY SyncAssumption DEF IInv, GuestInCall, Clients, Res

\* A permit names its client.
LEMMA PermitType ==
    ASSUME NEW c \in Clients
    PROVE  Permit(c) \in Permits /\ Permit(c).who = c
  BY DEF Permit, Permits, Mode

\* What the lock gives are positions of the queue.
LEMMA GrantedInQueue ==
    ASSUME NEW S, NEW permits, NEW waiting \in Seq(S)
    PROVE  /\ Granted(permits, waiting) \subseteq DOMAIN waiting
           /\ Cardinality(Granted(permits, waiting)) \in Nat
<1>1. DOMAIN waiting = 1 .. Len(waiting) /\ Len(waiting) \in Nat
  OBVIOUS
<1>2. Granted(permits, waiting) \subseteq DOMAIN waiting
  BY <1>1 DEF Granted
<1>3. IsFiniteSet(DOMAIN waiting)
  BY <1>1, FS_Interval
<1> QED BY <1>2, <1>3, FS_Subset, FS_CardinalityType

\* A queue that a client leaves is a queue.
LEMMA WithoutType ==
    ASSUME NEW S, NEW waiting \in Seq(S), NEW c
    PROVE  Without(waiting, c) \in Seq(S)
<1>1. CASE \E i \in DOMAIN waiting : waiting[i].who = c
  <2> DEFINE i == CHOOSE i \in DOMAIN waiting : waiting[i].who = c
  <2>1. i \in 1 .. Len(waiting)
    BY <1>1
  <2> HIDE DEF i
  <2>2. SubSeq(waiting, 1, i - 1) \in Seq(S) /\ SubSeq(waiting, i + 1, Len(waiting)) \in Seq(S)
    BY <2>1
  <2>3. Without(waiting, c) = SubSeq(waiting, 1, i - 1) \o SubSeq(waiting, i + 1, Len(waiting))
    BY <1>1 DEF Without, i
  <2> QED BY <2>2, <2>3
<1> QED BY <1>1 DEF Without

\* Serving the queue keeps the lock exclusive, and every permit.
LEMMA ServeKeeps ==
    ASSUME TypeOK, Exclusive, NEW r \in Resources,
           NEW permits \in SUBSET Permits,
           \A h, k \in permits : h.mode = "write" => h = k,
           NEW waiting \in Seq(Permits),
           Serve(r, permits, waiting)
    PROVE  /\ holders' \in [Resources -> SUBSET Permits]
           /\ queue' \in [Resources -> Seq(Permits)]
           /\ Exclusive'
           /\ permits \subseteq holders'[r]
           /\ \A q \in Resources \ {r} : holders'[q] = holders[q]
<1> DEFINE granted == Granted(permits, waiting)
           given == {waiting[i] : i \in granted}
<1>1. granted \subseteq DOMAIN waiting /\ Cardinality(granted) \in Nat
  BY GrantedInQueue
<1>2. given \subseteq Permits
  <2>1. \A i \in DOMAIN waiting : waiting[i] \in Permits
    OBVIOUS
  <2> QED BY <1>1, <2>1
<1>3. holders' = [holders EXCEPT ![r] = permits \cup given]
  BY DEF Serve
<1>4. SubSeq(waiting, Cardinality(granted) + 1, Len(waiting)) \in Seq(Permits)
  <2>1. \A n \in Nat : SubSeq(waiting, n + 1, Len(waiting)) \in Seq(Permits)
    OBVIOUS
  <2> QED BY <1>1, <2>1
<1>5. queue' = [queue EXCEPT ![r] = SubSeq(waiting, Cardinality(granted) + 1, Len(waiting))]
  BY DEF Serve
<1>6. \A h, k \in permits \cup given : h.mode = "write" => h = k
  <2>1. CASE waiting # <<>> /\ Head(waiting).mode = "write"
    <3>1. CASE permits = {}
      BY <2>1, <3>1 DEF Granted
    <3>2. CASE permits # {}
      BY <2>1, <3>2 DEF Granted
    <3> QED BY <3>1, <3>2
  <2>2. CASE ~(waiting # <<>> /\ Head(waiting).mode = "write")
    <3>1. CASE \E h \in permits : h.mode = "write"
      BY <2>2, <3>1 DEF Granted
    <3>2. CASE ~\E h \in permits : h.mode = "write"
      <4>1. \A i \in granted : waiting[i].mode = "read"
        <5>1. \A i \in granted : i \in DOMAIN waiting /\ i \in 1 .. i /\ \A j \in 1 .. i : waiting[j].mode = "read"
          BY <2>2, <3>2 DEF Granted
        <5> QED BY <5>1
      <4> QED BY <3>2, <4>1
    <3> QED BY <3>1, <3>2
  <2> QED BY <2>1, <2>2
<1> HIDE DEF granted, given
<1>7. holders' \in [Resources -> SUBSET Permits] /\ queue' \in [Resources -> Seq(Permits)]
  BY <1>2, <1>3, <1>4, <1>5 DEF TypeOK
<1>8. Exclusive'
  <2> SUFFICES ASSUME NEW q \in Resources, NEW h \in holders'[q], NEW k \in holders'[q],
                      h.mode = "write"
               PROVE  h = k
    BY DEF Exclusive
  <2>1. CASE q = r
    BY <1>3, <1>6, <2>1 DEF TypeOK
  <2>2. CASE q # r
    BY <1>3, <2>2 DEF TypeOK, Exclusive
  <2> QED BY <2>1, <2>2
<1> QED BY <1>3, <1>7, <1>8 DEF TypeOK

\* Who gives its permit up takes it from nobody else.
LEMMA ReleaseKeeps ==
    ASSUME IInv, NEW c \in Clients, pc[c] # "off", Release(c)
    PROVE  /\ holders' \in [Resources -> SUBSET Permits]
           /\ queue' \in [Resources -> Seq(Permits)]
           /\ Exclusive'
           /\ \A d \in Clients \ {c} :
                pc[d] \in {"wait", "held", "drop"} => Permit(d) \in holders'[Res(d)]
<1>1. Res(c) \in Resources
  BY ResOfClient
<1>2. /\ holders[Res(c)] \ {Permit(c)} \in SUBSET Permits
      /\ queue[Res(c)] \in Seq(Permits)
      /\ \A h, k \in holders[Res(c)] \ {Permit(c)} : h.mode = "write" => h = k
  BY <1>1 DEF IInv, TypeOK, Exclusive
<1>3. /\ holders' \in [Resources -> SUBSET Permits]
      /\ queue' \in [Resources -> Seq(Permits)]
      /\ Exclusive'
      /\ holders[Res(c)] \ {Permit(c)} \subseteq holders'[Res(c)]
      /\ \A q \in Resources \ {Res(c)} : holders'[q] = holders[q]
  BY <1>1, <1>2, ServeKeeps DEF Release, IInv
<1>4. ASSUME NEW d \in Clients \ {c}, pc[d] \in {"wait", "held", "drop"}
      PROVE  Permit(d) \in holders'[Res(d)]
  <2>1. Res(d) \in Resources /\ Permit(d) \in holders[Res(d)]
    BY <1>4, ResOfClient DEF IInv, WorkerHolds
  <2>2. Permit(d) # Permit(c)
    BY PermitType
  <2> QED BY <1>3, <2>1, <2>2
<1> QED BY <1>3, <1>4

-----------------------------------------------------------------------------
(* The fair lock: who has a place in it, and who gets on.                  *)

\* Those who have the lock of a resource or wait for it.
Placed(r) == holders[r] \cup Elements(queue[r])

InLock == {"queued", "wait", "held", "drop"}

\* Permits and places are of clients that are there to use them.
PermitsSound ==
    \A r \in Resources : \A h \in Placed(r) :
        h.who \in Clients /\ h = Permit(h.who) /\ Res(h.who) = r /\ pc[h.who] \in InLock

\* Who waits has one place and no permit.
QueueSound ==
    \A r \in Resources :
        /\ \A i \in DOMAIN queue[r] : pc[queue[r][i].who] = "queued" /\ queue[r][i] \notin holders[r]
        /\ \A i, j \in DOMAIN queue[r] : queue[r][i] = queue[r][j] => i = j

HasPlace == \A c \in Clients : pc[c] = "queued" => Permit(c) \in Placed(Res(c))

\* Nobody waits for a lock that nobody has.
NotIdle == \A r \in Resources : holders[r] = {} => queue[r] = <<>>

LockInv == PermitsSound /\ QueueSound /\ HasPlace /\ NotIdle

\* Who waits for an event, and what the tasks that make it have done.
OnlyWaiters ==
    /\ \A c \in Clients : pc[c] \in {"wait", "asleep"} => Waits(c)
    /\ \A t \in Tasks : pc[t] # "off"
    /\ \A t \in Sets : pc[t] \in {"drop", "done"} => happened[Works[t]]
    /\ \A p \in Pollables : pc[p] # "drop"

\* What the guest calls is there as long as the call.
InCall ==
    /\ call # None /\ call.op \in OnResource => pc[Guest] # "off"
    /\ \A p \in Polls : p \in Pollables /\ pc[p] # "off"
    /\ call.op = "ready" => \E p \in Pollables : Polls = {p}

\* One pollable at a time is past its lock, and none once one is done.
OneAtATime ==
    /\ \A p \in Pollables : pc[p] \in {"wait", "held"} => p \in Polls
    /\ \A p, q \in Pollables : pc[p] \in {"wait", "held"} /\ pc[q] \in {"wait", "held"} => p = q
    /\ \A p, q \in Polls : pc[p] = "done" => pc[q] \notin {"wait", "held"}

FairInv == LockInv /\ OnlyWaiters /\ InCall /\ OneAtATime

\* The lock is given to the first of the queue.
LEMMA GrantedPrefix ==
    ASSUME NEW permits, NEW waiting \in Seq(Permits)
    PROVE  LET n == Cardinality(Granted(permits, waiting)) IN
           /\ n \in 0 .. Len(waiting)
           /\ Granted(permits, waiting) = 1 .. n
           /\ permits = {} /\ waiting # <<>> => n # 0
<1> DEFINE G == Granted(permits, waiting)
           n == Cardinality(G)
<1>1. DOMAIN waiting = 1 .. Len(waiting) /\ Len(waiting) \in Nat
  OBVIOUS
<1>2. G \in SUBSET (1 .. Len(waiting))
  BY <1>1, GrantedInQueue
<1>3. IsFiniteSet(1 .. Len(waiting)) /\ Cardinality(1 .. Len(waiting)) = Len(waiting)
  BY <1>1, FS_Interval
<1>4. IsFiniteSet(G) /\ n \in Nat /\ n <= Len(waiting)
  BY <1>2, <1>3, FS_Subset, FS_CardinalityType
<1>5. \A i \in G : 1 .. i \subseteq G
  <2> SUFFICES ASSUME NEW i \in G, NEW j \in 1 .. i PROVE j \in G
    OBVIOUS
  <2>1. i \in 1 .. Len(waiting)
    BY <1>2
  <2>2. j \in 1 .. Len(waiting) /\ 1 .. j \subseteq 1 .. i
    BY <1>1, <2>1
  <2>3. CASE waiting # <<>> /\ Head(waiting).mode = "write"
    BY <2>1, <2>3 DEF Granted
  <2>4. CASE ~(waiting # <<>> /\ Head(waiting).mode = "write")
    BY <1>1, <2>2, <2>4 DEF Granted
  <2> QED BY <2>3, <2>4
<1>6. \A i \in G : i <= n
  <2> SUFFICES ASSUME NEW i \in G PROVE i <= n
    OBVIOUS
  <2>1. i \in Nat /\ 1 .. i \in SUBSET G
    BY <1>2, <1>5
  <2>2. Cardinality(1 .. i) = i
    BY <2>1, FS_Interval
  <2> QED BY <1>4, <2>1, <2>2, FS_Subset
<1>7. G = 1 .. n
  <2>1. G \in SUBSET (1 .. n)
    BY <1>2, <1>6
  <2>2. IsFiniteSet(1 .. n) /\ Cardinality(1 .. n) = n
    BY <1>4, FS_Interval
  <2> QED BY <2>1, <2>2, FS_Subset
<1>8. ASSUME permits = {}, waiting # <<>> PROVE 1 \in G
  <2>1. 1 \in DOMAIN waiting /\ Head(waiting) = waiting[1] /\ \A j \in 1 .. 1 : j = 1
    BY <1>1, <1>8
  <2>2. CASE Head(waiting).mode = "write"
    BY <1>8, <2>2 DEF Granted
  <2>3. CASE Head(waiting).mode # "write"
    <3>1. waiting[1] \in Permits
      BY <2>1
    <3>2. waiting[1].mode = "read"
      BY <2>1, <2>3, <3>1 DEF Permits
    <3> QED BY <1>8, <2>1, <2>3, <3>2 DEF Granted
  <2> QED BY <2>2, <2>3
<1> QED BY <1>4, <1>7, <1>8

\* Serving a queue moves its first waiters to the permits, and no one else.
LEMMA ServePlaces ==
    ASSUME TypeOK, NEW r \in Resources, NEW permits \in SUBSET Permits,
           NEW waiting \in Seq(Permits), Serve(r, permits, waiting),
           \A i, j \in DOMAIN waiting : waiting[i] = waiting[j] => i = j,
           \A i \in DOMAIN waiting : waiting[i] \notin permits
    PROVE  /\ Placed(r)' = permits \cup Elements(waiting)
           /\ permits \subseteq holders'[r]
           /\ \A i \in DOMAIN queue'[r] :
                queue'[r][i] \notin holders'[r] /\ queue'[r][i] \in Elements(waiting)
           /\ \A i, j \in DOMAIN queue'[r] : queue'[r][i] = queue'[r][j] => i = j
           /\ holders'[r] = {} => queue'[r] = <<>>
           /\ \A q \in Resources \ {r} : holders'[q] = holders[q] /\ queue'[q] = queue[q]
<1> DEFINE granted == Granted(permits, waiting)
           n == Cardinality(granted)
           given == {waiting[i] : i \in granted}
           rest == SubSeq(waiting, n + 1, Len(waiting))
<1>1. /\ n \in 0 .. Len(waiting) /\ granted = 1 .. n
      /\ permits = {} /\ waiting # <<>> => n # 0
  BY GrantedPrefix
<1>2. holders' = [holders EXCEPT ![r] = permits \cup given] /\ queue' = [queue EXCEPT ![r] = rest]
  BY DEF Serve
<1>3. holders'[r] = permits \cup given /\ queue'[r] = rest
      /\ \A q \in Resources \ {r} : holders'[q] = holders[q] /\ queue'[q] = queue[q]
  BY <1>2 DEF TypeOK
<1> HIDE DEF granted, n
<1>4. DOMAIN waiting = 1 .. Len(waiting) /\ Len(waiting) \in Nat /\ n \in Nat /\ n <= Len(waiting)
  BY <1>1
<1>5. /\ Len(rest) = Len(waiting) - n /\ DOMAIN rest = 1 .. Len(rest)
      /\ \A i \in 1 .. Len(waiting) - n : rest[i] = waiting[i + n]
  <2>1. \A m \in Nat : m <= Len(waiting) =>
          LET tail == SubSeq(waiting, m + 1, Len(waiting)) IN
          /\ Len(tail) = Len(waiting) - m /\ DOMAIN tail = 1 .. Len(tail)
          /\ \A i \in 1 .. Len(waiting) - m : tail[i] = waiting[i + m]
    OBVIOUS
  <2> QED BY <1>4, <2>1
<1> HIDE DEF rest
<1>6. Elements(waiting) = given \cup Elements(rest)
  <2>1. ASSUME NEW i \in DOMAIN waiting PROVE waiting[i] \in given \cup Elements(rest)
    <3>1. CASE i <= n
      BY <1>1, <1>4, <3>1
    <3>2. CASE ~(i <= n)
      <4>1. i - n \in 1 .. Len(waiting) - n /\ (i - n) + n = i
        BY <1>4, <3>2
      <4>2. rest[i - n] = waiting[i] /\ i - n \in DOMAIN rest
        BY <1>5, <4>1
      <4> QED BY <4>2 DEF Elements
    <3> QED BY <3>1, <3>2
  <2>2. ASSUME NEW i \in DOMAIN rest PROVE rest[i] \in Elements(waiting)
    BY <1>4, <1>5 DEF Elements
  <2>3. given \subseteq Elements(waiting)
    BY <1>1, <1>4 DEF Elements
  <2> QED BY <2>1, <2>2, <2>3 DEF Elements
<1>7. \A i \in DOMAIN rest : rest[i] \notin permits \cup given
  <2> SUFFICES ASSUME NEW i \in DOMAIN rest PROVE rest[i] \notin permits \cup given
    OBVIOUS
  <2>1. rest[i] = waiting[i + n] /\ i + n \in DOMAIN waiting /\ i + n \notin granted
    BY <1>1, <1>4, <1>5
  <2>2. \A j \in granted : j \in DOMAIN waiting
    BY <1>1, <1>4
  <2> QED BY <2>1, <2>2
<1>8. \A i, j \in DOMAIN rest : rest[i] = rest[j] => i = j
  <2> SUFFICES ASSUME NEW i \in DOMAIN rest, NEW j \in DOMAIN rest, rest[i] = rest[j] PROVE i = j
    OBVIOUS
  <2>1. i + n = j + n
    BY <1>4, <1>5
  <2> QED BY <1>4, <1>5, <2>1
<1>9. ASSUME permits \cup given = {} PROVE rest = <<>>
  <2>1. waiting = <<>>
    <3>1. n = 0 \/ 1 \in granted
      BY <1>1, <1>4
    <3> QED BY <1>1, <1>9, <3>1
  <2>2. Len(rest) = 0
    BY <1>4, <1>5, <2>1
  <2>3. rest \in Seq(Permits)
    BY <1>4 DEF rest
  <2> QED BY <2>2, <2>3
<1>10. Placed(r)' = permits \cup Elements(waiting)
  BY <1>3, <1>6 DEF Placed, Elements
<1>11. \A i \in DOMAIN rest : rest[i] \in Elements(waiting)
  BY <1>6 DEF Elements
<1> QED BY <1>3, <1>7, <1>8, <1>9, <1>10, <1>11

-----------------------------------------------------------------------------
(* Steps.                                                                  *)

\* A step of one client leaves call, and so every client's resource and permit.
LEMMA CallFixes ==
    ASSUME UNCHANGED call
    PROVE  \A c \in Clients :
             Res(c)' = Res(c) /\ Permit(c)' = Permit(c) /\ Mode(c)' = Mode(c)
  BY DEF Res, Permit, Mode

\* Asking for the lock: at once or in the queue.
LEMMA LockKeeps == ASSUME IInv, NEW c \in Clients, Lock(c) PROVE IInv'
<1>1. Res(c) \in Resources
  BY ResOfClient DEF Lock
<1>2. Append(queue[Res(c)], Permit(c)) \in Seq(Permits)
  BY <1>1, PermitType DEF IInv, TypeOK
<1>3. /\ holders' \in [Resources -> SUBSET Permits]
      /\ queue' \in [Resources -> Seq(Permits)]
      /\ Exclusive'
      /\ \A q \in Resources : holders[q] \subseteq holders'[q]
  <2>1. holders[Res(c)] \in SUBSET Permits
        /\ \A h, k \in holders[Res(c)] : h.mode = "write" => h = k
    BY <1>1 DEF IInv, TypeOK, Exclusive
  <2> QED BY <1>1, <1>2, <2>1, ServeKeeps DEF Lock, IInv
<1>4. pc' = [pc EXCEPT ![c] = IF Permit(c) \in holders'[Res(c)] THEN Look(c) ELSE "queued"]
  BY DEF Lock
<1>5. Look(c) \in {"wait", "held"}
      /\ (Look(c) = "wait" => ~happened[Res(c)])
      /\ (c \in Pollables /\ Look(c) = "held" => happened[Watches[c]])
  BY SyncAssumption DEF Look, Waits, Res
<1>6. UNCHANGED <<happened, call>>
  BY DEF Lock
<1>7. TypeOK' /\ GuestInCall'
  BY <1>3, <1>4, <1>5, <1>6 DEF IInv, TypeOK, GuestInCall, Lock, Clients
<1>8. WorkerHolds'
  <2> SUFFICES ASSUME NEW d \in Clients, pc'[d] \in {"wait", "held", "drop"}
               PROVE  Permit(d) \in holders'[Res(d)]
    BY <1>6, CallFixes DEF WorkerHolds
  <2>1. CASE d = c
    BY <1>4, <2>1 DEF IInv, TypeOK
  <2>2. CASE d # c
    <3>1. pc[d] = pc'[d]
      BY <1>4, <2>2 DEF IInv, TypeOK
    <3> QED BY <1>3, <3>1, ResOfClient DEF IInv, WorkerHolds
  <2> QED BY <2>1, <2>2
<1>9. NotYet' /\ SeenByPollable'
  BY <1>4, <1>5, <1>6, CallFixes DEF IInv, TypeOK, NotYet, SeenByPollable, Clients
<1> QED BY <1>3, <1>7, <1>8, <1>9 DEF IInv

\* A permit that was granted meanwhile lets its client look at the condition.
LEMMA LockedKeeps == ASSUME IInv, NEW c \in Clients, Locked(c) PROVE IInv'
<1>1. pc' = [pc EXCEPT ![c] = Look(c)] /\ UNCHANGED <<happened, queue, holders, call>>
      /\ Permit(c) \in holders[Res(c)] /\ pc[c] = "queued"
  BY DEF Locked
<1>2. Look(c) \in {"wait", "held"}
      /\ (Look(c) = "wait" => ~happened[Res(c)])
      /\ (c \in Pollables /\ Look(c) = "held" => happened[Watches[c]])
  BY SyncAssumption DEF Look, Waits, Res
<1>3. TypeOK' /\ GuestInCall' /\ Exclusive'
  BY <1>1, <1>2 DEF IInv, TypeOK, GuestInCall, Exclusive, Clients
<1>4. WorkerHolds' /\ NotYet' /\ SeenByPollable'
  BY <1>1, <1>2, CallFixes DEF IInv, TypeOK, WorkerHolds, NotYet, SeenByPollable, Clients
<1> QED BY <1>3, <1>4 DEF IInv

\* Sleep, Read and Unlock give the permit up and change nothing else.
LEMMA GivesUp ==
    ASSUME IInv, NEW c \in Clients, Release(c), UNCHANGED <<happened, call>>,
           NEW next \in {"asleep", "done"}, pc' = [pc EXCEPT ![c] = next],
           \/ pc[c] = "wait" /\ next = "asleep"
           \/ pc[c] \in {"held", "drop"} /\ next = "done"
    PROVE  IInv'
<1>1. /\ holders' \in [Resources -> SUBSET Permits]
      /\ queue' \in [Resources -> Seq(Permits)]
      /\ Exclusive'
      /\ \A d \in Clients \ {c} :
           pc[d] \in {"wait", "held", "drop"} => Permit(d) \in holders'[Res(d)]
  BY ReleaseKeeps
<1>2. TypeOK' /\ GuestInCall'
  BY <1>1 DEF IInv, TypeOK, GuestInCall, Clients
<1>3. WorkerHolds'
  BY <1>1, CallFixes DEF IInv, TypeOK, WorkerHolds
<1>4. NotYet' /\ SeenByPollable'
  BY CallFixes DEF IInv, TypeOK, NotYet, SeenByPollable, Clients
<1> QED BY <1>1, <1>2, <1>3, <1>4 DEF IInv

\* The event happens while its writer has the lock alone: nobody is between the look
\* and the sleep, and those that sleep are woken.
LEMMA WriteKeeps == ASSUME IInv, NEW c \in Clients, Write(c) PROVE IInv'
<1> DEFINE r == Res(c)
<1>1. /\ pc[c] = "held" /\ Mode(c) = "write"
      /\ happened' = [happened EXCEPT ![r] = @ \/ Makes(c)]
      /\ pc' = [Notified(r) EXCEPT ![c] = "drop"]
      /\ UNCHANGED <<queue, holders, call>>
  BY DEF Write
<1>2. r \in Resources /\ Permit(c) \in holders[r]
  BY <1>1, ResOfClient DEF IInv, WorkerHolds
<1>3. /\ pc' \in [Clients -> {"off", "start", "queued", "wait", "asleep", "held", "drop", "done"}]
      /\ pc'[c] = "drop"
      /\ \A d \in Clients : d # c =>
           pc'[d] = IF pc[d] = "asleep" /\ Res(d) = r THEN "start" ELSE pc[d]
  <2>1. Notified(r) \in [Clients -> {"off", "start", "queued", "wait", "asleep", "held", "drop", "done"}]
    BY DEF IInv, TypeOK, Notified
  <2>2. \A d \in Clients : Notified(r)[d] = IF pc[d] = "asleep" /\ Res(d) = r THEN "start" ELSE pc[d]
    BY DEF Notified
  <2> QED BY <1>1, <2>1, <2>2
<1>4. happened' \in [Resources -> BOOLEAN]
      /\ \A q \in Resources : (happened[q] => happened'[q]) /\ (q # r => happened'[q] = happened[q])
  <2>1. ASSUME NEW made, happened' = [happened EXCEPT ![r] = @ \/ made]
        PROVE  happened' \in [Resources -> BOOLEAN]
               /\ \A q \in Resources : (happened[q] => happened'[q]) /\ (q # r => happened'[q] = happened[q])
    BY <1>2, <2>1 DEF IInv, TypeOK
  <2> QED BY <1>1, <2>1
<1>5. ASSUME NEW d \in Clients, d # c, pc[d] = "wait" PROVE Res(d) # r
  <2>1. CASE Res(d) = r
    <3>1. Permit(d) \in holders[r]
      BY <1>5, <2>1 DEF IInv, WorkerHolds
    <3>2. Permit(c) = Permit(d)
      BY <1>1, <1>2, <3>1 DEF IInv, Exclusive, Permit
    <3> QED BY <1>5, <3>2, PermitType
  <2> QED BY <2>1
<1> HIDE DEF r
<1>6. TypeOK' /\ GuestInCall' /\ Exclusive'
  <2>1. TypeOK' /\ Exclusive'
    BY <1>1, <1>3, <1>4 DEF IInv, TypeOK, Exclusive
  <2>2. pc'[Guest] # "off" => pc[Guest] # "off"
    BY <1>1, <1>3 DEF Clients
  <2>3. GuestInCall'
    BY <1>1, <2>2 DEF IInv, GuestInCall
  <2> QED BY <2>1, <2>3
<1>7. WorkerHolds'
  BY <1>1, <1>2, <1>3, CallFixes DEF IInv, WorkerHolds, r
<1>8. NotYet'
  <2> SUFFICES ASSUME NEW d \in Clients, pc'[d] \in {"wait", "asleep"}
               PROVE  ~happened'[Res(d)]
    BY <1>1, CallFixes DEF NotYet
  <2>1. d # c /\ pc[d] = pc'[d] /\ Res(d) # r
    BY <1>3, <1>5
  <2> QED BY <1>4, <2>1, ResOfClient DEF IInv, NotYet
<1>9. SeenByPollable'
  <2> SUFFICES ASSUME NEW p \in Pollables, pc'[p] \in {"held", "drop", "done"}
               PROVE  happened'[Watches[p]]
    BY DEF SeenByPollable
  <2>1. p # c /\ p \in Clients
    BY <1>1 DEF Mode, Clients
  <2>2. pc[p] = pc'[p]
    BY <1>3, <2>1
  <2> QED BY <1>4, <2>2, SyncAssumption DEF IInv, SeenByPollable
<1> QED BY <1>6, <1>7, <1>8, <1>9 DEF IInv

\* Every step of a client on its resource keeps the invariant.
LEMMA StepKeeps == ASSUME IInv, NEW c \in Clients, Step(c) PROVE IInv'
<1>1. CASE Lock(c) \/ Locked(c) \/ Write(c)
  BY <1>1, LockKeeps, LockedKeeps, WriteKeeps
<1>2. CASE Sleep(c)
  BY <1>2, GivesUp DEF Sleep
<1>3. CASE Read(c)
  BY <1>3, GivesUp DEF Read
<1>4. CASE Unlock(c)
  BY <1>4, GivesUp DEF Unlock
<1> QED BY <1>1, <1>2, <1>3, <1>4 DEF Step

-----------------------------------------------------------------------------
(* Calls.                                                                  *)

\* Between its calls the guest has no future.
LEMMA GuestOff == ASSUME IInv, call = None PROVE pc[Guest] = "off"
  BY DEF IInv, GuestInCall

\* A change of the call is a change for the guest only.
LEMMA OthersKeep ==
    ASSUME NEW c \in Clients, c # Guest
    PROVE  Res(c)' = Res(c) /\ Permit(c)' = Permit(c)
  BY DEF Clients, Res, Permit, Mode

\* The guest calls read, write or a blocking form of them.
LEMMA EnterKeeps ==
    ASSUME IInv, NEW r \in Resources, NEW op \in OnResource, Enter(r, op)
    PROVE  IInv'
<1>1. /\ call' = [op |-> op, res |-> r] /\ pc' = [pc EXCEPT ![Guest] = "start"]
      /\ UNCHANGED <<happened, queue, holders>> /\ call = None
  BY DEF Enter
<1>2. TypeOK' /\ Exclusive'
  BY <1>1 DEF IInv, TypeOK, Exclusive, Clients
<1>3. GuestInCall'
  BY <1>1 DEF GuestInCall, None, OnResource
<1>4. WorkerHolds' /\ NotYet' /\ SeenByPollable'
  BY <1>1, OthersKeep, SyncAssumption DEF IInv, TypeOK, WorkerHolds, NotYet, SeenByPollable, Clients
<1> QED BY <1>2, <1>3, <1>4 DEF IInv

\* The call returns with everything it took given back.
LEMMA LeaveKeeps == ASSUME IInv, Leave PROVE IInv'
<1>1. /\ call' = None /\ pc' = [pc EXCEPT ![Guest] = "off"]
      /\ UNCHANGED <<happened, queue, holders>>
  BY DEF Leave
<1>2. TypeOK' /\ Exclusive'
  BY <1>1 DEF IInv, TypeOK, Exclusive, Clients
<1>3. GuestInCall'
  BY <1>1 DEF GuestInCall, IInv, TypeOK, Clients
<1>4. WorkerHolds' /\ NotYet' /\ SeenByPollable'
  BY <1>1, OthersKeep, SyncAssumption DEF IInv, TypeOK, WorkerHolds, NotYet, SeenByPollable, Clients
<1> QED BY <1>2, <1>3, <1>4 DEF IInv

\* A call that only begins or ends a poll.
LEMMA PollCallKeeps ==
    ASSUME IInv, UNCHANGED <<happened, queue, holders, pc>>, pc[Guest] = "off",
           call' = None \/ (call' # None /\ call'.op \notin OnResource)
    PROVE  IInv'
<1>1. TypeOK' /\ Exclusive' /\ GuestInCall'
  BY DEF IInv, TypeOK, Exclusive, GuestInCall
<1>2. WorkerHolds' /\ NotYet' /\ SeenByPollable'
  BY OthersKeep DEF IInv, WorkerHolds, NotYet, SeenByPollable
<1> QED BY <1>1, <1>2 DEF IInv

\* A pollable starts a future of its own.
LEMMA SubscribeKeeps == ASSUME IInv, NEW p \in Pollables, Subscribe(p) PROVE IInv'
<1>1. pc' = [pc EXCEPT ![p] = "start"] /\ UNCHANGED <<happened, queue, holders, call>>
  BY DEF Subscribe
<1>2. TypeOK' /\ Exclusive' /\ GuestInCall'
  BY <1>1, SyncAssumption DEF IInv, TypeOK, Exclusive, GuestInCall, Clients
<1>3. WorkerHolds' /\ NotYet' /\ SeenByPollable'
  BY <1>1, CallFixes DEF IInv, TypeOK, WorkerHolds, NotYet, SeenByPollable, Clients
<1> QED BY <1>2, <1>3 DEF IInv

\* Dropping a pollable takes its future out of the queue and gives back its permit.
LEMMA DropPollableKeeps == ASSUME IInv, NEW p \in Pollables, DropPollable(p) PROVE IInv'
<1> DEFINE r == Watches[p]
           permits == {h \in holders[r] : h.who # p}
           waiting == Without(queue[r], p)
<1>1. /\ pc' = [pc EXCEPT ![p] = "off"] /\ UNCHANGED <<happened, call>>
      /\ Serve(r, permits, waiting)
  BY DEF DropPollable
<1>2. r \in Resources /\ p \in Clients /\ p # Guest
  BY SyncAssumption DEF Clients
<1>3. /\ permits \in SUBSET Permits
      /\ \A h, k \in permits : h.mode = "write" => h = k
  BY <1>2 DEF IInv, TypeOK, Exclusive
<1>4. waiting \in Seq(Permits)
  <2>1. queue[r] \in Seq(Permits)
    BY <1>2 DEF IInv, TypeOK
  <2> QED BY <2>1, WithoutType
<1> HIDE DEF waiting
<1>5. /\ holders' \in [Resources -> SUBSET Permits]
      /\ queue' \in [Resources -> Seq(Permits)]
      /\ Exclusive'
      /\ permits \subseteq holders'[r]
      /\ \A q \in Resources \ {r} : holders'[q] = holders[q]
  BY <1>1, <1>2, <1>3, <1>4, ServeKeeps DEF IInv
<1>6. TypeOK' /\ GuestInCall'
  BY <1>1, <1>2, <1>5 DEF IInv, TypeOK, GuestInCall
<1>7. WorkerHolds'
  <2> SUFFICES ASSUME NEW d \in Clients, pc'[d] \in {"wait", "held", "drop"}
               PROVE  Permit(d) \in holders'[Res(d)]
    BY <1>1, CallFixes DEF WorkerHolds
  <2>1. d # p /\ pc[d] = pc'[d]
    BY <1>1, <1>2 DEF IInv, TypeOK
  <2>2. Permit(d) \in holders[Res(d)] /\ Res(d) \in Resources /\ Permit(d).who # p
    BY <2>1, PermitType, ResOfClient DEF IInv, WorkerHolds
  <2> QED BY <1>5, <2>2
<1>8. NotYet' /\ SeenByPollable'
  BY <1>1, <1>2, CallFixes DEF IInv, TypeOK, NotYet, SeenByPollable, Clients
<1> QED BY <1>5, <1>6, <1>7, <1>8 DEF IInv

\* The guest calls ready, block or poll.
LEMMA EnterPollKeeps ==
    ASSUME IInv, NEW op \in {"ready", "block", "poll"}, NEW list, EnterPoll(op, list)
    PROVE  IInv'
<1>1. pc[Guest] = "off"
  BY GuestOff DEF EnterPoll
<1>2. call' = None \/ (call' # None /\ call'.op \notin OnResource)
  BY DEF EnterPoll, OnResource
<1> QED BY <1>1, <1>2, PollCallKeeps DEF EnterPoll

\* A poll answers with a future that is done, or ready without one.
LEMMA PollReturnsKeeps ==
    ASSUME IInv, NEW p \in Pollables, ReturnDone(p) \/ ReturnNotReady(p)
    PROVE  IInv'
<1>1. call.op \notin OnResource
  BY DEF ReturnDone, ReturnNotReady, Polls, OnResource
<1>2. pc[Guest] = "off"
  BY <1>1 DEF IInv, GuestInCall
<1> QED BY <1>2, PollCallKeeps DEF ReturnDone, ReturnNotReady

-----------------------------------------------------------------------------
(* Every step keeps the lock fair.                                         *)

\* A step that serves nobody: who has a place keeps it and its call.
LEMMA StayPut ==
    ASSUME LockInv, UNCHANGED <<queue, holders>>,
           \A d \in Clients : pc[d] \in InLock =>
             /\ pc'[d] \in InLock /\ Permit(d)' = Permit(d) /\ Res(d)' = Res(d)
             /\ pc[d] = "queued" => pc'[d] = "queued" \/ Permit(d) \in holders[Res(d)],
           \A d \in Clients : pc'[d] = "queued" => pc[d] = "queued"
    PROVE  LockInv'
<1>1. \A r \in Resources : Placed(r)' = Placed(r)
  BY DEF Placed, Elements
<1>2. PermitsSound'
  BY <1>1 DEF LockInv, PermitsSound
<1>3. QueueSound'
  <2> SUFFICES ASSUME NEW r \in Resources, NEW i \in DOMAIN queue[r]
               PROVE  pc'[queue[r][i].who] = "queued"
    BY DEF LockInv, QueueSound
  <2> DEFINE d == queue[r][i].who
  <2>1. queue[r][i] \in Placed(r)
    BY DEF Placed, Elements
  <2>2. d \in Clients /\ queue[r][i] = Permit(d) /\ Res(d) = r /\ pc[d] = "queued"
        /\ queue[r][i] \notin holders[r]
    BY <2>1 DEF LockInv, PermitsSound, QueueSound
  <2> QED BY <2>2 DEF InLock
<1>4. HasPlace'
  BY <1>1 DEF LockInv, HasPlace, Placed, InLock, Elements
<1>5. NotIdle'
  BY DEF LockInv, NotIdle
<1> QED BY <1>2, <1>3, <1>4, <1>5 DEF LockInv

\* A step of one client that serves a queue: it takes its place or gives it up.
LEMMA ServesOthers ==
    ASSUME IInv, LockInv, UNCHANGED call, NEW c \in Clients, NEW r \in Resources, Res(c) = r,
           NEW permits \in SUBSET holders[r], NEW waiting \in Seq(Permits),
           Serve(r, permits, waiting),
           \A i, j \in DOMAIN waiting : waiting[i] = waiting[j] => i = j,
           \A i \in DOMAIN waiting :
             waiting[i] \notin permits /\ waiting[i] \in Elements(queue[r]) \cup {Permit(c)},
           Placed(r) \ {Permit(c)} \subseteq permits \cup Elements(waiting),
           \A d \in Clients \ {c} : pc'[d] = pc[d],
           Permit(c) \in permits \cup Elements(waiting) => pc'[c] \in InLock,
           Permit(c) \in Elements(waiting) => pc'[c] = "queued" \/ Permit(c) \in holders'[r],
           pc'[c] = "queued" => Permit(c) \in permits \cup Elements(waiting)
    PROVE  LockInv'
<1>1. permits \in SUBSET Permits /\ TypeOK
  BY DEF IInv, TypeOK
<1>2. /\ Placed(r)' = permits \cup Elements(waiting)
      /\ permits \subseteq holders'[r]
      /\ \A i \in DOMAIN queue'[r] :
           queue'[r][i] \notin holders'[r] /\ queue'[r][i] \in Elements(waiting)
      /\ \A i, j \in DOMAIN queue'[r] : queue'[r][i] = queue'[r][j] => i = j
      /\ holders'[r] = {} => queue'[r] = <<>>
      /\ \A q \in Resources \ {r} : holders'[q] = holders[q] /\ queue'[q] = queue[q]
  BY <1>1, ServePlaces
<1>3. \A d \in Clients : Res(d)' = Res(d) /\ Permit(d)' = Permit(d) /\ Permit(d).who = d
  BY CallFixes, PermitType
<1>4. Placed(r)' \subseteq Placed(r) \cup {Permit(c)}
  BY <1>2 DEF Placed, Elements
<1>5. \A q \in Resources \ {r} : Placed(q)' = Placed(q)
  BY <1>2 DEF Placed, Elements
<1>6. \A q \in Resources : Permit(c) \in Placed(q) => q = r
  BY <1>3 DEF LockInv, PermitsSound
<1>7. PermitsSound'
  <2> SUFFICES ASSUME NEW q \in Resources, NEW h \in Placed(q)'
               PROVE  h.who \in Clients /\ h = Permit(h.who)' /\ Res(h.who)' = q /\ pc'[h.who] \in InLock
    BY DEF PermitsSound
  <2>1. CASE h = Permit(c) /\ q = r
    BY <1>2, <1>3, <2>1
  <2>2. CASE h \in Placed(q) /\ h # Permit(c)
    <3>1. h.who \in Clients /\ h = Permit(h.who) /\ Res(h.who) = q /\ pc[h.who] \in InLock
      BY <2>2 DEF LockInv, PermitsSound
    <3>2. h.who # c
      BY <2>2, <3>1
    <3> QED BY <1>3, <3>1, <3>2
  <2>3. (h = Permit(c) /\ q = r) \/ (h \in Placed(q) /\ h # Permit(c))
    BY <1>4, <1>5, <1>6
  <2> QED BY <2>1, <2>2, <2>3
<1>8. QueueSound'
  <2> SUFFICES ASSUME NEW q \in Resources
               PROVE  /\ \A i \in DOMAIN queue'[q] :
                           pc'[queue'[q][i].who] = "queued" /\ queue'[q][i] \notin holders'[q]
                      /\ \A i, j \in DOMAIN queue'[q] : queue'[q][i] = queue'[q][j] => i = j
    BY DEF QueueSound
  <2>1. CASE q = r
    <3> SUFFICES ASSUME NEW i \in DOMAIN queue'[r] PROVE pc'[queue'[r][i].who] = "queued"
      BY <1>2, <2>1
    <3> DEFINE h == queue'[r][i]
    <3>1. h \in Elements(waiting) /\ h \notin holders'[r]
      BY <1>2
    <3>2. CASE h = Permit(c)
      BY <1>3, <3>1, <3>2
    <3>3. CASE h # Permit(c)
      <4>1. h \in Elements(queue[r])
        BY <3>1, <3>3 DEF Elements
      <4>2. pc[h.who] = "queued" /\ h.who \in Clients /\ h = Permit(h.who)
        BY <4>1 DEF LockInv, QueueSound, PermitsSound, Placed, Elements
      <4>3. h.who # c
        BY <3>3, <4>2
      <4> QED BY <4>2, <4>3
    <3> QED BY <3>2, <3>3
  <2>2. CASE q # r
    <3> SUFFICES ASSUME NEW i \in DOMAIN queue[q] PROVE pc'[queue[q][i].who] = "queued"
      BY <1>2, <2>2 DEF LockInv, QueueSound
    <3>1. queue[q][i] \in Placed(q)
      BY DEF Placed, Elements
    <3>2. pc[queue[q][i].who] = "queued" /\ queue[q][i].who \in Clients /\ Res(queue[q][i].who) = q
      BY <3>1 DEF LockInv, QueueSound, PermitsSound
    <3>3. queue[q][i].who # c
      BY <2>2, <3>2
    <3> QED BY <3>2, <3>3
  <2> QED BY <2>1, <2>2
<1>9. HasPlace'
  <2> SUFFICES ASSUME NEW d \in Clients, pc'[d] = "queued" PROVE Permit(d)' \in Placed(Res(d))'
    BY DEF HasPlace
  <2>1. CASE d = c
    BY <1>2, <1>3, <2>1
  <2>2. CASE d # c
    <3>1. Permit(d) \in Placed(Res(d)) /\ Permit(d) # Permit(c)
      BY <1>3, <2>2 DEF LockInv, HasPlace
    <3>2. Res(d) = r => Permit(d) \in Placed(r)'
      BY <1>2, <3>1
    <3>3. Res(d) \in Resources
      BY <2>2, ResOfClient
    <3> QED BY <1>3, <1>5, <3>1, <3>2, <3>3
  <2> QED BY <2>1, <2>2
<1>10. NotIdle'
  BY <1>2 DEF LockInv, NotIdle
<1> QED BY <1>7, <1>8, <1>9, <1>10 DEF LockInv

\* A sequence of different elements without one of them.
LEMMA CutOut ==
    ASSUME NEW S, NEW seq \in Seq(S), NEW n \in DOMAIN seq,
           \A i, j \in DOMAIN seq : seq[i] = seq[j] => i = j
    PROVE  LET left == SubSeq(seq, 1, n - 1) \o SubSeq(seq, n + 1, Len(seq)) IN
           /\ left \in Seq(S)
           /\ Elements(left) = Elements(seq) \ {seq[n]}
           /\ \A i, j \in DOMAIN left : left[i] = left[j] => i = j
<1> DEFINE before == SubSeq(seq, 1, n - 1)
           after == SubSeq(seq, n + 1, Len(seq))
           left == before \o after
           at(m) == IF m < n THEN m ELSE m + 1
<1>1. n \in Nat /\ n >= 1 /\ n <= Len(seq) /\ Len(seq) \in Nat /\ DOMAIN seq = 1 .. Len(seq)
  OBVIOUS
<1>2. /\ before \in Seq(S) /\ Len(before) = n - 1
      /\ \A i \in 1 .. n - 1 : before[i] = seq[i]
  <2>1. \A i \in 1 .. n - 1 : seq[i] \in S
    BY <1>1
  <2> QED BY <1>1, <2>1, SubSeqProperties
<1>3. /\ after \in Seq(S) /\ Len(after) = Len(seq) - n
      /\ \A i \in 1 .. Len(seq) - n : after[i] = seq[n + i]
  <2>1. \A i \in n + 1 .. Len(seq) : seq[i] \in S
    BY <1>1
  <2> QED BY <1>1, <2>1, SubSeqProperties
<1> HIDE DEF before, after
<1>0. left = before \o after
  OBVIOUS
<1> HIDE DEF left
<1>4. /\ left \in Seq(S) /\ Len(left) = Len(seq) - 1 /\ DOMAIN left = 1 .. Len(seq) - 1
      /\ \A i \in 1 .. Len(seq) - 1 : left[i] = IF i <= n - 1 THEN before[i] ELSE after[i - (n - 1)]
  <2>1. Len(before) + Len(after) = Len(seq) - 1
    BY <1>1, <1>2, <1>3
  <2>2. /\ left \in Seq(S) /\ Len(left) = Len(before) + Len(after)
        /\ \A i \in 1 .. Len(before) + Len(after) :
             left[i] = IF i <= Len(before) THEN before[i] ELSE after[i - Len(before)]
    <3>1. before \in Seq(S) /\ after \in Seq(S)
      BY <1>2, <1>3
    <3>2. /\ before \o after \in Seq(S) /\ Len(before \o after) = Len(before) + Len(after)
          /\ \A i \in 1 .. Len(before) + Len(after) :
               (before \o after)[i] = IF i <= Len(before) THEN before[i] ELSE after[i - Len(before)]
      BY <3>1, ConcatProperties, Zenon
    <3> QED BY <1>0, <3>2
  <2>3. DOMAIN left = 1 .. Len(left)
    BY <2>2
  <2> QED BY <1>2, <2>1, <2>2, <2>3
<1>5. ASSUME NEW i \in DOMAIN left PROVE at(i) \in DOMAIN seq /\ at(i) # n /\ left[i] = seq[at(i)]
  <2>1. CASE i < n
    BY <1>1, <1>2, <1>4, <2>1
  <2>2. CASE ~(i < n)
    <3>1. i - (n - 1) \in 1 .. Len(seq) - n /\ n + (i - (n - 1)) = i + 1 /\ ~(i <= n - 1)
          /\ i + 1 \in DOMAIN seq /\ i + 1 # n
      BY <1>1, <1>4, <2>2
    <3> QED BY <1>3, <1>4, <2>2, <3>1
  <2> QED BY <2>1, <2>2
<1>6. ASSUME NEW i \in DOMAIN seq, i # n PROVE \E j \in DOMAIN left : i = at(j)
  <2>1. CASE i < n
    BY <1>1, <1>4, <2>1
  <2>2. CASE ~(i < n)
    <3>1. i - 1 \in DOMAIN left /\ at(i - 1) = i
      BY <1>1, <1>4, <1>6, <2>2
    <3> QED BY <3>1
  <2> QED BY <2>1, <2>2
<1>7. \A i, j \in DOMAIN left : at(i) = at(j) => i = j
  BY <1>1, <1>4
<1> HIDE DEF at
<1>8. Elements(left) = Elements(seq) \ {seq[n]}
  BY <1>5, <1>6 DEF Elements
<1>9. \A i, j \in DOMAIN left : left[i] = left[j] => i = j
  BY <1>5, <1>7
<1> QED BY <1>4, <1>8, <1>9 DEF left, before, after

\* A client that leaves the queue leaves the places of the others.
LEMMA WithoutElements ==
    ASSUME NEW waiting \in Seq(Permits), NEW c,
           \A i, j \in DOMAIN waiting : waiting[i] = waiting[j] => i = j,
           \A i, j \in DOMAIN waiting : waiting[i].who = c /\ waiting[j].who = c => i = j
    PROVE  LET left == Without(waiting, c) IN
           /\ left \in Seq(Permits)
           /\ Elements(left) = {h \in Elements(waiting) : h.who # c}
           /\ \A i, j \in DOMAIN left : left[i] = left[j] => i = j
<1>1. CASE \E i \in DOMAIN waiting : waiting[i].who = c
  <2> DEFINE n == CHOOSE i \in DOMAIN waiting : waiting[i].who = c
             left == SubSeq(waiting, 1, n - 1) \o SubSeq(waiting, n + 1, Len(waiting))
  <2>1. n \in DOMAIN waiting /\ waiting[n].who = c
    BY <1>1
  <2>2. Without(waiting, c) = left
    BY <1>1 DEF Without, n
  <2> HIDE DEF n
  <2>3. /\ left \in Seq(Permits) /\ Elements(left) = Elements(waiting) \ {waiting[n]}
        /\ \A i, j \in DOMAIN left : left[i] = left[j] => i = j
    BY <2>1, CutOut
  <2> HIDE DEF left
  <2>4. \A h \in Elements(waiting) : h.who = c <=> h = waiting[n]
    BY <2>1 DEF Elements
  <2> QED BY <2>2, <2>3, <2>4
<1>2. CASE ~\E i \in DOMAIN waiting : waiting[i].who = c
  BY <1>2 DEF Without, Elements
<1> QED BY <1>1, <1>2

\* Asking for the lock takes one place.
LEMMA LockFair == ASSUME IInv, LockInv, NEW c \in Clients, Lock(c) PROVE LockInv'
<1> PICK r \in Resources : r = Res(c)
  BY ResOfClient DEF Lock
<1> DEFINE permits == holders[r]
           waiting == Append(queue[r], Permit(c))
<1>1. /\ r \in Resources /\ pc[c] = "start" /\ Permit(c) \in Permits /\ UNCHANGED call
      /\ Serve(r, permits, waiting)
      /\ pc' = [pc EXCEPT ![c] = IF Permit(c) \in holders'[r] THEN Look(c) ELSE "queued"]
  BY ResOfClient, PermitType DEF Lock
<1>2. queue[r] \in Seq(Permits) /\ permits \in SUBSET Permits
  BY <1>1 DEF IInv, TypeOK
<1>3. Permit(c) \notin Placed(r)
  BY <1>1, PermitType DEF LockInv, PermitsSound, InLock
<1>4. /\ waiting \in Seq(Permits) /\ DOMAIN waiting = 1 .. Len(queue[r]) + 1
      /\ Len(queue[r]) \in Nat /\ DOMAIN queue[r] = 1 .. Len(queue[r])
      /\ \A i \in 1 .. Len(queue[r]) : waiting[i] = queue[r][i]
      /\ waiting[Len(queue[r]) + 1] = Permit(c)
  BY <1>1, <1>2
<1> HIDE DEF waiting
<1>5. /\ \A i \in DOMAIN waiting : waiting[i] \in Elements(queue[r]) \cup {Permit(c)}
      /\ Elements(waiting) = Elements(queue[r]) \cup {Permit(c)}
  BY <1>4 DEF Elements
<1>6. \A i \in DOMAIN waiting : waiting[i] \notin permits
  BY <1>1, <1>3, <1>5 DEF LockInv, QueueSound, Placed, Elements
<1>7. \A i, j \in DOMAIN waiting : waiting[i] = waiting[j] => i = j
  <2>1. \A i \in DOMAIN queue[r] : queue[r][i] # Permit(c)
    BY <1>3 DEF Placed, Elements
  <2>2. \A i, j \in DOMAIN queue[r] : queue[r][i] = queue[r][j] => i = j
    BY <1>1 DEF LockInv, QueueSound
  <2> SUFFICES ASSUME NEW i \in DOMAIN waiting, NEW j \in DOMAIN waiting, waiting[i] = waiting[j]
               PROVE  i = j
    OBVIOUS
  <2>3. CASE i \in DOMAIN queue[r] /\ j \in DOMAIN queue[r]
    BY <1>4, <2>2, <2>3
  <2>4. CASE i = Len(queue[r]) + 1 \/ j = Len(queue[r]) + 1
    BY <1>4, <2>1, <2>4
  <2> QED BY <1>4, <2>3, <2>4
<1>8. /\ pc'[c] = (IF Permit(c) \in holders'[r] THEN Look(c) ELSE "queued")
      /\ \A d \in Clients \ {c} : pc'[d] = pc[d]
      /\ Look(c) \in InLock
  BY <1>1 DEF IInv, TypeOK, Look, InLock
<1>9. Placed(r) \ {Permit(c)} \subseteq permits \cup Elements(waiting)
  BY <1>5 DEF Placed
<1>10. Res(c) = r
  OBVIOUS
<1>11. pc'[c] \in InLock /\ (pc'[c] = "queued" \/ Permit(c) \in holders'[r])
       /\ Permit(c) \in permits \cup Elements(waiting)
  BY <1>5, <1>8 DEF InLock
<1> QED BY <1>1, <1>2, <1>4, <1>5, <1>6, <1>7, <1>8, <1>9, <1>10, <1>11, ServesOthers

\* Giving the permit up leaves every other place.
LEMMA ReleaseFair ==
    ASSUME IInv, LockInv, NEW c \in Clients, pc[c] \in {"wait", "held", "drop"}, Release(c),
           UNCHANGED call, NEW next \in {"asleep", "done"}, pc' = [pc EXCEPT ![c] = next]
    PROVE  LockInv'
<1> PICK r \in Resources : r = Res(c)
  BY ResOfClient
<1> DEFINE permits == holders[r] \ {Permit(c)}
           waiting == queue[r]
<1>1. r \in Resources /\ Serve(r, permits, waiting)
  BY DEF Release
<1>2. waiting \in Seq(Permits)
  BY <1>1 DEF IInv, TypeOK
<1>3. \A i \in DOMAIN waiting : waiting[i] # Permit(c) /\ waiting[i] \notin permits
  BY <1>1, PermitType DEF LockInv, QueueSound
<1>4. Permit(c) \notin permits \cup Elements(waiting)
  BY <1>3 DEF Elements
<1>5. Placed(r) \ {Permit(c)} \subseteq permits \cup Elements(waiting)
  BY DEF Placed
<1>6. /\ \A i, j \in DOMAIN waiting : waiting[i] = waiting[j] => i = j
      /\ \A i \in DOMAIN waiting : waiting[i] \in Elements(queue[r]) \cup {Permit(c)}
  BY <1>1 DEF LockInv, QueueSound, Elements
<1>7. pc'[c] = next /\ \A d \in Clients \ {c} : pc'[d] = pc[d]
  BY DEF IInv, TypeOK
<1>8. permits \in SUBSET holders[r] /\ permits \in SUBSET Permits /\ Res(c) = r /\ TypeOK
  BY <1>1 DEF IInv, TypeOK
<1> HIDE DEF permits, waiting
<1> QED BY <1>1, <1>2, <1>3, <1>4, <1>5, <1>6, <1>7, <1>8, ServesOthers

\* A dropped pollable leaves no place and no permit behind.
LEMMA DropFair == ASSUME IInv, LockInv, NEW p \in Pollables, DropPollable(p) PROVE LockInv'
<1> PICK r \in Resources : r = Watches[p]
  BY SyncAssumption
<1> DEFINE permits == {h \in holders[r] : h.who # p}
           waiting == Without(queue[r], p)
<1>1. /\ r \in Resources /\ p \in Clients /\ Res(p) = r /\ UNCHANGED call
      /\ Serve(r, permits, waiting) /\ pc' = [pc EXCEPT ![p] = "off"]
  BY SyncAssumption DEF DropPollable, Clients, Res
<1>2. queue[r] \in Seq(Permits) /\ permits \in SUBSET Permits /\ TypeOK
  BY <1>1 DEF IInv, TypeOK
<1>3. \A h \in Placed(r) : h.who = p => h = Permit(p)
  BY <1>1 DEF LockInv, PermitsSound
<1>4. \A i, j \in DOMAIN queue[r] : queue[r][i] = queue[r][j] => i = j
  BY <1>1 DEF LockInv, QueueSound
<1>5. \A i, j \in DOMAIN queue[r] : queue[r][i].who = p /\ queue[r][j].who = p => i = j
  BY <1>3, <1>4 DEF Placed, Elements
<1>6. /\ waiting \in Seq(Permits)
      /\ Elements(waiting) = {h \in Elements(queue[r]) : h.who # p}
      /\ \A i, j \in DOMAIN waiting : waiting[i] = waiting[j] => i = j
  BY <1>2, <1>4, <1>5, WithoutElements
<1> HIDE DEF waiting
<1>7. \A i \in DOMAIN waiting : waiting[i] \in Elements(queue[r])
  BY <1>6 DEF Elements
<1>8. \A h \in Elements(queue[r]) : h \notin holders[r]
  BY <1>1 DEF LockInv, QueueSound, Elements
<1>9. \A i \in DOMAIN waiting :
        waiting[i] \notin permits /\ waiting[i] \in Elements(queue[r]) \cup {Permit(p)}
  BY <1>7, <1>8
<1>10. Placed(r) \ {Permit(p)} \subseteq permits \cup Elements(waiting)
  BY <1>3, <1>6 DEF Placed
<1>11. pc'[p] = "off" /\ \A d \in Clients \ {p} : pc'[d] = pc[d]
  BY <1>1 DEF IInv, TypeOK
<1>12. Permit(p) \notin permits \cup Elements(waiting)
  BY <1>1, <1>6, PermitType
<1>13. permits \in SUBSET holders[r]
  OBVIOUS
<1> HIDE DEF permits
<1> QED BY <1>1, <1>2, <1>6, <1>9, <1>10, <1>11, <1>12, <1>13, ServesOthers

\* What one step of a future does to it and to the others.
LEMMA StepShape ==
    ASSUME IInv, NEW c \in Clients, Step(c)
    PROVE  /\ UNCHANGED call
           /\ \A r \in Resources : happened[r] => happened'[r]
           /\ \A d \in Clients \ {c} : pc'[d] = pc[d] \/ (pc[d] = "asleep" /\ pc'[d] = "start")
           /\ \/ pc[c] \in {"start", "queued"} /\ Polled(c) /\ pc'[c] = Look(c)
              \/ pc[c] = "start" /\ pc'[c] = "queued"
              \/ pc[c] = "wait" /\ pc'[c] = "asleep"
              \/ pc[c] = "held" /\ Polled(c) /\ Mode(c) = "read" /\ pc'[c] = "done"
              \/ pc[c] = "held" /\ Mode(c) = "write" /\ pc'[c] = "drop" /\ (Makes(c) => happened'[Res(c)])
              \/ pc[c] = "drop" /\ pc'[c] = "done"
<1>1. TypeOK
  BY DEF IInv
<1>2. CASE Lock(c) \/ Locked(c)
  BY <1>1, <1>2 DEF TypeOK, Lock, Locked
<1>3. CASE Sleep(c) \/ Read(c) \/ Unlock(c)
  BY <1>1, <1>3 DEF TypeOK, Sleep, Read, Unlock
<1>4. CASE Write(c)
  <2>1. Res(c) \in Resources
    BY <1>4, ResOfClient DEF Write
  <2>2. /\ pc[c] = "held" /\ Mode(c) = "write" /\ UNCHANGED call
        /\ happened' = [happened EXCEPT ![Res(c)] = @ \/ Makes(c)]
        /\ pc' = [Notified(Res(c)) EXCEPT ![c] = "drop"]
    BY <1>4 DEF Write
  <2>3. /\ \A r \in Resources : happened[r] => happened'[r]
        /\ Makes(c) => happened'[Res(c)]
    BY <1>1, <2>1, <2>2 DEF TypeOK
  <2>4. pc'[c] = "drop"
        /\ \A d \in Clients \ {c} : pc'[d] = pc[d] \/ (pc[d] = "asleep" /\ pc'[d] = "start")
    BY <2>2 DEF Notified
  <2> QED BY <2>2, <2>3, <2>4
<1> QED BY <1>2, <1>3, <1>4 DEF Step

\* Only who waits for an event sleeps, and a task that is past its work has done it.
LEMMA StepWaiters == ASSUME IInv, OnlyWaiters, NEW c \in Clients, Step(c) PROVE OnlyWaiters'
<1>1. Look(c) \in {"wait", "held"} /\ (Look(c) = "wait" => Waits(c))
  BY DEF Look
<1>2. \A d \in Clients : Waits(d)' = Waits(d)
  BY StepShape DEF Waits
<1>3. ASSUME NEW d \in Clients, pc'[d] \in {"wait", "asleep"} PROVE Waits(d)
  BY <1>1, <1>3, StepShape DEF OnlyWaiters
<1>4. ASSUME NEW t \in Tasks PROVE pc'[t] # "off"
  BY <1>1, StepShape DEF OnlyWaiters, Clients
<1>5. ASSUME NEW t \in Sets, pc'[t] \in {"drop", "done"} PROVE happened'[Works[t]]
  <2>1. t \in Tasks /\ t \in Clients /\ Works[t] \in Resources /\ Res(t) = Works[t] /\ Makes(t)
        /\ Mode(t) = "write"
    BY SyncAssumption DEF Clients, Res, Makes, Mode
  <2>2. CASE pc[t] \in {"drop", "done"}
    BY <2>1, <2>2, StepShape DEF OnlyWaiters
  <2>3. CASE pc[t] \notin {"drop", "done"}
    BY <1>1, <1>5, <2>1, <2>3, StepShape
  <2> QED BY <2>2, <2>3
<1>6. ASSUME NEW p \in Pollables PROVE pc'[p] # "drop"
  <2>1. p \in Clients /\ Mode(p) = "read"
    BY DEF Clients, Mode
  <2> QED BY <1>1, <2>1, StepShape DEF OnlyWaiters
<1> QED BY <1>2, <1>3, <1>4, <1>5, <1>6 DEF OnlyWaiters

\* Nobody else gets past its lock.
LEMMA CalmKeeps ==
    ASSUME OneAtATime, InCall, Polls' = Polls,
           \A p \in Pollables :
             /\ pc'[p] \in {"wait", "held"} => pc[p] \in {"wait", "held"}
             /\ pc'[p] = "done" => pc[p] = "done"
    PROVE  OneAtATime'
<1>1. \A p \in Polls : p \in Pollables
  BY DEF InCall
<1>2. \A p \in Pollables : pc'[p] \in {"wait", "held"} => p \in Polls'
  BY DEF OneAtATime
<1>3. \A p, q \in Pollables : pc'[p] \in {"wait", "held"} /\ pc'[q] \in {"wait", "held"} => p = q
  BY DEF OneAtATime
<1>4. ASSUME NEW p \in Polls', NEW q \in Polls', pc'[p] = "done" PROVE pc'[q] \notin {"wait", "held"}
  <2>1. p \in Polls /\ q \in Polls /\ p \in Pollables /\ q \in Pollables
    BY <1>1
  <2> QED BY <1>4, <2>1 DEF OneAtATime
<1> QED BY <1>2, <1>3, <1>4 DEF OneAtATime

\* One pollable after the other is polled.
LEMMA StepPolls ==
    ASSUME IInv, InCall, OneAtATime, OnlyWaiters, NEW c \in Clients, Step(c)
    PROVE  InCall' /\ OneAtATime'
<1>1. Look(c) \in {"wait", "held"}
  BY DEF Look
<1>2. UNCHANGED call /\ Polls' = Polls
  BY StepShape DEF Polls, Elements
<1>3. Pollables \subseteq Clients /\ Guest \in Clients
  BY DEF Clients
<1>4. \A d \in Clients : pc[d] # "off" => pc'[d] # "off"
  BY <1>1, StepShape
<1>5. InCall'
  BY <1>2, <1>3, <1>4 DEF InCall
<1>6. \A p \in Pollables \ {c} :
        /\ pc'[p] \in {"wait", "held"} => pc[p] \in {"wait", "held"}
        /\ pc'[p] = "done" => pc[p] = "done"
  BY <1>3, StepShape
<1>7. CASE c \notin Pollables
  BY <1>2, <1>5, <1>6, <1>7, CalmKeeps
<1>8. CASE c \in Pollables
  <2>1. \/ pc[c] \in {"start", "queued"} /\ Polled(c) /\ pc'[c] = Look(c)
        \/ pc'[c] \in {"queued", "asleep"}
        \/ pc[c] = "held" /\ Polled(c) /\ pc'[c] = "done"
    <3>1. Mode(c) = "read" /\ pc[c] # "drop"
      BY <1>8 DEF Mode, OnlyWaiters
    <3> QED BY <3>1, StepShape
  <2>2. CASE pc'[c] \in {"queued", "asleep"}
    BY <1>2, <1>5, <1>6, <2>2, CalmKeeps
  <2>3. CASE Polled(c) /\ (pc'[c] \in {"wait", "held"} \/ pc'[c] = "done")
    <3>1. c \in Polls /\ \A p \in Polls : pc[p] # "done" /\ (p # c => pc[p] \notin {"wait", "held"})
      BY <1>8, <2>3 DEF Polled
    <3>2. \A p \in Pollables : pc'[p] \in {"wait", "held"} => p = c
      BY <1>6, <3>1 DEF OneAtATime
    <3>3. \A p \in Polls : pc'[p] = "done" => p = c
      BY <1>6, <3>1 DEF InCall
    <3>4. \A p, q \in Polls' : pc'[p] = "done" => pc'[q] \notin {"wait", "held"}
      <4> SUFFICES ASSUME NEW p \in Polls, NEW q \in Polls, pc'[p] = "done",
                          pc'[q] \in {"wait", "held"}
                   PROVE  FALSE
        BY <1>2
      <4>1. p = c /\ q \in Pollables
        BY <3>3 DEF InCall
      <4>2. q = c
        BY <3>2, <4>1
      <4> QED BY <4>1, <4>2
    <3>5. \A p \in Pollables : pc'[p] \in {"wait", "held"} => p \in Polls'
      BY <1>2, <3>1, <3>2
    <3>6. \A p, q \in Pollables : pc'[p] \in {"wait", "held"} /\ pc'[q] \in {"wait", "held"} => p = q
      BY <3>2
    <3> QED BY <1>5, <3>4, <3>5, <3>6 DEF OneAtATime
  <2> QED BY <1>1, <2>1, <2>2, <2>3
<1> QED BY <1>5, <1>7, <1>8

\* Every step of a future keeps the lock fair.
LEMMA StepFair == ASSUME IInv, FairInv, NEW c \in Clients, Step(c) PROVE FairInv'
<1>1. LockInv'
  <2>1. CASE Lock(c)
    BY <2>1, LockFair DEF FairInv
  <2>2. CASE Locked(c)
    <3>1. /\ pc' = [pc EXCEPT ![c] = Look(c)] /\ UNCHANGED <<queue, holders, call>>
          /\ Permit(c) \in holders[Res(c)] /\ Look(c) \in {"wait", "held"}
      BY <2>2 DEF Locked, Look
    <3> QED BY <3>1, StayPut, CallFixes DEF FairInv, IInv, TypeOK, InLock
  <2>3. CASE Sleep(c)
    BY <2>3, ReleaseFair DEF Sleep, FairInv
  <2>4. CASE Read(c)
    BY <2>4, ReleaseFair DEF Read, FairInv
  <2>5. CASE Unlock(c)
    BY <2>5, ReleaseFair DEF Unlock, FairInv
  <2>6. CASE Write(c)
    <3>1. /\ \A d \in Clients \ {c} : pc'[d] = pc[d] \/ (pc[d] = "asleep" /\ pc'[d] = "start")
          /\ pc[c] = "held" /\ pc'[c] = "drop" /\ UNCHANGED <<queue, holders, call>>
      BY <2>6 DEF Write, Notified
    <3> QED BY <3>1, StayPut, CallFixes DEF FairInv, InLock
  <2> QED BY <2>1, <2>2, <2>3, <2>4, <2>5, <2>6 DEF Step
<1> QED BY <1>1, StepWaiters, StepPolls DEF FairInv

\* A pollable is past its lock only inside the call that polls it.
LEMMA NobodyPast ==
    ASSUME OneAtATime, Polls = {} \/ \E p \in Polls : pc[p] = "done"
    PROVE  \A p \in Pollables : pc[p] \notin {"wait", "held"}
  BY DEF OneAtATime

\* While no future of a pollable is past its lock, one that is sent back keeps it so.
LEMMA PastKeeps ==
    ASSUME \A p \in Pollables : pc[p] \notin {"wait", "held"},
           \A p \in Polls' : p \in Pollables,
           \A p \in Pollables : pc'[p] = pc[p] \/ pc'[p] \in {"start", "off"}
    PROVE  OneAtATime'
  BY DEF OneAtATime

\* A call of the guest on a resource, or its end.
LEMMA GuestFair ==
    ASSUME IInv, FairInv, NEW at \in {"off", "start"}, pc' = [pc EXCEPT ![Guest] = at],
           UNCHANGED <<happened, queue, holders>>, pc[Guest] \in {"off", "done"},
           Polls = {}, Polls' = {},
           at = "off" => call' = None, call'.op # "ready"
    PROVE  FairInv'
<1>1. /\ Guest \in Clients /\ Guest \notin Tasks /\ Guest \notin Pollables
      /\ pc'[Guest] = at /\ \A d \in Clients \ {Guest} : pc'[d] = pc[d]
  BY SyncAssumption DEF IInv, TypeOK, Clients
<1>2. \A d \in Clients \ {Guest} : Res(d)' = Res(d) /\ Permit(d)' = Permit(d) /\ Waits(d)' = Waits(d)
  BY OthersKeep DEF Waits
<1>3. LockInv'
  BY <1>1, <1>2, StayPut DEF FairInv, InLock
<1>4. OnlyWaiters'
  BY <1>1, <1>2, SyncAssumption DEF FairInv, OnlyWaiters, Clients
<1>5. InCall'
  BY <1>1 DEF InCall
<1>6. OneAtATime'
  BY <1>1, NobodyPast, PastKeeps DEF FairInv, Clients
<1> QED BY <1>3, <1>4, <1>5, <1>6 DEF FairInv

\* A call that only begins or ends a poll.
LEMMA PollCallFair ==
    ASSUME IInv, FairInv, UNCHANGED <<happened, queue, holders, pc>>, pc[Guest] = "off",
           call' = None \/ call'.op \notin OnResource,
           \A p \in Pollables : pc[p] \notin {"wait", "held"},
           \A p \in Polls' : p \in Pollables /\ pc[p] # "off",
           call'.op = "ready" => \E p \in Pollables : Polls' = {p}
    PROVE  FairInv'
<1>1. \A d \in Clients \ {Guest} : Res(d)' = Res(d) /\ Permit(d)' = Permit(d) /\ Waits(d)' = Waits(d)
  BY OthersKeep DEF Waits
<1>2. LockInv'
  BY <1>1, StayPut DEF FairInv, InLock
<1>3. OnlyWaiters'
  BY <1>1 DEF FairInv, OnlyWaiters
<1>4. InCall' /\ OneAtATime'
  BY PastKeeps DEF InCall
<1> QED BY <1>2, <1>3, <1>4 DEF FairInv

\* The guest calls on a resource: only its own place changes.
LEMMA EnterFair ==
    ASSUME IInv, FairInv, NEW r \in Resources, NEW op \in OnResource, Enter(r, op)
    PROVE  FairInv'
<1>1. /\ call = None /\ call' = [op |-> op, res |-> r] /\ pc' = [pc EXCEPT ![Guest] = "start"]
      /\ UNCHANGED <<happened, queue, holders>> /\ pc[Guest] = "off"
  BY GuestOff DEF Enter
<1>2. Polls = {} /\ Polls' = {} /\ call'.op # "ready"
  BY <1>1 DEF Polls, None, OnResource
<1> QED BY <1>1, <1>2, GuestFair

\* The guest's call on a resource returns: no place in a queue changes.
LEMMA LeaveFair == ASSUME IInv, FairInv, Leave PROVE FairInv'
<1>1. /\ call.op \in OnResource /\ call' = None /\ pc' = [pc EXCEPT ![Guest] = "off"]
      /\ UNCHANGED <<happened, queue, holders>> /\ pc[Guest] = "done"
  BY DEF Leave, OnResource
<1>2. Polls = {} /\ Polls' = {} /\ call'.op # "ready"
  BY <1>1 DEF Polls, None, OnResource
<1> QED BY <1>1, <1>2, GuestFair

\* A new pollable comes with a future that has asked for nothing.
LEMMA SubscribeFair == ASSUME IInv, FairInv, NEW p \in Pollables, Subscribe(p) PROVE FairInv'
<1>1. /\ pc' = [pc EXCEPT ![p] = "start"] /\ UNCHANGED <<happened, queue, holders, call>>
      /\ pc[p] = "off" /\ p \in Clients /\ Polls = {} /\ Polls' = {}
  BY DEF Subscribe, Clients, Polls, None
<1>2. pc'[p] = "start" /\ \A d \in Clients \ {p} : pc'[d] = pc[d]
  BY <1>1 DEF IInv, TypeOK
<1>3. LockInv'
  BY <1>1, <1>2, StayPut, CallFixes DEF FairInv, InLock
<1>4. \A d \in Clients : Waits(d)' = Waits(d)
  BY <1>1 DEF Waits
<1>5. OnlyWaiters'
  BY <1>1, <1>2, <1>4, SyncAssumption DEF FairInv, OnlyWaiters, Clients
<1>6. InCall' /\ OneAtATime'
  <2>1. OneAtATime'
    BY <1>1, <1>2, NobodyPast, PastKeeps DEF FairInv, Clients
  <2>2. pc'[Guest] = pc[Guest]
    BY <1>2, SyncAssumption DEF Clients
  <2> QED BY <1>1, <2>1, <2>2 DEF FairInv, InCall
<1> QED BY <1>3, <1>5, <1>6 DEF FairInv

\* A pollable dropped outside a call takes its future's place out of the queue with it.
LEMMA DropPollableFair == ASSUME IInv, FairInv, NEW p \in Pollables, DropPollable(p) PROVE FairInv'
<1>1. /\ pc' = [pc EXCEPT ![p] = "off"] /\ UNCHANGED <<happened, call>>
      /\ p \in Clients /\ Polls = {} /\ Polls' = {}
  BY DEF DropPollable, Clients, Polls, None
<1>2. pc'[p] = "off" /\ \A d \in Clients \ {p} : pc'[d] = pc[d]
  BY <1>1 DEF IInv, TypeOK
<1>3. LockInv'
  BY DropFair DEF FairInv
<1>4. \A d \in Clients : Waits(d)' = Waits(d)
  BY <1>1 DEF Waits
<1>5. OnlyWaiters'
  BY <1>1, <1>2, <1>4, SyncAssumption DEF FairInv, OnlyWaiters, Clients
<1>6. InCall' /\ OneAtATime'
  <2>1. OneAtATime'
    BY <1>1, <1>2, NobodyPast, PastKeeps DEF FairInv, Clients
  <2>2. pc'[Guest] = pc[Guest]
    BY <1>2, SyncAssumption DEF Clients
  <2> QED BY <1>1, <2>1, <2>2 DEF FairInv, InCall
<1> QED BY <1>3, <1>5, <1>6 DEF FairInv

\* A poll begins with no future of a pollable past its lock.
LEMMA EnterPollFair ==
    ASSUME IInv, FairInv, NEW op \in {"ready", "block", "poll"}, NEW list \in Seq(Pollables),
           op = "ready" => Len(list) = 1, EnterPoll(op, list)
    PROVE  FairInv'
<1>1. /\ UNCHANGED <<happened, queue, holders, pc>> /\ pc[Guest] = "off" /\ Polls = {}
      /\ \A p \in Elements(list) : pc[p] # "off"
      /\ call' = [op |-> "selfLocked"] \/ call' = [op |-> op, list |-> list]
  BY GuestOff DEF EnterPoll, Polls, None
<1>2. \A p \in Elements(list) : p \in Pollables
  BY DEF Elements
<1>3. \A p \in Pollables : pc[p] \notin {"wait", "held"}
  BY <1>1, NobodyPast DEF FairInv
<1>4. CASE call' = [op |-> "selfLocked"]
  BY <1>1, <1>3, <1>4, PollCallFair DEF Polls, OnResource
<1>5. CASE call' = [op |-> op, list |-> list]
  <2>1. Polls' = Elements(list) /\ call'.op = op
    BY <1>5 DEF Polls
  <2>2. op = "ready" => \E p \in Pollables : Elements(list) = {p}
    <3>1. ASSUME op = "ready" PROVE Elements(list) = {list[1]} /\ list[1] \in Pollables
      BY <3>1 DEF Elements
    <3> QED BY <3>1
  <2> QED BY <1>1, <1>2, <1>3, <2>1, <2>2, PollCallFair DEF OnResource
<1> QED BY <1>1, <1>4, <1>5

\* A poll that returns leaves the futures it did not choose where they are.
LEMMA PollReturnsFair ==
    ASSUME IInv, FairInv, NEW p \in Pollables, ReturnDone(p) \/ ReturnNotReady(p)
    PROVE  FairInv'
<1>1. /\ UNCHANGED <<happened, queue, holders, pc>> /\ call' = None /\ p \in Polls
      /\ pc[p] = "done" \/ (call.op = "ready" /\ pc[p] \in {"asleep", "queued"})
  BY DEF ReturnDone, ReturnNotReady
<1>2. call.op \notin OnResource /\ pc[Guest] = "off" /\ Polls' = {} /\ call'.op # "ready"
  BY <1>1 DEF Polls, OnResource, IInv, GuestInCall, None
<1>3. \A q \in Pollables : pc[q] \notin {"wait", "held"}
  <2>1. CASE pc[p] = "done"
    BY <1>1, <2>1, NobodyPast DEF FairInv
  <2>2. CASE call.op = "ready" /\ pc[p] \in {"asleep", "queued"}
    BY <1>1, <2>2 DEF FairInv, InCall, OneAtATime
  <2> QED BY <1>1, <2>1, <2>2
<1> QED BY <1>1, <1>2, <1>3, PollCallFair

-----------------------------------------------------------------------------
(* Who stands still, and why.                                              *)

\* Who waits for a lock waits for somebody who has it.
LEMMA SomebodyHas ==
    ASSUME IInv, FairInv, NEW c \in Clients, pc[c] = "queued", Permit(c) \notin holders[Res(c)]
    PROVE  \E d \in Clients \ {c} :
             /\ Permit(d) \in holders[Res(c)] /\ Res(d) = Res(c) /\ pc[d] \in InLock
             /\ d \in {h.who : h \in holders[Res(c)]}
<1>1. PICK r \in Resources : r = Res(c)
  BY ResOfClient
<1>2. queue[r] # <<>>
  <2>1. Permit(c) \in Elements(queue[r])
    BY <1>1 DEF FairInv, LockInv, HasPlace, Placed
  <2> QED BY <2>1 DEF Elements
<1>3. PICK h \in holders[r] : TRUE
  BY <1>2 DEF FairInv, LockInv, NotIdle
<1>4. h.who \in Clients /\ h = Permit(h.who) /\ Res(h.who) = r /\ pc[h.who] \in InLock
  BY <1>3 DEF FairInv, LockInv, PermitsSound, Placed
<1> QED BY <1>1, <1>3, <1>4

\* The guest and the tasks move whenever they have what they need.
LEMMA OthersMove ==
    ASSUME NEW c \in Clients \ Pollables, pc[c] \in InLock \cup {"start"},
           pc[c] = "queued" => Permit(c) \in holders[Res(c)]
    PROVE  Moves(c)
  BY DEF Moves, Polled, InLock

\* So does what a poll polls, one after the other, until one is done.
LEMMA PolledMoves ==
    ASSUME FairInv, NEW c \in Polls, \A p \in Polls : pc[p] # "done",
           \/ pc[c] \in {"wait", "held"}
           \/ /\ pc[c] = "start" \/ (pc[c] = "queued" /\ Permit(c) \in holders[Res(c)])
              /\ \A p \in Polls : pc[p] \notin {"wait", "held"}
    PROVE  Moves(c)
<1>1. c \in Pollables /\ \A p \in Polls : p \in Pollables
  BY DEF FairInv, InCall
<1>2. \A p \in Polls : p # c => pc[p] \notin {"wait", "held"}
  BY <1>1 DEF FairInv, OneAtATime
<1>3. Polled(c)
  BY <1>2 DEF Polled
<1> QED BY <1>3 DEF Moves

\* Who has the lock that a client waits for can move, or nobody polls it.
LEMMA HolderMoves ==
    ASSUME IInv, FairInv, NEW c \in Clients, pc[c] = "queued", Permit(c) \notin holders[Res(c)],
           Res(c) \in Awaited, \A p \in Polls : pc[p] # "done" /\ pc[p] \notin {"wait", "held"}
    PROVE  \/ \E d \in Concerned : Moves(d)
           \/ \E p \in Concerned \cap Pollables : pc[p] = "queued" /\ p \notin Polls /\ Res(p) = Res(c) /\ p # c
<1>1. PICK d \in Clients \ {c} :
        /\ Permit(d) \in holders[Res(c)] /\ Res(d) = Res(c) /\ pc[d] \in InLock
        /\ d \in {h.who : h \in holders[Res(c)]}
  BY SomebodyHas
<1>2. d \in Concerned
  BY <1>1 DEF Concerned
<1>3. CASE d \notin Pollables
  BY <1>1, <1>2, <1>3, OthersMove DEF InLock
<1>4. CASE d \in Pollables
  <2>1. pc[d] \notin {"wait", "held", "drop"}
    BY <1>4 DEF FairInv, OnlyWaiters, OneAtATime
  <2>2. pc[d] = "queued"
    BY <1>1, <2>1 DEF InLock
  <2>3. CASE d \in Polls
    BY <1>1, <1>2, <2>2, <2>3, PolledMoves
  <2> QED BY <1>1, <1>2, <1>4, <2>2, <2>3
<1> QED BY <1>3, <1>4

\* A poll that is under way stands still only where it stands asleep, or for somebody
\* who has the lock.
LEMMA PollStands ==
    ASSUME IInv, FairInv, call.op \notin OnResource, NEW p \in Polls
    PROVE  \/ \E q \in Polls : pc[q] = "done"
           \/ \E d \in Concerned : Moves(d)
           \/ pc[p] = "asleep" /\ \A q \in Polls : pc[q] \notin {"wait", "held", "done"}
           \/ /\ pc[p] = "queued" /\ Permit(p) \notin holders[Res(p)] /\ Res(p) = Watches[p]
              /\ \E q \in Concerned \cap Pollables :
                   pc[q] = "queued" /\ q \notin Polls /\ Res(q) = Res(p) /\ q # p
<1> SUFFICES ASSUME \A q \in Polls : pc[q] # "done", \A d \in Concerned : ~Moves(d)
             PROVE  \/ pc[p] = "asleep" /\ \A q \in Polls : pc[q] \notin {"wait", "held", "done"}
                    \/ /\ pc[p] = "queued" /\ Permit(p) \notin holders[Res(p)] /\ Res(p) = Watches[p]
                       /\ \E q \in Concerned \cap Pollables :
                            pc[q] = "queued" /\ q \notin Polls /\ Res(q) = Res(p) /\ q # p
  OBVIOUS
<1>1. p \in Pollables /\ p \in Clients /\ pc[p] # "off" /\ pc[p] # "drop" /\ Polls \subseteq Concerned
      /\ Res(p) = Watches[p] /\ Res(p) \in Awaited
  BY SyncAssumption DEF FairInv, InCall, OnlyWaiters, Clients, Concerned, Res, Awaited
<1>2. \A q \in Polls : pc[q] \notin {"wait", "held"}
  BY <1>1, PolledMoves
<1>3. pc[p] \in {"queued", "asleep"}
  <2>1. pc[p] # "start"
    BY <1>1, <1>2, PolledMoves
  <2> QED BY <1>1, <1>2, <2>1 DEF IInv, TypeOK
<1>4. CASE pc[p] = "asleep"
  BY <1>2, <1>4
<1>5. CASE pc[p] = "queued"
  <2>1. Permit(p) \notin holders[Res(p)]
    BY <1>1, <1>2, <1>5, PolledMoves
  <2> QED BY <1>1, <1>2, <1>5, <2>1, HolderMoves
<1> QED BY <1>3, <1>4, <1>5

\* The guest's own future stands still only asleep, or for a pollable nobody polls.
LEMMA GuestStands ==
    ASSUME IInv, FairInv, call # None, call.op \in OnResource
    PROVE  \/ pc[Guest] = "done"
           \/ \E d \in Concerned : Moves(d)
           \/ pc[Guest] = "asleep" /\ call.op = "wait" /\ ~happened[call.res]
           \/ \E p \in Concerned \cap Pollables :
                pc[p] = "queued" /\ p \notin Polls /\ Watches[p] = call.res
<1>1. Guest \in Clients /\ Guest \notin Pollables /\ Guest \in Concerned /\ Res(Guest) = call.res
      /\ Polls = {} /\ Awaited = {call.res} /\ pc[Guest] # "off"
  BY SyncAssumption DEF Clients, Concerned, Res, Polls, OnResource, Awaited, FairInv, InCall
<1>2. CASE pc[Guest] = "asleep"
  BY <1>1, <1>2 DEF IInv, NotYet, FairInv, OnlyWaiters, Waits
<1>3. CASE pc[Guest] \in InLock \cup {"start"}
  <2>1. CASE pc[Guest] = "queued" /\ Permit(Guest) \notin holders[Res(Guest)]
    <3>1. \A p \in Pollables : Res(p) = Watches[p]
      BY SyncAssumption DEF Res
    <3> QED BY <1>1, <2>1, <3>1, HolderMoves
  <2> QED BY <1>1, <1>3, <2>1, OthersMove
<1>4. pc[Guest] \in {"asleep", "done"} \cup InLock \cup {"start"}
  BY <1>1 DEF IInv, TypeOK, InLock
<1> QED BY <1>2, <1>3, <1>4

\* Every hang has a name.
LEMMA HangsHaveNames == IInv /\ FairInv => HangsNamed
<1> SUFFICES ASSUME IInv, FairInv, Due, ~Returnable, \A c \in Concerned : ~Moves(c)
             PROVE  \E p \in Concerned \cap Pollables : pc[p] = "queued" /\ p \notin Polls
  BY DEF HangsNamed
<1>1. CASE call.op \in OnResource
  <2>1. call # None
    BY <1>1 DEF None, OnResource
  <2>2. ~(call.op = "wait" /\ ~happened[call.res])
    BY DEF Due
  <2> QED BY <1>1, <2>1, <2>2, GuestStands DEF Returnable
<1>2. CASE call.op = "ready"
  <2>1. PICK p \in Pollables : Polls = {p}
    BY <1>2 DEF FairInv, InCall
  <2>2. p \in Polls /\ Res(p) = Watches[p]
    BY <2>1, SyncAssumption DEF Res
  <2> QED BY <1>2, <2>2, PollStands DEF Returnable, OnResource
<1>3. CASE call.op \in {"block", "poll"}
  <2>1. PICK p \in Polls : happened[Watches[p]]
    BY <1>3 DEF Due
  <2>2. p \in Pollables /\ p \in Clients /\ Res(p) = Watches[p]
    BY SyncAssumption DEF FairInv, InCall, Res, Clients
  <2>3. pc[p] # "asleep"
    BY <2>1, <2>2 DEF IInv, NotYet
  <2> QED BY <1>3, <2>3, PollStands DEF Returnable, OnResource
<1>4. call.op \in OnResource \/ call.op = "ready" \/ call.op \in {"block", "poll"}
  BY DEF Due, OnResource
<1> QED BY <1>1, <1>2, <1>3, <1>4

-----------------------------------------------------------------------------
(* Theorems.                                                               *)

\* At first nobody holds or awaits anything.
LEMMA SyncInit == Init => IInv
<1> SUFFICES ASSUME Init PROVE IInv OBVIOUS
<1>1. /\ happened \in [Resources -> BOOLEAN]
      /\ queue \in [Resources -> Seq(Permits)]
      /\ holders \in [Resources -> SUBSET Permits]
  BY DEF Init
<1>2. pc \in [Clients -> {"off", "start", "queued", "wait", "asleep", "held", "drop", "done"}]
      /\ (\A c \in Clients : pc[c] \in {"off", "start"}) /\ pc[Guest] = "off" /\ call = None
  BY SyncAssumption DEF Init, Clients
<1>3. Exclusive
  BY DEF Init, Exclusive
<1> QED BY <1>1, <1>2, <1>3 DEF IInv, TypeOK, GuestInCall, WorkerHolds, NotYet, SeenByPollable, Clients

\* Every step of the guest, of the workers and of the pollables keeps the invariant.
LEMMA SyncStep == IInv /\ [Next]_vars => IInv'
<1> SUFFICES ASSUME IInv, [Next]_vars PROVE IInv' OBVIOUS
<1>1. CASE UNCHANGED vars
  <2>1. TypeOK' /\ GuestInCall' /\ Exclusive'
    BY <1>1 DEF vars, IInv, TypeOK, GuestInCall, Exclusive
  <2>2. WorkerHolds' /\ NotYet' /\ SeenByPollable'
    BY <1>1, CallFixes DEF vars, IInv, WorkerHolds, NotYet, SeenByPollable
  <2> QED BY <2>1, <2>2 DEF IInv
<1>2. CASE Calls
  BY <1>2, EnterKeeps, SubscribeKeeps, DropPollableKeeps, EnterPollKeeps DEF Calls, OnResource
<1>3. CASE Returns
  BY <1>3, LeaveKeeps, PollReturnsKeeps DEF Returns
<1> QED BY <1>1, <1>2, <1>3, StepKeeps DEF Next

\* The invariant holds in every interleaving (resource.rs, pollable.rs).
LEMMA SyncInvariant == Spec => []IInv
  BY SyncInit, SyncStep, PTL DEF Spec

\* At first the locks are free and nobody is in a call.
LEMMA FairInit == Init => FairInv
<1> SUFFICES ASSUME Init PROVE FairInv OBVIOUS
<1>1. /\ \A r \in Resources : Placed(r) = {} /\ queue[r] = <<>>
      /\ \A c \in Clients : pc[c] = IF c \in Tasks THEN "start" ELSE "off"
      /\ call = None /\ Polls = {} /\ call.op # "ready"
  BY DEF Init, Placed, Elements, Polls, None
<1>2. LockInv
  BY <1>1 DEF LockInv, PermitsSound, QueueSound, HasPlace, NotIdle
<1>3. OnlyWaiters
  BY <1>1, SyncAssumption DEF OnlyWaiters, Clients
<1>4. InCall /\ OneAtATime
  BY <1>1 DEF InCall, OneAtATime, Clients
<1> QED BY <1>2, <1>3, <1>4 DEF FairInv

\* Every step keeps the locks fair.
LEMMA FairStep == IInv /\ FairInv /\ [Next]_vars => FairInv'
<1> SUFFICES ASSUME IInv, FairInv, [Next]_vars PROVE FairInv' OBVIOUS
<1>1. CASE UNCHANGED vars
  <2>1. Polls' = Polls
    BY <1>1 DEF vars, Polls, Elements
  <2>2. \A c \in Clients : Res(c)' = Res(c) /\ Permit(c)' = Permit(c) /\ Waits(c)' = Waits(c)
    BY <1>1, CallFixes DEF vars, Waits
  <2>3. LockInv'
    BY <1>1, <2>2, StayPut DEF vars, FairInv, InLock
  <2>4. OnlyWaiters' /\ InCall' /\ OneAtATime'
    BY <1>1, <2>1, <2>2 DEF vars, FairInv, OnlyWaiters, InCall, OneAtATime
  <2> QED BY <2>3, <2>4 DEF FairInv
<1>2. CASE Calls
  <2>1. ASSUME NEW r \in Resources, NEW op \in {"read", "write", "set", "wait"}, Enter(r, op)
        PROVE  FairInv'
    BY <2>1, EnterFair DEF OnResource
  <2>2. ASSUME NEW p \in Pollables, NEW op \in {"ready", "block"}, EnterPoll(op, <<p>>)
        PROVE  FairInv'
    <3>1. <<p>> \in Seq(Pollables) /\ Len(<<p>>) = 1
      OBVIOUS
    <3>2. op \in {"ready", "block", "poll"}
      OBVIOUS
    <3> QED BY <2>2, <3>1, <3>2, EnterPollFair
  <2>3. ASSUME NEW list \in PollLists, EnterPoll("poll", list) PROVE FairInv'
    BY <2>3, EnterPollFair, SyncAssumption
  <2> QED BY <1>2, <2>1, <2>2, <2>3, SubscribeFair, DropPollableFair DEF Calls
<1>3. CASE Returns
  BY <1>3, LeaveFair, PollReturnsFair DEF Returns
<1> QED BY <1>1, <1>2, <1>3, StepFair DEF Next

\* The locks' invariant holds in every reachable state.
LEMMA FairInvariant == Spec => [](IInv /\ FairInv)
<1>1. Init => IInv /\ FairInv
  BY SyncInit, FairInit
<1>2. IInv /\ FairInv /\ [Next]_vars => (IInv /\ FairInv)'
  BY SyncStep, FairStep
<1> QED BY <1>1, <1>2, PTL DEF Spec

\* A call of the guest that is due hangs for no other reason than the one named: the
\* safety half of CallsReturn, for any number of clients (io.rs:38-69).
THEOREM HangsNamedCorrect == Spec => []HangsNamed
  BY FairInvariant, HangsHaveNames, PTL

\* The shape of the state of the resources and their clients.
THEOREM SyncTypeCorrect == Spec => []TypeOK
<1>1. IInv => TypeOK BY DEF IInv
<1> QED BY <1>1, SyncInvariant, PTL

\* However many clients share a resource, none sleeps past its event (wait_impl).
THEOREM NoLostWakeupCorrect == Spec => []NoLostWakeup
<1>1. IInv => NoLostWakeup BY DEF IInv, NotYet, NoLostWakeup
<1> QED BY <1>1, SyncInvariant, PTL

\* A pollable is reported only when its event has happened (read_wait_until).
THEOREM ReadyMeansHappenedCorrect == Spec => []ReadyMeansHappened
<1>1. IInv => ReadyMeansHappened BY DEF IInv, SeenByPollable, ReadyMeansHappened
<1> QED BY <1>1, SyncInvariant, PTL

-----------------------------------------------------------------------------
(* The loop of the Python guest on these resources.                        *)

\* What the guest is inside, and for which coroutine.
CallOfLoop ==
    /\ call = None \/ call.op \in {"write", "poll"}
    /\ call.op = "write" =>
         loop = "handles" /\ \E k \in Pollables : co[k] = "getting" /\ call.res = Watches[k]
    /\ \A k \in Pollables : co[k] = "getting" => call.op = "write" /\ call.res = Watches[k]
    /\ loop = "poll" <=> call.op = "poll"
    /\ call.op = "poll" => call.list = wakers /\ wakers # <<>>

\* The wakers are those of the parked coroutines, whose pollables are there.
WakersInv ==
    /\ wakers \in Seq(Pollables)
    /\ \A i, j \in DOMAIN wakers : wakers[i] = wakers[j] => i = j
    /\ Elements(wakers) = {k \in Pollables : co[k] = "parked"}
    /\ \A k \in Pollables : co[k] = "parked" <=> pc[k] # "off"

LoopState ==
    /\ co \in [Pollables -> {"handle", "getting", "registering", "parked", "returned"}]
    /\ loop \in {"handles", "poll", "wake"}
    /\ loop # "handles" => \A k \in Pollables : co[k] \in {"parked", "returned"}
    /\ loop = "wake" => call = None /\ \E k \in Pollables : pc[k] = "done"

LoopInv == CallOfLoop /\ WakersInv /\ LoopState

AllInv == IInv /\ FairInv /\ LoopInv

\* A step of a future, in a call or in the background, is none of the loop.
LEMMA StepLoop ==
    ASSUME AllInv, NEW c \in Clients, Step(c), UNCHANGED <<co, wakers, loop>>
    PROVE  AllInv'
<1>1. IInv' /\ FairInv'
  BY StepKeeps, StepFair DEF AllInv
<1>2. Look(c) \in {"wait", "held"}
  BY DEF Look
<1>3. UNCHANGED call /\ \A p \in Pollables :
        (pc'[p] # "off" <=> pc[p] # "off") /\ (pc[p] = "done" => pc'[p] = "done")
  <2>1. Pollables \subseteq Clients /\ IInv
    BY DEF Clients, AllInv
  <2> QED BY <1>2, <2>1, StepShape
<1>4. CallOfLoop'
  BY <1>3 DEF AllInv, LoopInv, CallOfLoop
<1>5. WakersInv'
  BY <1>3 DEF AllInv, LoopInv, WakersInv, Elements
<1>6. LoopState'
  BY <1>3 DEF AllInv, LoopInv, LoopState
<1> QED BY <1>1, <1>4, <1>5, <1>6 DEF AllInv, LoopInv

\* `AskResponse` puts the guest in a call on the resource its own pollable watches.
LEMMA AskKeeps == ASSUME AllInv, NEW k \in Pollables, AskResponse(k) PROVE AllInv'
<1>1. /\ call = None /\ call' = [op |-> "write", res |-> Watches[k]] /\ co[k] = "handle"
      /\ co' = [co EXCEPT ![k] = "getting"] /\ loop = "handles" /\ UNCHANGED <<wakers, loop>>
      /\ pc' = [pc EXCEPT ![Guest] = "start"] /\ Enter(Watches[k], "write")
  BY DEF AskResponse, Enter
<1>2. IInv' /\ FairInv'
  <2>1. Watches[k] \in Resources /\ "write" \in OnResource
    BY SyncAssumption DEF OnResource
  <2> QED BY <1>1, <2>1, EnterKeeps, EnterFair DEF AllInv
<1>3. \A p \in Pollables : pc'[p] = pc[p]
  BY <1>1, SyncAssumption DEF AllInv, IInv, TypeOK, Clients
<1>4. co'[k] = "getting" /\ \A p \in Pollables \ {k} : co'[p] = co[p]
  BY <1>1 DEF AllInv, LoopInv, LoopState
<1>5. CallOfLoop'
  BY <1>1, <1>4 DEF AllInv, LoopInv, CallOfLoop, None
<1>6. WakersInv'
  BY <1>1, <1>3, <1>4 DEF AllInv, LoopInv, WakersInv, Elements
<1>7. LoopState'
  BY <1>1 DEF AllInv, LoopInv, LoopState
<1> QED BY <1>2, <1>5, <1>6, <1>7 DEF AllInv, LoopInv

\* The answer is for the coroutine that asked: no other has its resource.
LEMMA GetReturnsKeeps == ASSUME AllInv, NEW k \in Pollables, GetReturns(k) PROVE AllInv'
<1>1. /\ co[k] = "getting" /\ Leave /\ call' = None /\ pc' = [pc EXCEPT ![Guest] = "off"]
      /\ co' = [co EXCEPT ![k] = IF seen THEN "returned" ELSE "registering"]
      /\ UNCHANGED <<wakers, loop>>
  BY DEF GetReturns, Leave
<1>2. IInv' /\ FairInv'
  BY <1>1, LeaveKeeps, LeaveFair DEF AllInv
<1>3. \A p \in Pollables : pc'[p] = pc[p]
  BY <1>1, SyncAssumption DEF AllInv, IInv, TypeOK, Clients
<1>4. co'[k] \in {"returned", "registering"} /\ \A p \in Pollables \ {k} : co'[p] = co[p]
  BY <1>1 DEF AllInv, LoopInv, LoopState
<1>5. call.op = "write" /\ loop = "handles" /\ \A p \in Pollables \ {k} : co[p] # "getting"
  BY <1>1, LoopAssumption DEF AllInv, LoopInv, CallOfLoop
<1>6. CallOfLoop'
  BY <1>1, <1>4, <1>5 DEF AllInv, LoopInv, CallOfLoop, None
<1>7. WakersInv'
  BY <1>1, <1>3, <1>4 DEF AllInv, LoopInv, WakersInv, Elements
<1>8. LoopState'
  BY <1>1, <1>5 DEF AllInv, LoopInv, LoopState
<1> QED BY <1>2, <1>6, <1>7, <1>8 DEF AllInv, LoopInv

\* A coroutine that parks has one waker, at the end.
LEMMA RegisterKeeps == ASSUME AllInv, NEW k \in Pollables, Register(k) PROVE AllInv'
<1>1. /\ co[k] = "registering" /\ Subscribe(k) /\ call = None /\ UNCHANGED <<call, loop>>
      /\ pc' = [pc EXCEPT ![k] = "start"] /\ pc[k] = "off"
      /\ wakers' = Append(wakers, k) /\ co' = [co EXCEPT ![k] = "parked"]
  BY DEF Register, Subscribe
<1>2. IInv' /\ FairInv'
  BY <1>1, SubscribeKeeps, SubscribeFair DEF AllInv
<1>3. /\ pc'[k] = "start" /\ co'[k] = "parked"
      /\ \A p \in Pollables \ {k} : pc'[p] = pc[p] /\ co'[p] = co[p]
  BY <1>1 DEF AllInv, IInv, TypeOK, Clients, LoopInv, LoopState
<1>4. loop = "handles"
  BY <1>1 DEF AllInv, LoopInv, LoopState
<1>5. CallOfLoop'
  BY <1>1, <1>3, <1>4 DEF AllInv, LoopInv, CallOfLoop, None
<1>6. WakersInv'
  <2>1. /\ wakers \in Seq(Pollables) /\ k \notin Elements(wakers)
        /\ \A i, j \in DOMAIN wakers : wakers[i] = wakers[j] => i = j
    BY <1>1 DEF AllInv, LoopInv, WakersInv
  <2>2. /\ wakers' \in Seq(Pollables) /\ DOMAIN wakers' = 1 .. Len(wakers) + 1
        /\ DOMAIN wakers = 1 .. Len(wakers) /\ Len(wakers) \in Nat
        /\ \A i \in 1 .. Len(wakers) : wakers'[i] = wakers[i]
        /\ wakers'[Len(wakers) + 1] = k
    BY <1>1, <2>1
  <2>3. Elements(wakers)' = Elements(wakers) \cup {k}
    BY <2>2 DEF Elements
  <2>4. ASSUME NEW i \in DOMAIN wakers', NEW j \in DOMAIN wakers', wakers'[i] = wakers'[j]
        PROVE  i = j
    <3>1. CASE i \in DOMAIN wakers /\ j \in DOMAIN wakers
      BY <2>1, <2>2, <2>4, <3>1
    <3>2. CASE i = Len(wakers) + 1 \/ j = Len(wakers) + 1
      BY <2>1, <2>2, <2>4, <3>2 DEF Elements
    <3> QED BY <2>2, <3>1, <3>2
  <2> QED BY <1>1, <1>3, <2>2, <2>3, <2>4 DEF AllInv, LoopInv, WakersInv
<1>7. LoopState'
  BY <1>1, <1>4 DEF AllInv, LoopInv, LoopState
<1> QED BY <1>2, <1>5, <1>6, <1>7 DEF AllInv, LoopInv

\* The loop polls each parked coroutine's pollable once.
LEMMA PollWakersKeeps == ASSUME AllInv, PollWakers PROVE AllInv'
<1>1. /\ loop = "handles" /\ loop' = "poll" /\ wakers # <<>> /\ call = None
      /\ \A k \in Pollables : co[k] \in {"parked", "returned"}
      /\ EnterPoll("poll", wakers) /\ UNCHANGED <<co, wakers, pc>>
  BY DEF PollWakers, EnterPoll
<1>2. wakers \in Seq(Pollables) /\ ~Repeats(wakers)
  BY DEF AllInv, LoopInv, WakersInv, Repeats
<1>3. call' = [op |-> "poll", list |-> wakers]
  BY <1>1, <1>2 DEF EnterPoll
<1>4. IInv' /\ FairInv'
  <2>1. "poll" \in {"ready", "block", "poll"} /\ ("poll" = "ready" => Len(wakers) = 1)
    OBVIOUS
  <2> QED BY <1>1, <1>2, <2>1, EnterPollKeeps, EnterPollFair DEF AllInv
<1>5. CallOfLoop' /\ LoopState'
  BY <1>1, <1>3 DEF AllInv, LoopInv, CallOfLoop, LoopState
<1>6. WakersInv'
  BY <1>1 DEF AllInv, LoopInv, WakersInv, Elements
<1> QED BY <1>4, <1>5, <1>6 DEF AllInv, LoopInv

\* The poll that names a pollable leaves that pollable's waker in place.
LEMMA PollNamesKeeps == ASSUME AllInv, NEW k \in Pollables, PollReturns(k) PROVE AllInv'
<1>1. /\ loop = "poll" /\ loop' = "wake" /\ ReturnDone(k) /\ pc[k] = "done" /\ call' = None
      /\ UNCHANGED <<co, wakers, pc>>
  BY DEF PollReturns, ReturnDone
<1>2. IInv' /\ FairInv'
  BY <1>1, PollReturnsKeeps, PollReturnsFair DEF AllInv
<1>3. CallOfLoop' /\ LoopState'
  BY <1>1 DEF AllInv, LoopInv, CallOfLoop, LoopState, None
<1>4. WakersInv'
  BY <1>1 DEF AllInv, LoopInv, WakersInv, Elements
<1> QED BY <1>2, <1>3, <1>4 DEF AllInv, LoopInv

\* The coroutine that is woken loses its waker, and nobody else does.
LEMMA WakeKeeps == ASSUME AllInv, NEW k \in Pollables, Wake(k) PROVE AllInv'
<1>1. /\ loop = "wake" /\ loop' = "handles" /\ DropPollable(k) /\ UNCHANGED call /\ call = None
      /\ pc[k] = "done" /\ pc' = [pc EXCEPT ![k] = "off"] /\ co' = [co EXCEPT ![k] = "handle"]
  BY DEF Wake, DropPollable
<1>2. PICK n \in DOMAIN wakers : wakers[n] = k /\ wakers' = RemoveAt(wakers, n)
  BY DEF Wake
<1>3. IInv' /\ FairInv'
  BY <1>1, DropPollableKeeps, DropPollableFair DEF AllInv
<1>4. /\ pc'[k] = "off" /\ co'[k] = "handle"
      /\ \A p \in Pollables \ {k} : pc'[p] = pc[p] /\ co'[p] = co[p]
  BY <1>1 DEF AllInv, IInv, TypeOK, Clients, LoopInv, LoopState
<1>5. CallOfLoop'
  BY <1>1, <1>4 DEF AllInv, LoopInv, CallOfLoop, None
<1>6. WakersInv'
  <2>1. wakers \in Seq(Pollables) /\ \A i, j \in DOMAIN wakers : wakers[i] = wakers[j] => i = j
    BY DEF AllInv, LoopInv, WakersInv
  <2>2. wakers' = SubSeq(wakers, 1, n - 1) \o SubSeq(wakers, n + 1, Len(wakers))
    BY <1>2 DEF RemoveAt
  <2>3. /\ wakers' \in Seq(Pollables) /\ Elements(wakers)' = Elements(wakers) \ {k}
        /\ \A i, j \in DOMAIN wakers' : wakers'[i] = wakers'[j] => i = j
    <3>1. PICK seq : seq = wakers
      OBVIOUS
    <3>2. PICK left : left = wakers'
      OBVIOUS
    <3>3. /\ left \in Seq(Pollables) /\ Elements(left) = Elements(seq) \ {seq[n]}
          /\ \A i, j \in DOMAIN left : left[i] = left[j] => i = j
      <4>1. /\ seq \in Seq(Pollables) /\ n \in DOMAIN seq
            /\ \A i, j \in DOMAIN seq : seq[i] = seq[j] => i = j
        BY <2>1, <3>1
      <4> DEFINE cut == SubSeq(seq, 1, n - 1) \o SubSeq(seq, n + 1, Len(seq))
      <4>2. left = cut
        BY <2>2, <3>1, <3>2
      <4>3. /\ cut \in Seq(Pollables) /\ Elements(cut) = Elements(seq) \ {seq[n]}
            /\ \A i, j \in DOMAIN cut : cut[i] = cut[j] => i = j
        BY <4>1, CutOut, Zenon
      <4> HIDE DEF cut
      <4> QED BY <4>2, <4>3
    <3>4. Elements(wakers)' = Elements(left) /\ Elements(wakers) = Elements(seq)
      BY <3>1, <3>2 DEF Elements
    <3> QED BY <1>2, <3>1, <3>2, <3>3, <3>4
  <2> QED BY <1>4, <2>3 DEF AllInv, LoopInv, WakersInv
<1>7. LoopState'
  BY <1>1 DEF AllInv, LoopInv, LoopState
<1> QED BY <1>3, <1>5, <1>6, <1>7 DEF AllInv, LoopInv

\* At first every coroutine has a handle.
LEMMA LoopInitially == LoopInit => AllInv
<1> SUFFICES ASSUME LoopInit PROVE AllInv OBVIOUS
<1>1. IInv /\ FairInv
  BY SyncInit, FairInit DEF LoopInit
<1>2. /\ call = None /\ \A p \in Pollables : pc[p] = "off"
      /\ co = [k \in Pollables |-> "handle"] /\ wakers = <<>> /\ loop = "handles"
  BY SyncAssumption DEF LoopInit, Init, Clients
<1>3. CallOfLoop /\ LoopState
  BY <1>2 DEF CallOfLoop, LoopState, None
<1>4. WakersInv
  BY <1>2 DEF WakersInv, Elements
<1> QED BY <1>1, <1>3, <1>4 DEF AllInv, LoopInv

\* Every step of the loop is a step of the resources, or leaves them alone.
LEMMA LoopStep == AllInv /\ [LoopNext]_allVars => AllInv'
<1> SUFFICES ASSUME AllInv, [LoopNext]_allVars PROVE AllInv' OBVIOUS
<1>1. CASE UNCHANGED allVars
  <2>1. IInv' /\ FairInv'
    BY <1>1, SyncStep, FairStep DEF allVars, AllInv
  <2>2. CallOfLoop' /\ LoopState' /\ WakersInv'
    BY <1>1 DEF allVars, vars, loopVars, AllInv, LoopInv, CallOfLoop, LoopState, WakersInv, Elements
  <2> QED BY <2>1, <2>2 DEF AllInv, LoopInv
<1>2. CASE Loop
  BY <1>2, AskKeeps, GetReturnsKeeps, RegisterKeeps, PollWakersKeeps, PollNamesKeeps, WakeKeeps DEF Loop
<1>3. CASE GuestStep
  BY <1>3, StepLoop DEF GuestStep, GetResponse, Step, loopVars, Clients
<1>4. CASE \E c \in Tasks \cup Pollables : Background(c)
  BY <1>4, StepLoop DEF Background, loopVars, Clients
<1> QED BY <1>1, <1>2, <1>3, <1>4 DEF LoopNext

\* The loop's invariant, over the host's, holds in every reachable state.
LEMMA LoopInvariant == LoopSpec => []AllInv
  BY LoopInitially, LoopStep, PTL DEF LoopSpec

\* No coroutine is in the way of another (poll_loop.py:158-165): when one asks for its
\* response, no future of a pollable holds or awaits that lock, the loop polls no
\* pollable twice and never none, and each pollable that is there keeps its waker.
NobodyInTheWay ==
    /\ ~Hopeless
    /\ call.op = "write" =>
         \A h \in holders[call.res] \cup Elements(queue[call.res]) : h.who \notin Pollables
    /\ Elements(wakers) = {p \in Pollables : pc[p] # "off"}
    /\ Elements(wakers) = {p \in Pollables : co[p] = "parked"}

\* A coroutine that asks for its response finds no pollable in its way.
LEMMA WayIsClear == AllInv => NobodyInTheWay
<1> SUFFICES ASSUME AllInv PROVE NobodyInTheWay OBVIOUS
<1>1. ~Hopeless
  BY DEF AllInv, LoopInv, CallOfLoop, Hopeless, None
<1>2. ASSUME call.op = "write", NEW h \in Placed(call.res), h.who \in Pollables PROVE FALSE
  <2>1. PICK k \in Pollables : co[k] = "getting" /\ call.res = Watches[k]
    BY <1>2 DEF AllInv, LoopInv, CallOfLoop
  <2>2. Res(h.who) = call.res /\ pc[h.who] \in InLock
    BY <1>2, <2>1, SyncAssumption DEF AllInv, FairInv, LockInv, PermitsSound
  <2>3. Watches[h.who] = Watches[k]
    BY <1>2, <2>1, <2>2, SyncAssumption DEF Res
  <2>4. h.who = k
    BY <1>2, <2>3, LoopAssumption
  <2> QED BY <2>1, <2>2, <2>4 DEF AllInv, LoopInv, WakersInv, InLock
<1>3. Elements(wakers) = {p \in Pollables : co[p] = "parked"}
      /\ Elements(wakers) = {p \in Pollables : pc[p] # "off"}
  BY DEF AllInv, LoopInv, WakersInv
<1> QED BY <1>1, <1>2, <1>3 DEF NobodyInTheWay, Placed

\* Whoever the loop waits for can go on.
LEMMA LoopGoesOn == AllInv => NeverStuck
<1> SUFFICES ASSUME AllInv, NEW k \in Pollables, co[k] # "returned", ~LoopMoves,
                    \A c \in Concerned \cup {t \in Sets : Works[t] \in Awaited} : ~Moves(c)
             PROVE  FALSE
  BY DEF NeverStuck
<1> USE DEF AllInv
<1>1. co \in [Pollables -> {"handle", "getting", "registering", "parked", "returned"}]
      /\ CallOfLoop /\ WakersInv /\ LoopState
  BY DEF LoopInv, LoopState
<1>2. CASE call = None
  <2>1. \A p \in Pollables : co[p] # "getting" /\ co[p] # "registering"
    BY <1>1, <1>2 DEF CallOfLoop, None, LoopMoves
  <2>2. CASE loop = "wake"
    <3>1. PICK p \in Pollables : pc[p] = "done"
      BY <1>1, <2>2 DEF LoopState
    <3>2. p \in Elements(wakers)
      BY <1>1, <3>1 DEF WakersInv
    <3> QED BY <1>2, <2>2, <3>1, <3>2 DEF LoopMoves
  <2>3. CASE loop = "handles"
    <3>1. \A p \in Pollables : co[p] \in {"parked", "returned"}
      BY <1>1, <1>2, <2>1, <2>3 DEF LoopMoves
    <3>2. k \in Elements(wakers)
      BY <1>1, <3>1 DEF WakersInv
    <3>3. wakers # <<>>
      BY <3>2 DEF Elements
    <3> QED BY <1>2, <2>3, <3>1, <3>3 DEF LoopMoves
  <2>4. loop # "poll"
    BY <1>1, <1>2 DEF CallOfLoop, None
  <2> QED BY <1>1, <2>2, <2>3, <2>4 DEF LoopState
<1>3. CASE call.op = "write"
  <2>1. call # None /\ call.op \in OnResource
    BY <1>3 DEF None, OnResource
  <2>2. PICK p \in Concerned \cap Pollables :
          pc[p] = "queued" /\ p \notin Polls /\ Watches[p] = call.res
    BY <1>3, <2>1, GuestStands DEF LoopMoves
  <2>3. PICK j \in Pollables : co[j] = "getting" /\ call.res = Watches[j]
    BY <1>1, <1>3 DEF CallOfLoop
  <2>4. p = j
    BY <2>2, <2>3, LoopAssumption
  <2> QED BY <1>1, <2>2, <2>3, <2>4 DEF WakersInv
<1>4. CASE call.op = "poll"
  <2>1. loop = "poll" /\ Polls = Elements(wakers) /\ wakers # <<>> /\ call.op \notin OnResource
        /\ wakers \in Seq(Pollables)
    BY <1>1, <1>4 DEF CallOfLoop, WakersInv, Polls, OnResource
  <2>2. PICK p \in Polls : p = wakers[1]
    BY <2>1 DEF Elements
  <2>3. p \in Pollables /\ p \in Clients /\ Res(p) = Watches[p] /\ Watches[p] \in Awaited
    BY <1>4, SyncAssumption DEF FairInv, InCall, Clients, Res, Awaited, OnResource
  <2>4. \A q \in Pollables : q # p => Res(q) # Res(p)
    BY <2>3, SyncAssumption, LoopAssumption DEF Res
  <2>5. \A q \in Polls : pc[q] # "done"
    BY <2>1 DEF LoopMoves
  <2>6. pc[p] = "asleep" /\ \A q \in Polls : pc[q] \notin {"wait", "held", "done"}
    BY <2>1, <2>4, <2>5, PollStands
  <2>7. ~happened[Watches[p]]
    BY <2>3, <2>6 DEF IInv, NotYet
  <2>8. PICK t \in Sets : Works[t] = Watches[p]
    BY <2>3, LoopAssumption
  <2>9. t \in Tasks /\ t \in Clients /\ t \notin Pollables /\ Res(t) = Watches[p] /\ ~Moves(t) /\ ~Waits(t)
    BY <2>3, <2>8, SyncAssumption DEF Clients, Res, Waits
  <2>10. pc[t] \notin {"off", "wait", "asleep", "done", "drop"}
    BY <2>7, <2>8, <2>9 DEF FairInv, OnlyWaiters
  <2>11. pc[t] = "queued" /\ Permit(t) \notin holders[Res(t)]
    <3>1. pc[t] \in {"start", "queued", "held"}
      BY <2>9, <2>10 DEF IInv, TypeOK
    <3> QED BY <2>9, <3>1, OthersMove DEF InLock
  <2>12. \A q \in Concerned \cap Pollables : q \notin Polls => Res(q) # Res(t)
    BY <2>2, <2>3, <2>4, <2>9
  <2> QED BY <2>3, <2>6, <2>9, <2>11, <2>12, HolderMoves
<1> QED BY <1>1, <1>2, <1>3, <1>4 DEF CallOfLoop

\* The loop never stands still while a coroutine waits, however many there are
\* (poll_loop.py:138-168): the safety half of SendsReturn.
THEOREM NeverStuckCorrect == LoopSpec => []NeverStuck
  BY LoopInvariant, LoopGoesOn, PTL

\* No future that the loop stopped polling is in the way of a coroutine.
THEOREM NobodyInTheWayCorrect == LoopSpec => []NobodyInTheWay
  BY LoopInvariant, WayIsClear, PTL

\* What the resources promise holds in the loop: no wakeup is lost, and none is taken
\* for an answer.
THEOREM LoopWakes == LoopSpec => [](NoLostWakeup /\ ReadyMeansHappened)
<1>1. AllInv => NoLostWakeup /\ ReadyMeansHappened
  BY DEF AllInv, IInv, NotYet, SeenByPollable, NoLostWakeup, ReadyMeansHappened
<1> QED BY <1>1, LoopInvariant, PTL
===============================================================================
