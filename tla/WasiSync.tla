------------------------------- MODULE WasiSync -------------------------------
(***************************************************************************)
(* Resources and pollables of the Wasm backend (resource.rs, pollable.rs,  *)
(* io.rs): a value behind a fair asynchronous read-write lock, with a      *)
(* notification that every write guard sends when it is dropped.  The      *)
(* guest thread makes one host call at a time and blocks in it; handler    *)
(* and monitor tasks work on the same resources.  A pollable is a future   *)
(* that waits for its resource and moves only while a call polls it.       *)
(*                                                                         *)
(* What a resource tells apart here is whether the event its waiters look  *)
(* for has happened: a response was set, a body was finished, a stream was *)
(* closed.  These never go back.  Definitions marked "Defect" are          *)
(* plausible bugs and not part of the specification.                       *)
(***************************************************************************)
EXTENDS Naturals, Sequences, FiniteSets

CONSTANTS
    Guest,      \* the guest thread
    Resources,
    Tasks,      \* spawned tasks
    Pollables,  \* the pollables the guest may create
    Works,      \* Works[t]: the resource of a task
    Sets,       \* the tasks that make the event happen; the others wait for it
    Watches,    \* Watches[p]: the resource of a pollable
    PollLists   \* the lists of pollables the guest polls

ASSUME SyncAssumption ==
    /\ Works \in [Tasks -> Resources] /\ Sets \subseteq Tasks
    /\ Watches \in [Pollables -> Resources]
    /\ PollLists \subseteq Seq(Pollables)
    /\ Guest \notin Tasks /\ Guest \notin Pollables /\ Tasks \cap Pollables = {}

VARIABLES
    happened,   \* whether the condition of the waiters of a resource holds
    queue,      \* waiters of the RwLock, in order
    holders,    \* who has a permit of the RwLock, whether it knows or not
    pc,         \* where the future of each client stands
    call        \* the host call the guest thread is inside

vars == <<happened, queue, holders, pc, call>>

Clients == {Guest} \cup Tasks \cup Pollables
None == [op |-> "none"]
Elements(s) == {s[i] : i \in DOMAIN s}

\* The pollables the guest's call polls, one after the other: each moves as far
\* as it can before the next one does, and none once one of them is done.
Polls == IF call.op \in {"ready", "block", "poll"} THEN Elements(call.list) ELSE {}
Polled(c) ==
    c \in Pollables =>
        /\ c \in Polls
        /\ \A p \in Polls : pc[p] # "done" /\ (p # c => pc[p] \notin {"wait", "held"})

Res(c) == IF c \in Tasks THEN Works[c] ELSE IF c \in Pollables THEN Watches[c] ELSE call.res
Mode(c) == IF c \in Pollables \/ (c = Guest /\ call.op = "read") THEN "read" ELSE "write"
Waits(c) == IF c = Guest THEN call.op = "wait" ELSE c \notin Sets
Makes(c) == IF c = Guest THEN call.op = "set" ELSE c \in Sets
Permit(c) == [who |-> c, mode |-> Mode(c)]
Permits == [who : Clients, mode : {"read", "write"}]

-----------------------------------------------------------------------------
(* The RwLock: permits go to the waiters in the order they asked.          *)

\* The positions of the queue that can have a permit now: the readers at its head,
\* or the writer there.
Granted(permits, waiting) ==
    LET readers == {i \in DOMAIN waiting : \A j \in 1..i : waiting[j].mode = "read"}
    IN  IF waiting # <<>> /\ Head(waiting).mode = "write"
        THEN IF permits = {} THEN {1} ELSE {}
        ELSE IF \E h \in permits : h.mode = "write" THEN {} ELSE readers

\* A permit is the waiter's from here on, even if nobody polls its future.
Serve(r, permits, waiting) ==
    LET granted == Granted(permits, waiting) IN
    /\ holders' = [holders EXCEPT ![r] = permits \cup {waiting[i] : i \in granted}]
    /\ queue' = [queue EXCEPT ![r] = SubSeq(waiting, Cardinality(granted) + 1, Len(waiting))]

Release(c) == Serve(Res(c), holders[Res(c)] \ {Permit(c)}, queue[Res(c)])

\* Defect: a waiter takes the notification for the event.
NotifiedIsReady(r) ==
    [c \in Clients |-> IF pc[c] = "asleep" /\ Res(c) = r THEN "done" ELSE pc[c]]

\* Notify::notify_waiters reaches the waiters registered at this moment.
Notified(r) ==
    [c \in Clients |-> IF pc[c] = "asleep" /\ Res(c) = r THEN "start" ELSE pc[c]]

-----------------------------------------------------------------------------
(* One future: read, write, read_wait_until or write_wait_until.           *)

\* With the lock: a future that waits looks whether its event has happened.
Look(c) == IF Waits(c) /\ ~happened[Res(c)] THEN "wait" ELSE "held"

\* Resource::read or write has its permit at once or joins the queue.
Lock(c) ==
    /\ pc[c] = "start" /\ Polled(c)
    /\ Serve(Res(c), holders[Res(c)], Append(queue[Res(c)], Permit(c)))
    /\ pc' = [pc EXCEPT ![c] = IF Permit(c) \in holders'[Res(c)] THEN Look(c) ELSE "queued"]
    /\ UNCHANGED <<happened, call>>

\* The future is polled and finds its permit.
Locked(c) ==
    /\ pc[c] = "queued" /\ Polled(c)
    /\ Permit(c) \in holders[Res(c)]
    /\ pc' = [pc EXCEPT ![c] = Look(c)]
    /\ UNCHANGED <<happened, queue, holders, call>>

\* Defect: the waiter gives the lock up before it registers.
SleepUnlocksFirst(c) ==
    /\ Polled(c)
    /\ \/ pc[c] = "wait" /\ Release(c) /\ pc' = [pc EXCEPT ![c] = "unregistered"]
       \/ /\ pc[c] = "unregistered"
          /\ pc' = [pc EXCEPT ![c] = "asleep"]
          /\ UNCHANGED <<queue, holders>>
    /\ UNCHANGED <<happened, call>>

\* wait_impl: registered for the notification, then unlocked without sending one.
Sleep(c) ==
    /\ Polled(c)
    /\ pc[c] = "wait"
    /\ Release(c)
    /\ pc' = [pc EXCEPT ![c] = "asleep"]
    /\ UNCHANGED <<happened, call>>

\* A read guard is dropped: nobody is told.
Read(c) ==
    /\ pc[c] = "held" /\ Polled(c) /\ Mode(c) = "read"
    /\ Release(c)
    /\ pc' = [pc EXCEPT ![c] = "done"]
    /\ UNCHANGED <<happened, call>>

\* Defect: the dropped guard notifies nobody.
WriteSilently(c) ==
    /\ pc[c] = "held" /\ Polled(c) /\ Mode(c) = "write"
    /\ happened' = [happened EXCEPT ![Res(c)] = @ \/ Makes(c)]
    /\ pc' = [pc EXCEPT ![c] = "drop"]
    /\ UNCHANGED <<queue, holders, call>>

\* A write guard is used, and its drop notifies before the lock is free.
Write(c) ==
    /\ pc[c] = "held" /\ Polled(c) /\ Mode(c) = "write"
    /\ happened' = [happened EXCEPT ![Res(c)] = @ \/ Makes(c)]
    /\ pc' = [Notified(Res(c)) EXCEPT ![c] = "drop"]
    /\ UNCHANGED <<queue, holders, call>>

Unlock(c) ==
    /\ pc[c] = "drop"
    /\ Release(c)
    /\ pc' = [pc EXCEPT ![c] = "done"]
    /\ UNCHANGED <<happened, call>>

Step(c) ==
    Lock(c) \/ Locked(c) \/ Sleep(c) \/ Read(c) \/ Write(c) \/ Unlock(c)

-----------------------------------------------------------------------------
(* The host calls of the guest thread.                                     *)

\* read, write, or a blocking stream call, on a resource.
Enter(r, op) ==
    /\ call = None
    /\ call' = [op |-> op, res |-> r]
    /\ pc' = [pc EXCEPT ![Guest] = "start"]
    /\ UNCHANGED <<happened, queue, holders>>

Leave ==
    /\ call.op \in {"read", "write", "set", "wait"} /\ pc[Guest] = "done"
    /\ call' = None
    /\ pc' = [pc EXCEPT ![Guest] = "off"]
    /\ UNCHANGED <<happened, queue, holders>>

\* Resource::poll creates the pollable; its future has not run yet.
Subscribe(p) ==
    /\ call = None /\ pc[p] = "off"
    /\ pc' = [pc EXCEPT ![p] = "start"]
    /\ UNCHANGED <<happened, queue, holders, call>>

\* The queue without the one place a client has in it, if any.
Without(waiting, c) ==
    IF \E i \in DOMAIN waiting : waiting[i].who = c
    THEN LET i == CHOOSE i \in DOMAIN waiting : waiting[i].who = c
         IN  SubSeq(waiting, 1, i - 1) \o SubSeq(waiting, i + 1, Len(waiting))
    ELSE waiting

\* The guest drops the pollable: its future leaves the queue or gives its permit up.
DropPollable(p) ==
    /\ call = None /\ pc[p] # "off"
    /\ pc' = [pc EXCEPT ![p] = "off"]
    /\ LET r == Watches[p]
       IN  Serve(r, {h \in holders[r] : h.who # p}, Without(queue[r], p))
    /\ UNCHANGED <<happened, call>>

\* poll takes the lock of every pollable of the list, so one listed twice is
\* waited for by the call that holds it.
Repeats(list) == \E i, j \in DOMAIN list : i # j /\ list[i] = list[j]

EnterPoll(op, list) ==
    /\ call = None
    /\ \A p \in Elements(list) : pc[p] # "off"
    /\ call' = IF Repeats(list) THEN [op |-> "selfLocked"] ELSE [op |-> op, list |-> list]
    /\ UNCHANGED <<happened, queue, holders, pc>>

\* block and poll come back with a pollable that is done; poll names only that one.
ReturnDone(p) ==
    /\ p \in Polls /\ pc[p] = "done"
    /\ call' = None
    /\ UNCHANGED <<happened, queue, holders, pc>>

\* ready polls the future once and leaves it where it stands.
ReturnNotReady(p) ==
    /\ call.op = "ready" /\ p \in Polls
    /\ \/ pc[p] = "asleep"
       \/ pc[p] = "queued" /\ Permit(p) \notin holders[Watches[p]]
    /\ call' = None
    /\ UNCHANGED <<happened, queue, holders, pc>>

-----------------------------------------------------------------------------
Init ==
    /\ happened = [r \in Resources |-> FALSE]
    /\ queue = [r \in Resources |-> <<>>]
    /\ holders = [r \in Resources |-> {}]
    /\ pc = [c \in Clients |-> IF c \in Tasks THEN "start" ELSE "off"]
    /\ call = None

Calls ==
    \/ \E r \in Resources, op \in {"read", "write", "set", "wait"} : Enter(r, op)
    \/ \E p \in Pollables :
          Subscribe(p) \/ DropPollable(p) \/ \E op \in {"ready", "block"} : EnterPoll(op, <<p>>)
    \/ \E list \in PollLists : EnterPoll("poll", list)

Returns == Leave \/ \E p \in Pollables : ReturnDone(p) \/ ReturnNotReady(p)

Next == Calls \/ Returns \/ \E c \in Clients : Step(c)

\* The runtime runs every task that can move, and the guest thread the call it
\* is inside; the guest need not call anything.
Spec ==
    /\ Init /\ [][Next]_vars
    /\ WF_vars(Returns)
    /\ \A c \in Clients : WF_vars(Step(c))
=============================================================================
