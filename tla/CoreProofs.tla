------------------------------ MODULE CoreProofs ------------------------------
(***************************************************************************)
(* A run answers with its own output, CodeExecutionTool starts every run   *)
(* of user code from a state that no earlier one touched, the traversals   *)
(* of the output directory agree on what they can traverse, and a tool     *)
(* runs just for the arguments its declaration admits.                     *)
(***************************************************************************)
EXTENDS AgentProps, TreeProps, ToolValues, FiniteSetTheorems, SequenceTheorems, TLAPS

-----------------------------------------------------------------------------
(* Captured output.                                                        *)

\* The host's buffer is bounded, and during a run it has what that run printed.
StdoutInv ==
    /\ stdout \in Seq(Nat) /\ Len(stdout) <= MaxStdout /\ runs \in Nat
    /\ phase \in {"ready", "guest"} => Authors(stdout) \subseteq {runs}
    /\ StdoutOfRun

\* Cutting what is printed adds nothing but the run's own bytes.
LEMMA AuthorsOfPrint ==
    ASSUME NEW s \in Seq(Nat), NEW n \in Nat, NEW r \in Nat
    PROVE  /\ s \o Copies(n, r) \in Seq(Nat)
           /\ Len(s \o Copies(n, r)) = Len(s) + n
           /\ Authors(s \o Copies(n, r)) \subseteq Authors(s) \cup {r}
<1>1. Copies(n, r) \in Seq(Nat) /\ Len(Copies(n, r)) = n /\ \A i \in 1 .. n : Copies(n, r)[i] = r
  BY DEF Copies
<1>2. /\ s \o Copies(n, r) \in Seq(Nat) /\ Len(s \o Copies(n, r)) = Len(s) + n
      /\ \A i \in DOMAIN (s \o Copies(n, r)) :
           \/ i \in DOMAIN s /\ (s \o Copies(n, r))[i] = s[i]
           \/ (s \o Copies(n, r))[i] = r
  <2> DEFINE c == Copies(n, r)
  <2> HIDE DEF c
  <2> QED BY <1>1 DEF c
<1> QED BY <1>2 DEF Authors

\* An empty buffer has no author.
LEMMA AuthorsEmpty == Authors(<<>>) = {}
  BY DEF Authors

\* A call that leaves the buffer and answers without output.
LEMMA RepliesNothing ==
    ASSUME StdoutInv, UNCHANGED <<runs, stdout>>, reply'.stdout = {},
           phase' \in {"unbuilt", "idle", phase}
    PROVE  StdoutInv'
  BY DEF StdoutInv, StdoutOfRun

\* The start of a run clears the buffer (clear_stdout), before anything can fail.
LEMMA StartRunKeepsStdoutInv == ASSUME StdoutInv, StartRun PROVE StdoutInv'
<1>1. runs' = runs + 1 /\ runs \in Nat
  BY DEF StartRun, Started, StdoutInv
<1>2. CASE Ends("run", "error") /\ UNCHANGED stdout
  BY <1>1, <1>2 DEF Ends, Replied, StdoutInv, StdoutOfRun
<1>3. CASE stdout' = <<>> /\ (phase' = "ready" \/ Ends("run", "error"))
  <2>1. stdout' \in Seq(Nat) /\ Len(stdout') <= MaxStdout /\ Authors(stdout') = {}
    BY <1>3, AuthorsEmpty, RunAssumption
  <2> QED BY <1>1, <1>3, <2>1 DEF Ends, Replied, StdoutInv, StdoutOfRun
<1> QED BY <1>2, <1>3 DEF StartRun, Started

\* The __print host function: what fits is appended, the rest is cut off.
LEMMA PrintFnKeeps ==
    ASSUME StdoutInv, NEW n \in 1 .. 2, NEW wide \in BOOLEAN, PrintFn(n, wide)
    PROVE  StdoutInv'
<1>1. /\ phase = "guest" /\ UNCHANGED <<phase, runs, reply>>
      /\ stdout' = stdout \o Copies(Least(n, MaxStdout - Len(stdout)), runs)
  BY DEF PrintFn, InGuest, HostCall
<1>2. /\ Least(n, MaxStdout - Len(stdout)) \in Nat
      /\ Len(stdout) + Least(n, MaxStdout - Len(stdout)) <= MaxStdout
  BY RunAssumption DEF StdoutInv, Least
<1>3. /\ stdout' \in Seq(Nat) /\ Len(stdout') <= MaxStdout
      /\ Authors(stdout') \subseteq Authors(stdout) \cup {runs}
  <2> DEFINE m == Least(n, MaxStdout - Len(stdout))
  <2>1. m \in Nat /\ Len(stdout) + m <= MaxStdout
    BY <1>2
  <2>2. stdout' = stdout \o Copies(m, runs)
    BY <1>1
  <2> HIDE DEF m
  <2> QED BY <2>1, <2>2, AuthorsOfPrint DEF StdoutInv
<1> QED BY <1>1, <1>3 DEF StdoutInv, StdoutOfRun

\* An answer takes the buffer or has nothing.
LEMMA AnswersKeep == ASSUME StdoutInv, GuestReturns \/ GuestFails PROVE StdoutInv'
<1>1. phase = "guest" /\ phase' = "idle" /\ UNCHANGED runs
  BY DEF GuestReturns, GuestFails, InGuest
<1>2. reply'.stdout \subseteq {runs}
  <2>1. \A out, kind : [Replied("run", kind) EXCEPT !.stdout = out].stdout = out
    BY DEF Replied
  <2>2. \A kind : Replied("run", kind).stdout = {}
    BY DEF Replied
  <2>3. Authors(stdout) \subseteq {runs}
    BY <1>1 DEF StdoutInv
  <2>4. CASE GuestReturns
    <3>1. CASE reply' = [Replied("run", "ok") EXCEPT !.stdout = IF printed THEN {runs} ELSE {}]
      <4> DEFINE out == IF printed THEN {runs} ELSE {}
      <4>1. reply' = [Replied("run", "ok") EXCEPT !.stdout = out]
        BY <3>1
      <4>2. out \subseteq {runs}
        OBVIOUS
      <4> HIDE DEF out
      <4> QED BY <2>1, <4>1, <4>2
    <3>2. CASE reply' = [Replied("run", "ok") EXCEPT !.stdout = Authors(stdout)]
      BY <2>1, <2>3, <3>2
    <3>3. CASE reply' = Replied("run", "error")
      BY <2>2, <3>3
    <3> QED BY <2>4, <3>1, <3>2, <3>3 DEF GuestReturns
  <2>5. CASE GuestFails
    <3>1. CASE \E kind : reply' = Replied("run", kind)
      BY <2>2, <3>1
    <3>2. CASE reply' = [Replied("run", "exit -1") EXCEPT !.stdout = IF Takes THEN Authors(stdout) ELSE {}]
      <4> DEFINE out == IF Takes THEN Authors(stdout) ELSE {}
      <4>1. reply' = [Replied("run", "exit -1") EXCEPT !.stdout = out]
        BY <3>2
      <4>2. out \subseteq {runs}
        BY <2>3
      <4> HIDE DEF out
      <4>3. [Replied("run", "exit -1") EXCEPT !.stdout = out].stdout = out
        BY <2>1
      <4>4. reply'.stdout = out
        BY <4>1, <4>3
      <4> QED BY <4>2, <4>4
    <3> QED BY <2>5, <3>1, <3>2 DEF GuestFails
  <2> QED BY <2>4, <2>5
<1>3. stdout' = <<>> \/ stdout' = stdout
  BY DEF GuestReturns, GuestFails
<1>4. stdout' \in Seq(Nat) /\ Len(stdout') <= MaxStdout
  <2>1. stdout \in Seq(Nat) /\ Len(stdout) <= MaxStdout
    BY DEF StdoutInv
  <2>2. <<>> \in Seq(Nat) /\ Len(<<>>) = 0
    OBVIOUS
  <2>3. CASE stdout' = stdout
    BY <2>1, <2>3
  <2>4. CASE stdout' = <<>>
    BY <2>2, <2>4, RunAssumption
  <2> QED BY <1>3, <2>3, <2>4
<1> QED BY <1>1, <1>2, <1>4 DEF StdoutInv, StdoutOfRun

\* No step of a run puts bytes of another run into the buffer or into the answer.
LEMMA RunStepKeeps == ASSUME StdoutInv, RunStep PROVE StdoutInv'
<1>1. CASE EnterGuest
  <2>1. CASE Ends("run", "poisoned")
    BY <1>1, <2>1, RepliesNothing DEF EnterGuest, Ends, Replied, hostVars
  <2>2. CASE phase' = "guest" /\ UNCHANGED reply
    BY <1>1, <2>2 DEF EnterGuest, StdoutInv, StdoutOfRun, hostVars
  <2> QED BY <1>1, <2>1, <2>2 DEF EnterGuest
<1>2. CASE GuestPrint \/ WriteFile \/ \E d \in Targets : Fetch(d)
  BY <1>2
  DEF GuestPrint, WriteFile, Fetch, HostCall, InGuest, hostVars, StdoutInv, StdoutOfRun
<1>3. ASSUME NEW n \in 1 .. 2, NEW wide \in BOOLEAN, PrintCut(n, wide) PROVE StdoutInv'
  BY <1>3 DEF PrintCut, Ends, Replied, InGuest, StdoutInv, StdoutOfRun
<1>4. CASE Interrupted
  BY <1>4, RepliesNothing DEF Interrupted, Ends, Replied, hostVars
<1> QED BY <1>1, <1>2, <1>3, <1>4, PrintFnKeeps, AnswersKeep DEF RunStep, HostFunction

\* Every call of the sandbox keeps the invariant of the buffer.
LEMMA StdoutStep == StdoutInv /\ [Next]_vars => StdoutInv'
<1> SUFFICES ASSUME StdoutInv, [Next]_vars PROVE StdoutInv' OBVIOUS
<1>1. ASSUME NEW outputDir \in BOOLEAN, NEW tempOutput \in BOOLEAN, Build(outputDir, tempOutput)
      PROVE  StdoutInv'
  BY <1>1, RepliesNothing DEF Build, Replied, hostVars
<1>2. ASSUME NEW d \in Targets, AllowDomain(d) PROVE StdoutInv'
  BY <1>2, RepliesNothing DEF AllowDomain, Replied, hostVars
<1>3. ASSUME NEW s \in Snapshots, Snapshot(s) PROVE StdoutInv'
  BY <1>3, RepliesNothing DEF Snapshot, Replied, hostVars
<1>4. ASSUME NEW s \in Snapshots, Restore(s) PROVE StdoutInv'
  BY <1>4, RepliesNothing DEF Restore, RestoreRefused, Replied
<1>5. CASE UNCHANGED vars
  BY <1>5 DEF vars, hostVars, StdoutInv, StdoutOfRun
<1> QED BY <1>1, <1>2, <1>3, <1>4, <1>5, StartRunKeepsStdoutInv, RunStepKeeps DEF Next

\* The output in an answer is that of its run, for every length of the buffer, any
\* number of runs and snapshots, and any interruption (js run_impl, take_stdout).
THEOREM StdoutOfRunCorrect == Spec => []StdoutOfRun
<1>1. Init => StdoutInv
  BY RunAssumption, AuthorsEmpty DEF Init, StdoutInv, StdoutOfRun, Replied
<1>2. StdoutInv => StdoutOfRun
  BY DEF StdoutInv
<1> QED BY <1>1, <1>2, StdoutStep, PTL DEF Spec

-----------------------------------------------------------------------------
(* A clean start.                                                          *)

Traces == memory \cup output \cup userRuns

\* Runs leave traces under their own numbers.
RunsNumbered ==
    /\ runs \in 0 .. MaxRuns
    /\ Traces \subseteq 1 .. runs
    /\ step \in {"initRuns", "userRuns"} => runs # 0

\* The first run and its snapshot come before all user code.
FirstRunFirst ==
    /\ step \in {"init", "initRuns", "snapshot"} => ~initialized
    /\ step \in {"restore", "run", "userRuns"} => initialized
    /\ step # "idle" => ~disposed
    /\ ~initialized => userRuns = {}

\* The snapshot knows no user code, whatever is run after it.
SnapshotClean ==
    /\ taken \in [Snapshots -> SUBSET Nat]
    /\ initialized /\ ~disposed =>
         taken[WarmSnapshot] \subseteq 1 .. runs /\ taken[WarmSnapshot] \cap userRuns = {}

\* A restore that succeeded has removed what earlier user code left.
CleanBefore ==
    step = "run" => memory \cap userRuns = {} /\ output \cap userRuns = {}

AgentInv == RunsNumbered /\ FirstRunFirst /\ SnapshotClean /\ CleanBefore /\ CleanStart

\* What the start of a run leaves alone.
LEMMA StartRunFrame ==
    ASSUME StartRun
    PROVE  runs' = runs + 1 /\ runs < MaxRuns /\ UNCHANGED <<memory, output, taken>>
  BY DEF StartRun, Started, guestVars

\* What a run leaves: traces under its own number.
LEMMA GuestFrame ==
    ASSUME EnterGuest \/ HostFunction \/ GuestReturns \/ GuestFails
    PROVE  /\ UNCHANGED <<runs, taken>>
           /\ memory' \subseteq memory \cup {runs} /\ output' \subseteq output \cup {runs}
<1>1. CASE EnterGuest
  BY <1>1 DEF EnterGuest, hostVars
<1>2. CASE HostFunction
  BY <1>2 DEF HostFunction, GuestPrint, PrintFn, PrintCut, WriteFile, Fetch, HostCall, hostVars
<1>3. CASE GuestReturns \/ GuestFails
  BY <1>3 DEF GuestReturns, GuestFails, guestVars
<1> QED BY <1>1, <1>2, <1>3

\* What neither runs anything nor touches the snapshot.
LEMMA Beside ==
    ASSUME AgentInv, UNCHANGED <<runs, memory, output, taken, step, agentVars>>
    PROVE  AgentInv'
  BY DEF AgentInv, RunsNumbered, FirstRunFirst, SnapshotClean, CleanBefore, CleanStart, Traces,
         agentVars

\* Every step of CodeExecutionTool keeps the invariant of the clean start.
LEMMA AgentStep == AgentInv /\ [AgentNext]_allVars => AgentInv'
<1> SUFFICES ASSUME AgentInv, [AgentNext]_allVars PROVE AgentInv' OBVIOUS
<1> USE RunAssumption, AgentAssumption
    DEF AgentInv, RunsNumbered, FirstRunFirst, SnapshotClean, CleanBefore, CleanStart, Traces,
        agentVars
<1>1. CASE AgentBuild \/ Configure \/ UNCHANGED allVars
  BY <1>1, Beside
  DEF AgentBuild, Configure, allVars, vars, Build, AllowDomain, guestVars, hostVars
<1>2. CASE Execute
  BY <1>2 DEF Execute, vars, guestVars, hostVars
<1>3. CASE InitRun
  <2>1. /\ step = "init" /\ step' \in {"idle", "initRuns"}
        /\ UNCHANGED agentVars
        /\ runs' = runs + 1 /\ runs < MaxRuns /\ UNCHANGED <<memory, output, taken>>
    BY <1>3, StartRunFrame DEF InitRun, Throw
  <2> QED BY <2>1
<1>4. CASE InitRuns
  <2>1. /\ step = "initRuns" /\ step' \in {"idle", "initRuns", "snapshot"}
        /\ UNCHANGED agentVars
        /\ UNCHANGED <<runs, taken>>
        /\ memory' \subseteq memory \cup {runs} /\ output' \subseteq output \cup {runs}
    BY <1>4, GuestFrame DEF InitRuns, Throw
  <2> QED BY <2>1
<1>5. CASE TakeSnapshot
  <2>1. step = "snapshot" /\ UNCHANGED <<runs, memory, output, disposed, userRuns>>
    BY <1>5 DEF TakeSnapshot, Snapshot, Throw, guestVars, hostVars
  <2>2. \/ UNCHANGED <<taken, initialized>> /\ step' = "idle"
        \/ /\ taken' = [taken EXCEPT ![WarmSnapshot] = memory]
           /\ step' = "restore" /\ initialized' = TRUE
    BY <1>5 DEF TakeSnapshot, Snapshot, Throw, Replied
  <2> QED BY <2>1, <2>2
<1>6. CASE RestoreClean
  <2>1. step = "restore" /\ taken[WarmSnapshot] # NoSnapshot
    BY <1>6 DEF RestoreClean, NoSnapshot
  <2>2. UNCHANGED <<runs, taken, agentVars>> /\ Restore(WarmSnapshot)
    BY <1>6, <2>1 DEF RestoreClean, Restore, Throw
  <2>3. \/ step' = "idle" /\ memory' \in {memory, taken[WarmSnapshot]} /\ output' \subseteq output
        \/ step' = "run" /\ memory' = taken[WarmSnapshot] /\ output' = {}
    <3>1. IF reply'.kind = "ok" THEN step' = "run" ELSE step' = "idle"
      BY <1>6, <2>1 DEF RestoreClean, Throw
    <3>2. CASE RestoreRefused
      BY <3>1, <3>2 DEF RestoreRefused, Replied, guestVars
    <3>3. CASE memory' = taken[WarmSnapshot] /\ output' = {} /\ reply' = Replied("restore", "ok")
      BY <3>1, <3>3 DEF Replied
    <3>4. CASE /\ memory' = taken[WarmSnapshot] /\ output' \in SUBSET output
               /\ reply' = Replied("restore", "error")
      BY <3>1, <3>4 DEF Replied
    <3> QED BY <2>2, <3>2, <3>3, <3>4 DEF Restore
  <2> QED BY <2>1, <2>2, <2>3
<1>7. CASE UserRun
  <2>1. /\ step = "run"
        /\ runs' = runs + 1 /\ runs < MaxRuns /\ UNCHANGED <<memory, output, taken>>
        /\ UNCHANGED <<initialized, disposed>>
    BY <1>7, StartRunFrame DEF UserRun, Throw
  <2>2. \/ step' = "idle" /\ UNCHANGED userRuns
        \/ step' = "userRuns" /\ userRuns' = userRuns \cup {runs'}
    BY <1>7 DEF UserRun, Throw
  <2> QED BY <2>1, <2>2
<1>8. CASE UserRuns
  <2>1. /\ step = "userRuns" /\ step' \in {"idle", "userRuns"}
        /\ UNCHANGED agentVars
        /\ UNCHANGED <<runs, taken>>
        /\ memory' \subseteq memory \cup {runs} /\ output' \subseteq output \cup {runs}
    BY <1>8, GuestFrame DEF UserRuns, Throw
  <2> QED BY <2>1
<1>9. CASE Dispose
  BY <1>9 DEF Dispose, guestVars, hostVars, NoSnapshot
<1> QED BY <1>1, <1>2, <1>3, <1>4, <1>5, <1>6, <1>7, <1>8, <1>9 DEF AgentNext

\* However many executions fail and at whatever step, user code never finds what
\* earlier user code left (CodeExecutionTool.Execute).
THEOREM CleanStartCorrect == AgentSpec => []CleanStart
<1>1. AgentInit => AgentInv
  BY RunAssumption, AgentAssumption
  DEF AgentInit, Init, NoSnapshot, AgentInv, RunsNumbered, FirstRunFirst, SnapshotClean,
      CleanBefore, CleanStart, Traces
<1>2. AgentInv => CleanStart
  BY DEF AgentInv
<1> QED BY <1>1, <1>2, AgentStep, PTL DEF AgentSpec

-----------------------------------------------------------------------------
(* Paths and prefixes.                                                     *)

\* q is p or below it.
Under(p, q) == Len(p) <= Len(q) /\ \A i \in 1 .. Len(p) : q[i] = p[i]

\* The prefixes of a path, its parent among them.
LEMMA Prefixes ==
    ASSUME NEW S, NEW q \in Seq(S), NEW k \in 0 .. Len(q)
    PROVE  /\ SubSeq(q, 1, k) \in Seq(S) /\ Len(SubSeq(q, 1, k)) = k
           /\ Under(SubSeq(q, 1, k), q)
<1>1. k \in Nat /\ Len(q) \in Nat /\ \A i \in 1 .. k : q[i] \in S
  OBVIOUS
<1>2. /\ SubSeq(q, 1, k) \in Seq(S) /\ Len(SubSeq(q, 1, k)) = k
      /\ \A i \in 1 .. k : SubSeq(q, 1, k)[i] = q[i]
  BY <1>1, SubSeqProperties
<1> HIDE DEF Under
<1> QED BY <1>1, <1>2 DEF Under

\* The parent is the prefix that is one shorter.
LEMMA ParentUnder ==
    ASSUME NEW S, NEW p \in Seq(S), NEW d \in Seq(S), Len(p) = Len(d) + 1
    PROVE  Parent(p) = d <=> Under(d, p)
<1>1. Len(d) \in 0 .. Len(p) /\ Len(p) - 1 = Len(d) /\ Len(p) \in Nat /\ Len(d) \in Nat
  OBVIOUS
<1> DEFINE c == SubSeq(p, 1, Len(d))
<1>2. c \in Seq(S) /\ Len(c) = Len(d) /\ Under(c, p)
  BY <1>1, Prefixes
<1>3. Parent(p) = c
  BY <1>1 DEF Parent
<1> HIDE DEF c
<1>4. ASSUME Under(d, p) PROVE c = d
  <2>1. \A i \in 1 .. Len(c) : c[i] = d[i]
    BY <1>1, <1>2, <1>4 DEF Under
  <2> QED BY <1>2, <2>1, SeqEqual
<1> QED BY <1>2, <1>3, <1>4

\* Two prefixes of one path are under each other.
LEMMA UnderBoth ==
    ASSUME NEW S, NEW p \in Seq(S), NEW d \in Seq(S), NEW q \in Seq(S),
           Under(p, q), Under(d, q), Len(p) <= Len(d)
    PROVE  Under(p, d) /\ (Len(p) = Len(d) => p = d)
<1>1. Len(p) \in Nat /\ Len(d) \in Nat
  OBVIOUS
<1>2. Under(p, d)
  BY <1>1 DEF Under
<1>3. ASSUME Len(p) = Len(d) PROVE p = d
  <2>1. \A i \in 1 .. Len(p) : p[i] = d[i]
    BY <1>2, <1>3 DEF Under
  <2> QED BY <1>3, <2>1, SeqEqual
<1> QED BY <1>2, <1>3

\* Being under is transitive.
LEMMA UnderTrans ==
    ASSUME NEW S, NEW p \in Seq(S), NEW d \in Seq(S), NEW q \in Seq(S), Under(p, d), Under(d, q)
    PROVE  Under(p, q)
<1>1. Len(p) \in Nat /\ Len(d) \in Nat /\ Len(q) \in Nat
  OBVIOUS
<1> QED BY <1>1 DEF Under

\* A directory tree: what a path goes through are directories.
Shape(t) ==
    /\ IsFiniteSet(DOMAIN t) /\ t \in [DOMAIN t -> EntryKinds]
    /\ DOMAIN t \subseteq {p \in Seq(EntryNames) : Len(p) > 0}
    /\ \A p \in DOMAIN t, d \in Seq(EntryNames) :
         Len(d) > 0 /\ Len(d) < Len(p) /\ Under(d, p) => d \in DOMAIN t /\ t[d] = "dir"

\* Children, by prefixes.
LEMMA ChildrenUnder ==
    ASSUME NEW t, Shape(t), NEW d \in Seq(EntryNames), NEW p
    PROVE  p \in Children(t, d) <=> p \in DOMAIN t /\ Len(p) = Len(d) + 1 /\ Under(d, p)
<1>1. p \in DOMAIN t => p \in Seq(EntryNames)
  BY DEF Shape
<1> QED BY <1>1, ParentUnder DEF Children

\* What is below a path is below one of its children.
LEMMA UnderChild ==
    ASSUME NEW t, Shape(t), NEW p \in Seq(EntryNames), NEW q \in DOMAIN t, Under(p, q)
    PROVE  q = p \/ \E c \in Children(t, p) : Under(c, q)
<1>1. q \in Seq(EntryNames) /\ Len(q) \in Nat /\ Len(p) \in Nat /\ Len(q) > 0
  BY DEF Shape
<1>2. CASE Len(q) = Len(p)
  <2>1. Under(q, q)
    BY <1>1 DEF Under
  <2> QED BY <1>1, <1>2, <2>1, UnderBoth
<1>3. CASE Len(q) > Len(p)
  <2> DEFINE k == Len(p) + 1
             c == SubSeq(q, 1, k)
  <2>1. k \in 0 .. Len(q) /\ k > 0
    BY <1>1, <1>3
  <2>2. c \in Seq(EntryNames) /\ Len(c) = k /\ Under(c, q)
    BY <1>1, <2>1, Prefixes
  <2> HIDE DEF c
  <2>3. Under(p, c)
    BY <1>1, <2>1, <2>2, UnderBoth
  <2>4. c \in DOMAIN t
    <3>1. CASE Len(c) < Len(q)
      BY <1>1, <2>1, <2>2, <3>1 DEF Shape
    <3>2. CASE Len(c) = Len(q)
      <4>1. Under(q, q)
        BY <1>1 DEF Under
      <4>2. c = q
        BY <1>1, <2>2, <3>2, <4>1, UnderBoth
      <4> QED BY <4>2
    <3> QED BY <1>1, <2>1, <2>2, <3>1, <3>2
  <2>5. c \in Children(t, p)
    BY <2>2, <2>3, <2>4, ChildrenUnder
  <2> QED BY <2>2, <2>5
<1> QED BY <1>1, <1>2, <1>3 DEF Under

-----------------------------------------------------------------------------
(* The stack of a traversal.                                               *)

Frames == [dir : Seq(EntryNames), todo : SUBSET Seq(EntryNames)]

\* What is still to be visited, and what has been.
Pending(stack, q) == \E i \in 1 .. Len(stack) : \E p \in stack[i].todo : Under(p, q)
Visited(t, stack) == {q \in DOMAIN t : ~Pending(stack, q)}

\* The frames are nested directories, and none is still to be visited.
StackOk(t, stack) ==
    /\ stack \in Seq(Frames) /\ Len(stack) > 0
    /\ \A i \in 1 .. Len(stack) :
         /\ Len(stack[i].dir) = i - 1
         /\ stack[i].todo \subseteq Children(t, stack[i].dir)
         /\ \A j \in 1 .. Len(stack), p \in stack[i].todo : ~Under(p, stack[j].dir)

\* Nothing is visited at the start.
LEMMA StackStart ==
    ASSUME NEW t, Shape(t)
    PROVE  StackOk(t, <<Frame(t, <<>>)>>) /\ Visited(t, <<Frame(t, <<>>)>>) = {}
<1> DEFINE f == Frame(t, <<>>)
           s == <<f>>
<1>1. Len(s) = 1 /\ s[1] = f /\ <<>> \in Seq(EntryNames) /\ Len(<<>>) = 0
  OBVIOUS
<1>2. f.dir = <<>> /\ f.todo = Children(t, <<>>)
  BY DEF Frame
<1>3. \A p \in f.todo : p \in DOMAIN t /\ p \in Seq(EntryNames) /\ Len(p) = 1
  <2> DEFINE e == <<>>
  <2>1. e \in Seq(EntryNames) /\ Len(e) = 0
    BY <1>1
  <2> HIDE DEF e
  <2>2. \A p : p \in Children(t, e) => p \in DOMAIN t /\ Len(p) = Len(e) + 1
    BY <2>1, ChildrenUnder
  <2>3. \A p \in DOMAIN t : p \in Seq(EntryNames)
    BY DEF Shape
  <2>4. \A p \in Children(t, e) : p \in DOMAIN t /\ p \in Seq(EntryNames) /\ Len(p) = 1
    BY <2>1, <2>2, <2>3
  <2> QED BY <1>2, <2>4 DEF e
<1>4. f \in Frames
  BY <1>1, <1>3 DEF Frame, Frames
<1> HIDE DEF f
<1>5. s \in Seq(Frames)
  BY <1>4
<1> HIDE DEF s
<1>6. \A p \in f.todo : ~Under(p, f.dir)
  BY <1>1, <1>2, <1>3 DEF Under
<1>7. StackOk(t, s)
  <2> SUFFICES ASSUME NEW i \in 1 .. Len(s)
               PROVE  /\ Len(s[i].dir) = i - 1
                      /\ s[i].todo \subseteq Children(t, s[i].dir)
                      /\ \A j \in 1 .. Len(s), p \in s[i].todo : ~Under(p, s[j].dir)
    BY <1>1, <1>5 DEF StackOk
  <2>1. i = 1 /\ \A j \in 1 .. Len(s) : j = 1
    BY <1>1
  <2> QED BY <1>1, <1>2, <1>6, <2>1
<1>8. ASSUME NEW q \in DOMAIN t PROVE Pending(s, q)
  <2>1. q \in Seq(EntryNames) /\ Len(q) > 0 /\ Under(<<>>, q) /\ q # <<>>
    BY <1>1 DEF Shape, Under
  <2>2. PICK c \in Children(t, <<>>) : Under(c, q)
    BY <1>1, <2>1, UnderChild
  <2> QED BY <1>1, <1>2, <2>2 DEF Pending
<1> QED BY <1>7, <1>8 DEF Visited, s, f

\* Everything is visited at the end.
LEMMA StackEnd ==
    ASSUME NEW t, NEW stack, StackOk(t, stack), Len(stack) = 1, stack[1].todo = {}
    PROVE  Visited(t, stack) = DOMAIN t
<1>1. \A i \in 1 .. Len(stack) : stack[i].todo = {}
  OBVIOUS
<1> QED BY <1>1 DEF Visited, Pending

\* What the entry p on top of the stack is to the others.
LEMMA OnTop ==
    ASSUME NEW t, Shape(t), NEW stack, StackOk(t, stack), NEW p \in stack[Len(stack)].todo
    PROVE  /\ p \in DOMAIN t /\ p \in Seq(EntryNames) /\ Len(p) = Len(stack) /\ Len(stack) \in Nat
           /\ Under(stack[Len(stack)].dir, p) /\ Under(p, p) /\ Pending(stack, p)
           /\ \A i \in 1 .. Len(stack) : \A c \in stack[i].todo :
                 c \in DOMAIN t /\ c \in Seq(EntryNames) /\ Len(c) = i /\ (Under(c, p) => c = p /\ i = Len(stack))
<1> DEFINE n == Len(stack)
           d == stack[n].dir
<1>1. n \in Nat /\ n \in 1 .. n /\ \A i \in 1 .. n : stack[i] \in Frames
  BY DEF StackOk
<1>2. ASSUME NEW i \in 1 .. n, NEW c \in stack[i].todo
      PROVE  /\ c \in DOMAIN t /\ c \in Seq(EntryNames) /\ Len(c) = i /\ Under(stack[i].dir, c)
             /\ stack[i].dir \in Seq(EntryNames) /\ Len(stack[i].dir) = i - 1
  <2>1. stack[i].dir \in Seq(EntryNames) /\ Len(stack[i].dir) = i - 1 /\ c \in Children(t, stack[i].dir)
    BY <1>1 DEF Frames, StackOk
  <2>2. c \in DOMAIN t /\ Len(c) = Len(stack[i].dir) + 1 /\ Under(stack[i].dir, c)
    BY <2>1, ChildrenUnder
  <2>3. c \in Seq(EntryNames)
    BY <2>2 DEF Shape
  <2> QED BY <1>1, <2>1, <2>2, <2>3
<1>3. p \in DOMAIN t /\ p \in Seq(EntryNames) /\ Len(p) = n /\ Under(d, p) /\ d \in Seq(EntryNames) /\ Len(d) = n - 1
  BY <1>1, <1>2
<1>4. Under(p, p)
  BY <1>3 DEF Under
<1>5. ASSUME NEW i \in 1 .. n, NEW c \in stack[i].todo, Under(c, p) PROVE c = p /\ i = n
  <2>1. c \in Seq(EntryNames) /\ Len(c) = i
    BY <1>2
  <2>2. i = n
    <3> SUFFICES ASSUME i # n PROVE FALSE
      OBVIOUS
    <3>1. Len(c) <= Len(d)
      BY <1>1, <1>3, <2>1
    <3>2. Under(c, d)
      BY <1>3, <1>5, <2>1, <3>1, UnderBoth
    <3> QED BY <1>1, <3>2 DEF StackOk
  <2>3. c = p
    BY <1>1, <1>3, <1>4, <1>5, <2>1, <2>2, UnderBoth
  <2> QED BY <2>2, <2>3
<1>6. Pending(stack, p)
  BY <1>1, <1>4 DEF Pending
<1> QED BY <1>1, <1>2, <1>3, <1>4, <1>5, <1>6

\* The stack without p on top.
Popped(stack, p) ==
    Append(SubSeq(stack, 1, Len(stack) - 1), [stack[Len(stack)] EXCEPT !.todo = @ \ {p}])

\* Its frames.
LEMMA PoppedFrames ==
    ASSUME NEW t, NEW stack, StackOk(t, stack), NEW p
    PROVE  LET s == Popped(stack, p)
           IN  /\ s \in Seq(Frames) /\ Len(s) = Len(stack) /\ Len(s) \in Nat
               /\ \A i \in 1 .. Len(s) :
                    s[i].dir = stack[i].dir
                    /\ s[i].todo = IF i = Len(stack) THEN stack[i].todo \ {p} ELSE stack[i].todo
<1> DEFINE n == Len(stack)
           b == SubSeq(stack, 1, n - 1)
           f == [stack[n] EXCEPT !.todo = @ \ {p}]
<1>1. n \in Nat /\ n > 0 /\ stack \in Seq(Frames) /\ \A i \in 1 .. n : stack[i] \in Frames
  BY DEF StackOk
<1>2. f \in Frames /\ f.dir = stack[n].dir /\ f.todo = stack[n].todo \ {p}
  <2>1. stack[n] \in Frames
    BY <1>1
  <2> QED BY <2>1 DEF Frames
<1>3. b \in Seq(Frames) /\ Len(b) = n - 1 /\ \A i \in 1 .. n - 1 : b[i] = stack[i]
  <2>1. n - 1 \in 0 .. Len(stack)
    BY <1>1
  <2>2. b \in Seq(Frames) /\ Len(b) = n - 1 /\ Under(b, stack)
    BY <1>1, <2>1, Prefixes
  <2> HIDE DEF b
  <2> QED BY <2>2 DEF Under
<1> DEFINE s == Append(b, f)
<1> HIDE DEF b, f
<1>4. /\ s \in Seq(Frames) /\ Len(s) = n /\ s[n] = f
      /\ \A i \in 1 .. n - 1 : s[i] = stack[i]
  BY <1>1, <1>2, <1>3, AppendProperties
<1>5. Popped(stack, p) = s
  BY DEF Popped, b, f
<1> HIDE DEF s
<1>6. ASSUME NEW i \in 1 .. n
      PROVE  s[i].dir = stack[i].dir
             /\ s[i].todo = IF i = n THEN stack[i].todo \ {p} ELSE stack[i].todo
  <2>1. CASE i = n
    BY <1>2, <1>4, <2>1
  <2>2. CASE i \in 1 .. n - 1
    BY <1>1, <1>4, <2>2
  <2> QED BY <1>1, <2>1, <2>2
<1> QED BY <1>1, <1>4, <1>5, <1>6

\* An entry comes off the stack: only what is under it is no longer pending.
LEMMA PoppedStack ==
    ASSUME NEW t, Shape(t), NEW stack, StackOk(t, stack), NEW p \in stack[Len(stack)].todo
    PROVE  /\ StackOk(t, Popped(stack, p))
           /\ \A q \in DOMAIN t : Pending(Popped(stack, p), q) <=> Pending(stack, q) /\ ~Under(p, q)
           /\ \A i \in 1 .. Len(stack) : \A c \in Popped(stack, p)[i].todo : ~Under(c, p)
<1> DEFINE s == Popped(stack, p)
           n == Len(stack)
<1>1. /\ s \in Seq(Frames) /\ Len(s) = n /\ n \in Nat /\ n > 0
      /\ \A i \in 1 .. n : /\ s[i].dir = stack[i].dir
                           /\ s[i].todo = IF i = n THEN stack[i].todo \ {p} ELSE stack[i].todo
  <2>1. n > 0
    BY DEF StackOk
  <2> HIDE DEF s
  <2>2. LET u == Popped(stack, p)
        IN  /\ u \in Seq(Frames) /\ Len(u) = Len(stack) /\ Len(u) \in Nat
            /\ \A i \in 1 .. Len(u) :
                 u[i].dir = stack[i].dir
                 /\ u[i].todo = IF i = Len(stack) THEN stack[i].todo \ {p} ELSE stack[i].todo
    BY PoppedFrames
  <2> QED BY <2>1, <2>2 DEF s
<1>2. /\ p \in DOMAIN t /\ p \in Seq(EntryNames) /\ Len(p) = n
      /\ \A i \in 1 .. n : \A c \in stack[i].todo :
           c \in DOMAIN t /\ c \in Seq(EntryNames) /\ Len(c) = i /\ (Under(c, p) => c = p /\ i = n)
  BY OnTop
<1>3. \A i \in 1 .. n : s[i].todo \subseteq stack[i].todo
  <2> HIDE DEF s, n
  <2> QED BY <1>1
<1>4. StackOk(t, s)
  <2> HIDE DEF s
  <2> SUFFICES ASSUME NEW i \in 1 .. n
               PROVE  /\ Len(s[i].dir) = i - 1
                      /\ s[i].todo \subseteq Children(t, s[i].dir)
                      /\ \A j \in 1 .. n, c \in s[i].todo : ~Under(c, s[j].dir)
    BY <1>1 DEF StackOk
  <2> QED BY <1>1, <1>3 DEF StackOk
<1>5. \A i \in 1 .. n : \A c \in s[i].todo : ~Under(c, p)
  <2> HIDE DEF s, n
  <2> QED BY <1>1, <1>2
<1>6. ASSUME NEW q \in DOMAIN t PROVE Pending(s, q) <=> Pending(stack, q) /\ ~Under(p, q)
  <2> HIDE DEF s
  <2>1. q \in Seq(EntryNames)
    BY DEF Shape
  <2>2. ASSUME Pending(s, q) PROVE Pending(stack, q) /\ ~Under(p, q)
    <3>1. PICK i \in 1 .. n : \E c \in s[i].todo : Under(c, q)
      BY <1>1, <2>2 DEF Pending
    <3>2. PICK c \in s[i].todo : Under(c, q)
      BY <3>1
    <3>3. c \in stack[i].todo
      BY <1>3
    <3>4. c \in Seq(EntryNames) /\ Len(c) = i
      BY <1>2, <3>3
    <3>5. ~Under(p, q)
      <4> SUFFICES ASSUME Under(p, q) PROVE FALSE
        OBVIOUS
      <4>1. Len(c) <= Len(p)
        BY <1>2, <3>4
      <4>2. Under(c, p)
        BY <1>2, <2>1, <3>2, <3>4, <4>1, UnderBoth
      <4> QED BY <1>5, <4>2
    <3> QED BY <3>2, <3>3, <3>5 DEF Pending
  <2>3. ASSUME Pending(stack, q), ~Under(p, q) PROVE Pending(s, q)
    <3>1. PICK i \in 1 .. n : \E c \in stack[i].todo : Under(c, q)
      BY <2>3 DEF Pending
    <3>2. PICK c \in stack[i].todo : Under(c, q)
      BY <3>1
    <3>3. c \in s[i].todo
      BY <1>1, <2>3, <3>2
    <3> QED BY <1>1, <3>2, <3>3 DEF Pending
  <2> QED BY <2>2, <2>3
<1> QED BY <1>4, <1>5, <1>6

\* Visiting what is no directory.
LEMMA VisitLeaf ==
    ASSUME NEW t, Shape(t), NEW stack, StackOk(t, stack), NEW p \in stack[Len(stack)].todo,
           t[p] # "dir"
    PROVE  /\ StackOk(t, Popped(stack, p)) /\ p \notin Visited(t, stack)
           /\ Visited(t, Popped(stack, p)) = Visited(t, stack) \cup {p}
<1>1. p \in DOMAIN t /\ p \in Seq(EntryNames) /\ Len(p) \in Nat /\ Len(p) > 0 /\ Under(p, p) /\ Pending(stack, p)
  <2>1. p \in DOMAIN t /\ p \in Seq(EntryNames) /\ Under(p, p) /\ Pending(stack, p)
    BY OnTop
  <2> QED BY <2>1 DEF Shape
<1>2. ASSUME NEW q \in DOMAIN t, Under(p, q) PROVE q = p
  <2>1. q \in Seq(EntryNames) /\ Len(q) \in Nat
    BY DEF Shape
  <2>2. ~(Len(p) < Len(q))
    BY <1>1, <1>2 DEF Shape
  <2>3. Len(p) = Len(q) /\ Under(q, q)
    BY <1>1, <1>2, <2>1, <2>2 DEF Under
  <2> QED BY <1>1, <1>2, <2>1, <2>3, UnderBoth
<1>3. StackOk(t, Popped(stack, p))
      /\ \A q \in DOMAIN t : Pending(Popped(stack, p), q) <=> Pending(stack, q) /\ ~Under(p, q)
  BY PoppedStack
<1> QED BY <1>1, <1>2, <1>3 DEF Visited

\* Going into a directory: it is visited, and what is in it is to be.
LEMMA VisitDir ==
    ASSUME NEW t, Shape(t), NEW stack, StackOk(t, stack), NEW p \in stack[Len(stack)].todo
    PROVE  LET s == Append(Popped(stack, p), Frame(t, p))
           IN  /\ StackOk(t, s) /\ p \notin Visited(t, stack)
               /\ Visited(t, s) = Visited(t, stack) \cup {p}
<1> DEFINE n == Len(stack)
           b == Popped(stack, p)
           f == Frame(t, p)
           s == Append(b, f)
<1>1. /\ p \in DOMAIN t /\ p \in Seq(EntryNames) /\ Len(p) = n /\ n \in Nat /\ Under(p, p) /\ Pending(stack, p)
      /\ \A i \in 1 .. n : Len(stack[i].dir) = i - 1
  <2>1. p \in DOMAIN t /\ p \in Seq(EntryNames) /\ Len(p) = n /\ n \in Nat /\ Under(p, p) /\ Pending(stack, p)
    BY OnTop
  <2> QED BY <2>1 DEF StackOk
<1>2. /\ StackOk(t, b)
      /\ \A q \in DOMAIN t : Pending(b, q) <=> Pending(stack, q) /\ ~Under(p, q)
      /\ \A i \in 1 .. n : \A c \in b[i].todo : ~Under(c, p)
  BY PoppedStack
<1>3. Len(b) = n
  <2>1. LET u == Popped(stack, p)
        IN  /\ u \in Seq(Frames) /\ Len(u) = Len(stack) /\ Len(u) \in Nat
            /\ \A i \in 1 .. Len(u) :
                 u[i].dir = stack[i].dir
                 /\ u[i].todo = IF i = Len(stack) THEN stack[i].todo \ {p} ELSE stack[i].todo
    BY PoppedFrames
  <2> QED BY <2>1
<1> HIDE DEF b
<1>4. /\ f.dir = p /\ f.todo = Children(t, p)
      /\ \A c \in f.todo : c \in DOMAIN t /\ c \in Seq(EntryNames) /\ Len(c) = n + 1
  <2>1. f.dir = p /\ f.todo = Children(t, p)
    BY DEF Frame
  <2>2. \A c \in Children(t, p) : c \in DOMAIN t /\ Len(c) = Len(p) + 1
    BY <1>1, ChildrenUnder
  <2>3. \A c \in DOMAIN t : c \in Seq(EntryNames)
    BY DEF Shape
  <2> QED BY <1>1, <2>1, <2>2, <2>3
<1>5. f \in Frames
  BY <1>1, <1>4 DEF Frame, Frames
<1> HIDE DEF f
<1>6. /\ s \in Seq(Frames) /\ Len(s) = n + 1 /\ s[n + 1] = f
      /\ \A i \in 1 .. n : s[i] = b[i]
  <2>1. b \in Seq(Frames)
    BY <1>2 DEF StackOk
  <2> QED BY <1>3, <1>5, <2>1, AppendProperties
<1> HIDE DEF s
<1>7. \A i \in 1 .. n : Len(b[i].dir) = i - 1 /\ b[i].todo \subseteq Children(t, b[i].dir)
      /\ \A j \in 1 .. n, c \in b[i].todo : ~Under(c, b[j].dir)
  BY <1>2, <1>3 DEF StackOk
<1>8. \A c \in f.todo : ~Under(c, p) /\ \A j \in 1 .. n : ~Under(c, b[j].dir)
  BY <1>1, <1>4, <1>7 DEF Under
<1>9. ASSUME NEW i \in 1 .. n + 1
      PROVE  /\ Len(s[i].dir) = i - 1
             /\ s[i].todo \subseteq Children(t, s[i].dir)
             /\ \A j \in 1 .. n + 1, c \in s[i].todo : ~Under(c, s[j].dir)
  <2>1. CASE i = n + 1
    <3>1. s[i] = f
      BY <1>6, <2>1
    <3>2. ASSUME NEW j \in 1 .. n + 1, NEW c \in f.todo PROVE ~Under(c, s[j].dir)
      <4>1. CASE j = n + 1
        BY <1>4, <1>6, <1>8, <4>1
      <4>2. CASE j \in 1 .. n
        BY <1>6, <1>8, <4>2
      <4> QED BY <1>1, <4>1, <4>2
    <3> QED BY <1>1, <1>4, <2>1, <3>1, <3>2
  <2>2. CASE i \in 1 .. n
    <3>1. s[i] = b[i]
      BY <1>6, <2>2
    <3>2. ASSUME NEW j \in 1 .. n + 1, NEW c \in b[i].todo PROVE ~Under(c, s[j].dir)
      <4>1. CASE j = n + 1
        BY <1>2, <1>4, <1>6, <2>2, <4>1
      <4>2. CASE j \in 1 .. n
        BY <1>6, <1>7, <2>2, <4>2
      <4> QED BY <1>1, <4>1, <4>2
    <3> QED BY <1>7, <2>2, <3>1, <3>2
  <2> QED BY <1>1, <2>1, <2>2
<1>10. StackOk(t, s)
  BY <1>1, <1>6, <1>9 DEF StackOk
<1>11. ASSUME NEW q \in DOMAIN t PROVE Pending(s, q) <=> Pending(stack, q) /\ q # p
  <2>1. Pending(s, q) <=> Pending(b, q) \/ \E c \in Children(t, p) : Under(c, q)
    <3>1. ASSUME Pending(s, q) PROVE Pending(b, q) \/ \E c \in Children(t, p) : Under(c, q)
      <4>1. PICK i \in 1 .. n + 1 : \E c \in s[i].todo : Under(c, q)
        BY <1>6, <3>1 DEF Pending
      <4>2. CASE i = n + 1
        BY <1>4, <1>6, <4>1, <4>2
      <4>3. CASE i \in 1 .. n
        BY <1>3, <1>6, <4>1, <4>3 DEF Pending
      <4> QED BY <1>1, <4>2, <4>3
    <3>2. ASSUME Pending(b, q) PROVE Pending(s, q)
      <4>1. PICK i \in 1 .. n : \E c \in b[i].todo : Under(c, q)
        BY <1>3, <3>2 DEF Pending
      <4>2. i \in 1 .. Len(s) /\ s[i] = b[i]
        BY <1>1, <1>6
      <4> QED BY <4>1, <4>2 DEF Pending
    <3>3. ASSUME NEW c \in Children(t, p), Under(c, q) PROVE Pending(s, q)
      <4>1. n + 1 \in 1 .. Len(s) /\ c \in s[n + 1].todo
        BY <1>1, <1>4, <1>6
      <4> QED BY <3>3, <4>1 DEF Pending
    <3> QED BY <3>1, <3>2, <3>3
  <2>2. q \in Seq(EntryNames)
    BY DEF Shape
  <2>3. ASSUME Under(p, q), q # p PROVE Pending(s, q) /\ Pending(stack, q)
    <3>1. \E c \in Children(t, p) : Under(c, q)
      BY <1>1, <2>3, UnderChild
    <3>2. Pending(stack, q)
      <4>1. n \in 1 .. n
        BY <1>1 DEF StackOk
      <4> QED BY <2>3, <4>1 DEF Pending
    <3> QED BY <2>1, <3>1, <3>2
  <2>4. ASSUME NEW c \in Children(t, p), Under(c, q) PROVE Under(p, q) /\ q # p
    <3>1. c \in DOMAIN t /\ Len(c) = Len(p) + 1 /\ Under(p, c)
      BY <1>1, ChildrenUnder
    <3>2. c \in Seq(EntryNames)
      BY <3>1 DEF Shape
    <3>3. Under(p, q)
      BY <1>1, <2>2, <2>4, <3>1, <3>2, UnderTrans
    <3>4. q # p
      BY <1>1, <2>4, <3>1 DEF Under
    <3> QED BY <3>3, <3>4
  <2>5. CASE q = p
    BY <1>1, <1>2, <2>1, <2>4, <2>5
  <2>6. CASE q # p
    BY <1>2, <2>1, <2>3, <2>4, <2>6
  <2> QED BY <2>5, <2>6
<1>12. p \notin Visited(t, stack) /\ Visited(t, s) = Visited(t, stack) \cup {p}
  BY <1>1, <1>11 DEF Visited
<1> QED BY <1>10, <1>12 DEF s, f, b

\* Leaving a directory in which nothing is left.
LEMMA LeaveDir ==
    ASSUME NEW t, NEW stack, StackOk(t, stack), Len(stack) > 1, stack[Len(stack)].todo = {}
    PROVE  LET s == SubSeq(stack, 1, Len(stack) - 1)
           IN  StackOk(t, s) /\ Visited(t, s) = Visited(t, stack)
<1> DEFINE n == Len(stack)
           s == SubSeq(stack, 1, n - 1)
<1>1. n \in Nat /\ stack \in Seq(Frames) /\ n - 1 \in 0 .. n /\ n - 1 > 0
  BY DEF StackOk
<1>2. s \in Seq(Frames) /\ Len(s) = n - 1 /\ Under(s, stack)
  BY <1>1, Prefixes
<1> HIDE DEF s
<1>3. \A i \in 1 .. n - 1 : s[i] = stack[i]
  BY <1>2 DEF Under
<1>4. StackOk(t, s)
  <2>1. \A i \in 1 .. n - 1 : i \in 1 .. n
    BY <1>1
  <2>2. ASSUME NEW i \in 1 .. n - 1
        PROVE  /\ Len(s[i].dir) = i - 1
               /\ s[i].todo \subseteq Children(t, s[i].dir)
               /\ \A j \in 1 .. n - 1, p \in s[i].todo : ~Under(p, s[j].dir)
    BY <1>3, <2>1 DEF StackOk
  <2> QED BY <1>1, <1>2, <2>2 DEF StackOk
<1>5. \A q : Pending(s, q) <=> Pending(stack, q)
  <2> TAKE q
  <2>1. ASSUME Pending(stack, q) PROVE Pending(s, q)
    <3>1. PICK i \in 1 .. n : \E p \in stack[i].todo : Under(p, q)
      BY <2>1 DEF Pending
    <3>2. i # n
      BY <3>1
    <3>3. i \in 1 .. n - 1
      BY <1>1, <3>2
    <3> QED BY <1>2, <1>3, <3>1, <3>3 DEF Pending
  <2>2. ASSUME Pending(s, q) PROVE Pending(stack, q)
    <3>1. PICK i \in 1 .. n - 1 : \E p \in s[i].todo : Under(p, q)
      BY <1>2, <2>2 DEF Pending
    <3>2. i \in 1 .. n
      BY <1>1
    <3> QED BY <1>3, <3>1, <3>2 DEF Pending
  <2> QED BY <2>1, <2>2
<1> QED BY <1>4, <1>5 DEF Visited, s

-----------------------------------------------------------------------------
(* The traversals.                                                         *)

Walks == [mode : {"scan", "remove"}, call : {"prepare", "clear", "create"}, failed : {"no", "limit", "io"},
          stack : Seq(Frames), visited : Nat, files : Nat]

Links == {"symlink", "hardlink"}

\* A traversal of t is within its limits so far.
WalkOk(t, w) ==
    /\ StackOk(t, w.stack)
    /\ w.visited = Cardinality(Visited(t, w.stack)) /\ w.visited <= MaxEntries
    /\ \A q \in Visited(t, w.stack) : t[q] = "dir" => Len(q) <= MaxScanDepth

\* A scan has met no link and has counted the files it met.
FilesOf(t, stack) == {q \in Visited(t, stack) : t[q] = "file"}
ScanOk(t, w, limited) ==
    /\ WalkOk(t, w)
    /\ \A q \in Visited(t, w.stack) : t[q] \notin Links
    /\ w.files = IF limited THEN Cardinality(FilesOf(t, w.stack)) ELSE 0

\* A removal of the entries of b has removed those it met, but for directories.
Removed(b, stack) == {q \in Visited(b, stack) : b[q] # "dir"}
RemoveOk(t, b, w) ==
    /\ Shape(b) /\ WalkOk(b, w)
    /\ w.files = 0 /\ w.failed = "no" /\ w.call = "clear"
    /\ t = [q \in DOMAIN b \ Removed(b, w.stack) |-> b[q]]

\* What a removal that ended has left of b.
Cleared(t, b, failed) ==
    /\ Shape(b) /\ DOMAIN t \subseteq DOMAIN b /\ OfKind(t, {"dir"}) = OfKind(b, {"dir"})
    /\ failed = "no" => Traversable(b) /\ OfKind(t, EntryKinds \ {"dir"}) = {}
    /\ failed = "limit" => ~Traversable(b)

Walking(w, t, b, limited) ==
    /\ w \in Walks
    /\ w.mode = "scan" => ScanOk(t, w, limited)
    /\ w.mode = "remove" => RemoveOk(t, b, w)
    /\ w.call = "prepare" => w.mode = "scan" /\ t = b /\ w.failed = "no"
    /\ w.call = "clear" /\ w.mode = "scan" => Cleared(t, b, w.failed)
    /\ w.call = "create" => w.mode = "scan"

\* The account of an output directory that nobody else changed is right.
Accounts(t, limited, n, max) ==
    /\ OfKind(t, Links) = {} /\ ~TooDeep(t)
    /\ limited => n = Cardinality(OfKind(t, {"file"})) /\ n <= max

TreeInv ==
    /\ Shape(tree) /\ maxFiles \in FileLimits \cup {Unlimited} /\ accounted \in Nat
    /\ valid \in BOOLEAN /\ edited \in BOOLEAN
    /\ walk # NoWalk => Walking(walk, tree, before, Limited)
    /\ walk = NoWalk /\ valid /\ ~edited => Accounts(tree, Limited, accounted, maxFiles)
    /\ ScanExact /\ ClearMends

\* Sets of entries are finite.
LEMMA EntriesFinite ==
    ASSUME NEW t, Shape(t), NEW P \in SUBSET DOMAIN t
    PROVE  IsFiniteSet(P) /\ Cardinality(P) \in Nat /\ Cardinality(P) <= Cardinality(DOMAIN t)
           /\ Cardinality(DOMAIN t) \in Nat
  BY FS_Subset, FS_CardinalityType DEF Shape

\* A traversal starts with nothing visited.
LEMMA WalkStart ==
    ASSUME NEW t, Shape(t), NEW mode, NEW caller, NEW failed
    PROVE  LET w == WalkOf(t, mode, caller, failed)
           IN  /\ WalkOk(t, w) /\ Visited(t, w.stack) = {} /\ w.files = 0
               /\ w.mode = mode /\ w.call = caller /\ w.failed = failed
               /\ \A limited : ScanOk(t, w, limited)
               /\ mode \in {"scan", "remove"} /\ caller \in {"prepare", "clear", "create"}
                    /\ failed \in {"no", "limit", "io"} => w \in Walks
<1> DEFINE s == <<Frame(t, <<>>)>>
           w == WalkOf(t, mode, caller, failed)
<1>1. /\ w = [mode |-> mode, call |-> caller, failed |-> failed, stack |-> s, visited |-> 0, files |-> 0]
      /\ StackOk(t, s) /\ Visited(t, s) = {}
  BY StackStart DEF WalkOf
<1> HIDE DEF s
<1>2. s \in Seq(Frames)
  BY <1>1 DEF StackOk
<1>3. MaxEntries \in Nat /\ Cardinality({}) = 0
  BY TreeAssumption, FS_EmptySet
<1> HIDE DEF w
<1>4. WalkOk(t, w)
  <2>1. w.stack = s /\ w.visited = 0
    BY <1>1
  <2>2. StackOk(t, w.stack) /\ Visited(t, w.stack) = {}
    BY <1>1, <2>1
  <2>3. \A q \in Visited(t, w.stack) : t[q] = "dir" => Len(q) <= MaxScanDepth
    BY <2>2
  <2>4. w.visited = Cardinality(Visited(t, w.stack)) /\ w.visited <= MaxEntries
    BY <1>3, <2>1, <2>2
  <2> QED BY <2>2, <2>3, <2>4 DEF WalkOk
<1>5. FilesOf(t, w.stack) = {}
  BY <1>1 DEF FilesOf
<1>6. \A limited : ScanOk(t, w, limited)
  BY <1>1, <1>3, <1>4, <1>5 DEF ScanOk
<1>7. mode \in {"scan", "remove"} /\ caller \in {"prepare", "clear", "create"}
        /\ failed \in {"no", "limit", "io"} => w \in Walks
  BY <1>1, <1>2 DEF Walks
<1> QED BY <1>1, <1>4, <1>6, <1>7 DEF w

\* One entry more than the limit: the directory has too many.
LEMMA OverLimit ==
    ASSUME NEW t, Shape(t), NEW w, WalkOk(t, w), NEW p \in w.stack[Len(w.stack)].todo,
           w.visited + 1 > MaxEntries
    PROVE  ~Traversable(t)
<1> DEFINE V == Visited(t, w.stack)
<1>1. p \in DOMAIN t /\ p \notin V /\ V \subseteq DOMAIN t
  <2>1. p \in DOMAIN t /\ Pending(w.stack, p)
    BY OnTop DEF WalkOk
  <2> QED BY <2>1 DEF Visited
<1>2. w.visited = Cardinality(V) /\ MaxEntries \in Nat
  BY TreeAssumption DEF WalkOk
<1> HIDE DEF V
<1>3. Cardinality(V) \in Nat /\ Cardinality(V \cup {p}) = Cardinality(V) + 1
      /\ Cardinality(V \cup {p}) <= Cardinality(DOMAIN t) /\ Cardinality(DOMAIN t) \in Nat
  <2>1. IsFiniteSet(V) /\ V \cup {p} \in SUBSET DOMAIN t
    BY <1>1, EntriesFinite
  <2> QED BY <1>1, <2>1, EntriesFinite, FS_AddElement
<1> QED BY <1>2, <1>3 DEF Traversable

\* A directory that is too deep.
LEMMA DeepEntry ==
    ASSUME NEW t, Shape(t), NEW p \in DOMAIN t, t[p] = "dir", Len(p) > MaxScanDepth
    PROVE  ~Traversable(t)
  BY DEF Traversable, TooDeep, OfKind

\* What an entry on top adds to a traversal that goes on.
Advances(t, w, p, v) ==
    /\ v.visited = w.visited + 1
    /\ \/ t[p] # "dir" /\ v.stack = Popped(w.stack, p)
       \/ /\ t[p] = "dir" /\ Len(p) <= MaxScanDepth
          /\ v.stack = Append(Popped(w.stack, p), Frame(t, p))

\* The stacks it can have then.
LEMMA NextStack ==
    ASSUME NEW t, Shape(t), NEW w, WalkOk(t, w), NEW p \in w.stack[Len(w.stack)].todo
    PROVE  Popped(w.stack, p) \in Seq(Frames) /\ Append(Popped(w.stack, p), Frame(t, p)) \in Seq(Frames)
<1>1. StackOk(t, w.stack)
  BY DEF WalkOk
<1>2. Popped(w.stack, p) \in Seq(Frames)
  BY <1>1, PoppedFrames
<1>3. StackOk(t, Append(Popped(w.stack, p), Frame(t, p)))
  BY <1>1, VisitDir
<1> QED BY <1>2, <1>3 DEF StackOk

\* The traversal is in order, and p is what it has visited since.
Advanced(t, w, p, v) ==
    /\ WalkOk(t, v) /\ Visited(t, v.stack) = Visited(t, w.stack) \cup {p}
    /\ p \in DOMAIN t /\ p \notin Visited(t, w.stack) /\ v.stack \in Seq(Frames)

\* Visiting one entry more.
LEMMA WalkOn ==
    ASSUME NEW t, Shape(t), NEW w, WalkOk(t, w), NEW p \in w.stack[Len(w.stack)].todo,
           w.visited + 1 <= MaxEntries, NEW v, Advances(t, w, p, v)
    PROVE  Advanced(t, w, p, v)
<1> DEFINE V == Visited(t, w.stack)
<1>1. StackOk(t, w.stack) /\ w.visited = Cardinality(V) /\ V \subseteq DOMAIN t
  BY DEF WalkOk, Visited
<1>2. p \in DOMAIN t
  BY <1>1, OnTop
<1>3. StackOk(t, v.stack) /\ Visited(t, v.stack) = V \cup {p} /\ p \notin V
  <2>1. CASE t[p] # "dir" /\ v.stack = Popped(w.stack, p)
    BY <1>1, <2>1, VisitLeaf
  <2>2. CASE v.stack = Append(Popped(w.stack, p), Frame(t, p))
    BY <1>1, <2>2, VisitDir
  <2> QED BY <2>1, <2>2 DEF Advances
<1>4. (t[p] = "dir" => Len(p) <= MaxScanDepth) /\ v.visited = w.visited + 1
  BY DEF Advances
<1>5. \A q \in V : t[q] = "dir" => Len(q) <= MaxScanDepth
  BY DEF WalkOk
<1> HIDE DEF V
<1>6. IsFiniteSet(V) /\ Cardinality(V) \in Nat /\ Cardinality(V \cup {p}) = Cardinality(V) + 1
  <2>1. IsFiniteSet(V) /\ Cardinality(V) \in Nat
    BY <1>1, EntriesFinite
  <2> QED BY <1>3, <2>1, FS_AddElement
<1>7. WalkOk(t, v)
  BY <1>1, <1>3, <1>4, <1>5, <1>6 DEF WalkOk
<1> QED BY <1>2, <1>3, <1>7 DEF V, StackOk, Advanced

\* Adding and removing entries keeps the shape.
LEMMA ShapeWith ==
    ASSUME NEW t, Shape(t), NEW p \in TreePaths \ DOMAIN t, IsDir(t, Parent(p)), NEW kind \in EntryKinds
    PROVE  /\ Shape(With(t, p, kind)) /\ DOMAIN With(t, p, kind) = DOMAIN t \cup {p}
           /\ With(t, p, kind)[p] = kind /\ \A q \in DOMAIN t : With(t, p, kind)[q] = t[q]
<1> DEFINE u == With(t, p, kind)
<1>1. p \in Seq(EntryNames) /\ Len(p) > 0
  <2> DEFINE Level(k) == {c \in [1 .. k -> EntryNames] : \A i \in 2 .. k : c[i] \in NestedNames}
  <2>1. p \in UNION {Level(k) : k \in 1 .. MaxScanDepth + 1}
    BY DEF TreePaths
  <2> HIDE DEF Level
  <2>2. PICK k \in 1 .. MaxScanDepth + 1 : p \in Level(k)
    BY <2>1
  <2>3. p \in [1 .. k -> EntryNames] /\ k \in Nat /\ k > 0
    BY <2>2, TreeAssumption DEF Level
  <2> QED BY <2>3
<1>2. /\ DOMAIN u = DOMAIN t \cup {p} /\ u[p] = kind /\ \A q \in DOMAIN t : u[q] = t[q]
      /\ u \in [DOMAIN t \cup {p} -> EntryKinds]
  BY DEF With, Shape
<1> HIDE DEF u
<1>3. IsFiniteSet(DOMAIN u)
  BY <1>2, FS_AddElement DEF Shape
<1>4. ASSUME NEW q \in DOMAIN u, NEW d \in Seq(EntryNames), Len(d) > 0, Len(d) < Len(q), Under(d, q)
      PROVE  d \in DOMAIN u /\ u[d] = "dir"
  <2>1. CASE q # p
    BY <1>2, <1>4, <2>1 DEF Shape
  <2>2. CASE q = p
    <3> DEFINE a == Parent(p)
               k == Len(p) - 1
    <3>1. k \in 0 .. Len(p) /\ Len(d) <= k /\ Len(d) \in Nat /\ k \in Nat
      BY <1>1, <1>4, <2>2
    <3>2. a \in Seq(EntryNames) /\ Len(a) = k /\ Under(a, p)
      BY <1>1, <3>1, Prefixes DEF Parent
    <3>3. a # <<>>
      <4> HIDE DEF a
      <4> QED BY <1>4, <3>1, <3>2
    <3>4. a \in DOMAIN t /\ t[a] = "dir"
      BY <3>3 DEF IsDir
    <3> HIDE DEF a, k
    <3>5. Under(d, a) /\ (Len(d) = Len(a) => d = a)
      BY <1>1, <1>4, <2>2, <3>1, <3>2, UnderBoth
    <3>6. d \in DOMAIN t /\ t[d] = "dir"
      BY <1>4, <3>1, <3>2, <3>4, <3>5 DEF Shape
    <3> QED BY <1>2, <3>6
  <2> QED BY <2>1, <2>2
<1>5. DOMAIN u \subseteq {q \in Seq(EntryNames) : Len(q) > 0}
  BY <1>1, <1>2 DEF Shape
<1>6. u \in [DOMAIN u -> EntryKinds]
  BY <1>2
<1>7. Shape(u)
  BY <1>3, <1>4, <1>5, <1>6 DEF Shape
<1> QED BY <1>2, <1>7 DEF u

\* An entry with nothing below it goes.
LEMMA ShapeWithout ==
    ASSUME NEW t, Shape(t), NEW p \in DOMAIN t, \A q \in DOMAIN t : Under(p, q) => q = p
    PROVE  /\ Shape(WithoutEntry(t, p)) /\ DOMAIN WithoutEntry(t, p) = DOMAIN t \ {p}
           /\ \A q \in DOMAIN t \ {p} : WithoutEntry(t, p)[q] = t[q]
<1> DEFINE u == WithoutEntry(t, p)
<1>1. /\ DOMAIN u = DOMAIN t \ {p} /\ \A q \in DOMAIN t \ {p} : u[q] = t[q]
      /\ u \in [DOMAIN t \ {p} -> EntryKinds]
  BY DEF WithoutEntry, Shape
<1> HIDE DEF u
<1>2. IsFiniteSet(DOMAIN u)
  BY <1>1, FS_RemoveElement DEF Shape
<1>3. ASSUME NEW q \in DOMAIN u, NEW d \in Seq(EntryNames), Len(d) > 0, Len(d) < Len(q), Under(d, q)
      PROVE  d \in DOMAIN u /\ u[d] = "dir"
  <2>1. d \in DOMAIN t /\ t[d] = "dir" /\ q \in DOMAIN t
    BY <1>1, <1>3 DEF Shape
  <2>2. d # p
    BY <1>1, <1>3, <2>1
  <2> QED BY <1>1, <2>1, <2>2
<1>4. DOMAIN u \subseteq {q \in Seq(EntryNames) : Len(q) > 0} /\ u \in [DOMAIN u -> EntryKinds]
  BY <1>1 DEF Shape
<1>5. Shape(u)
  BY <1>2, <1>3, <1>4 DEF Shape
<1> QED BY <1>1, <1>5 DEF u

\* What is no directory has nothing below it.
LEMMA LeafAlone ==
    ASSUME NEW t, Shape(t), NEW p \in DOMAIN t, t[p] # "dir", NEW q \in DOMAIN t, Under(p, q)
    PROVE  q = p
<1>1. p \in Seq(EntryNames) /\ Len(p) > 0 /\ q \in Seq(EntryNames) /\ Len(p) \in Nat /\ Len(q) \in Nat
  BY DEF Shape
<1>2. ~(Len(p) < Len(q))
  BY <1>1 DEF Shape
<1>3. Len(p) = Len(q) /\ Under(q, q)
  BY <1>1, <1>2 DEF Under
<1> QED BY <1>1, <1>3, UnderBoth

\* A traversal under way is no NoWalk.
LEMMA UnderWay ==
    ASSUME NEW w \in Walks
    PROVE  w # NoWalk
<1>1. NoWalk.mode = "none" /\ w.mode \in {"scan", "remove"}
  BY DEF NoWalk, Walks
<1> QED BY <1>1

\* While a call goes on, or after one that does not walk, the two are vacuous.
LEMMA NotAtEnd ==
    ASSUME walk' # NoWalk \/ walked' = NotWalked
    PROVE  ScanExact' /\ ClearMends'
  BY DEF ScanExact, ClearMends, CallEnded, NotWalked

\* A part of a directory is as good as the whole.
LEMMA PartTraversable ==
    ASSUME NEW t, NEW b, Shape(b), DOMAIN t \subseteq DOMAIN b, OfKind(t, {"dir"}) = OfKind(b, {"dir"}),
           Traversable(b)
    PROVE  Traversable(t)
<1>1. MaxEntries \in Nat /\ Cardinality(DOMAIN t) \in Nat /\ Cardinality(DOMAIN b) \in Nat
      /\ Cardinality(DOMAIN t) <= Cardinality(DOMAIN b)
  BY EntriesFinite, TreeAssumption
<1>2. ~TooDeep(t)
  BY DEF Traversable, TooDeep
<1> QED BY <1>1, <1>2 DEF Traversable

\* What a removal has left of the directory.
LEMMA LeftOver ==
    ASSUME NEW t, NEW b, NEW w, RemoveOk(t, b, w)
    PROVE  /\ DOMAIN t = DOMAIN b \ Removed(b, w.stack) /\ DOMAIN t \subseteq DOMAIN b
           /\ \A q \in DOMAIN t : t[q] = b[q]
           /\ OfKind(t, {"dir"}) = OfKind(b, {"dir"})
<1>1. /\ DOMAIN t = DOMAIN b \ Removed(b, w.stack)
      /\ \A q \in DOMAIN t : t[q] = b[q]
  BY DEF RemoveOk
<1>2. \A q \in DOMAIN b : b[q] = "dir" => q \in DOMAIN t
  BY <1>1 DEF Removed
<1> QED BY <1>1, <1>2 DEF OfKind

\* A failure, and what it may be about.
LEMMA FailKeeps ==
    ASSUME TreeInv, walk # NoWalk, NEW why \in {"limit", "link", "io"}, Fails(why),
           UNCHANGED <<maxFiles, before, edited>>,
           why = "link" => walk.mode = "scan" /\ OfKind(tree, Links) # {},
           why = "limit" => ~Traversable(IF walk.mode = "scan" THEN tree ELSE before)
    PROVE  TreeInv'
<1>1. Walking(walk, tree, before, Limited) /\ Shape(tree) /\ tree' = tree /\ accounted' = accounted
      /\ before' = before /\ maxFiles' = maxFiles /\ edited' = edited
  BY DEF TreeInv, Fails
<1>2. walk \in Walks /\ walk.mode \in {"scan", "remove"} /\ walk.failed \in {"no", "limit", "io"}
      /\ walk.call \in {"prepare", "clear", "create"}
  BY <1>1 DEF Walking, Walks
<1>3. CASE walk.mode = "scan"
  <2> DEFINE f == IF walk.failed = "io" THEN "io" ELSE why
  <2>1. walk' = NoWalk /\ walked' = [call |-> walk.call, failed |-> f] /\ valid' = FALSE
    BY <1>3 DEF Fails, Ended
  <2>2. walked'.call = walk.call /\ walked'.failed = f /\ f # "no"
    BY <2>1
  <2>3. ScanExact'
    <3>1. SUFFICES ASSUME walk.call = "prepare", f # "io"
                   PROVE  tree' = before' /\ ~Scannable(tree)
      <4>1. ASSUME ~Scannable(tree) PROVE ~Scannable(tree)'
        BY <1>1, <4>1 DEF Scannable
      <4> QED BY <1>1, <2>1, <2>2, <4>1 DEF ScanExact, CallEnded
    <3>2. tree = before
      BY <1>1, <3>1 DEF Walking
    <3>3. ~Scannable(tree)
      BY <1>3, <3>1 DEF Scannable, Links
    <3> QED BY <1>1, <3>2, <3>3
  <2>4. ClearMends'
    <3>1. CASE walk.call = "clear"
      <4>1. Cleared(tree, before, walk.failed)
        BY <1>1, <1>3, <3>1 DEF Walking
      <4>2. f # "io" => ~Traversable(before)
        <5>1. CASE walk.failed = "limit"
          BY <4>1, <5>1 DEF Cleared
        <5>2. CASE walk.failed = "no"
          <6>1. Traversable(before) /\ OfKind(tree, EntryKinds \ {"dir"}) = {}
            BY <4>1, <5>2 DEF Cleared
          <6>2. Traversable(tree)
            BY <4>1, <6>1, PartTraversable DEF Cleared
          <6>3. OfKind(tree, Links) = {}
            BY <6>1 DEF OfKind, Links, EntryKinds
          <6> QED BY <1>3, <6>2, <6>3
        <5> QED BY <1>2, <5>1, <5>2
      <4>3. DOMAIN tree \subseteq DOMAIN before /\ OfKind(tree, {"dir"}) = OfKind(before, {"dir"})
        BY <4>1 DEF Cleared
      <4> QED BY <1>1, <2>1, <2>2, <4>2, <4>3 DEF ClearMends
    <3>2. CASE walk.call # "clear"
      BY <2>2, <3>2 DEF ClearMends
    <3> QED BY <3>1, <3>2
  <2> QED BY <1>1, <2>1, <2>3, <2>4 DEF TreeInv
<1>4. CASE walk.mode = "remove"
  <2>1. walk' = WalkOf(tree, "scan", walk.call, why) /\ valid' = valid
    BY <1>4 DEF Fails
  <2>2. RemoveOk(tree, before, walk)
    BY <1>1, <1>4 DEF Walking
  <2>3. why \in {"limit", "io"} /\ walk.call = "clear"
    BY <1>4, <2>2 DEF RemoveOk
  <2>4. /\ walk' \in Walks /\ ScanOk(tree, walk', Limited)
        /\ walk'.mode = "scan" /\ walk'.call = "clear" /\ walk'.failed = why
    BY <1>1, <2>1, <2>3, WalkStart
  <2>5. Cleared(tree, before, why)
    BY <1>4, <2>2, <2>3, LeftOver DEF Cleared, RemoveOk
  <2>6. Walking(walk', tree, before, Limited)
    BY <2>4, <2>5 DEF Walking
  <2>7. walk' # NoWalk
    BY <2>4, UnderWay
  <2> QED BY <1>1, <2>1, <2>6, <2>7, NotAtEnd DEF TreeInv, Limited
<1> QED BY <1>2, <1>3, <1>4

\* One entry of a scan.
LEMMA ScanOn ==
    ASSUME NEW t, Shape(t), NEW w \in Walks, NEW limited \in BOOLEAN, ScanOk(t, w, limited),
           NEW p \in w.stack[Len(w.stack)].todo, w.visited + 1 <= MaxEntries, t[p] \notin Links,
           NEW v, Advances(t, w, p, v),
           v.files = IF t[p] = "file" /\ limited THEN w.files + 1 ELSE w.files
    PROVE  ScanOk(t, v, limited) /\ v.stack \in Seq(Frames)
<1>1. /\ WalkOk(t, v) /\ Visited(t, v.stack) = Visited(t, w.stack) \cup {p}
      /\ p \in DOMAIN t /\ p \notin Visited(t, w.stack) /\ v.stack \in Seq(Frames)
  BY WalkOn DEF ScanOk, Advanced
<1>2. \A q \in Visited(t, v.stack) : t[q] \notin Links
  BY <1>1 DEF ScanOk
<1> DEFINE F == FilesOf(t, w.stack)
<1>3. F \subseteq DOMAIN t /\ p \notin F /\ w.files = IF limited THEN Cardinality(F) ELSE 0
  BY <1>1 DEF FilesOf, Visited, ScanOk
<1>4. FilesOf(t, v.stack) = IF t[p] = "file" THEN F \cup {p} ELSE F
  BY <1>1 DEF FilesOf
<1> HIDE DEF F
<1>5. Cardinality(F \cup {p}) = Cardinality(F) + 1
  BY <1>3, EntriesFinite, FS_AddElement
<1>6. v.files = IF limited THEN Cardinality(FilesOf(t, v.stack)) ELSE 0
  BY <1>3, <1>4, <1>5
<1> QED BY <1>1, <1>2, <1>6 DEF ScanOk

\* A step of a scan that goes on.
LEMMA ScanGoes ==
    ASSUME TreeInv, walk # NoWalk, walk.mode = "scan", walk' \in Walks,
           ScanOk(tree, walk', Limited),
           walk'.mode = walk.mode, walk'.call = walk.call, walk'.failed = walk.failed,
           UNCHANGED <<tree, accounted, valid, walked, maxFiles, before, edited>>
    PROVE  TreeInv'
<1>1. Walking(walk, tree, before, Limited)
  BY DEF TreeInv
<1>2. Walking(walk', tree, before, Limited)
  BY <1>1 DEF Walking
<1>3. walk' # NoWalk
  BY UnderWay
<1> QED BY <1>2, <1>3, NotAtEnd DEF TreeInv, Limited

\* A step of a removal that goes on.
LEMMA RemovalGoes ==
    ASSUME TreeInv, walk # NoWalk, walk.mode = "remove", walk' \in Walks,
           Shape(tree'), RemoveOk(tree', before, walk'),
           walk'.mode = walk.mode, walk'.call = walk.call, walk'.failed = walk.failed,
           UNCHANGED <<accounted, valid, walked, maxFiles, before, edited>>
    PROVE  TreeInv'
<1>1. Walking(walk, tree, before, Limited)
  BY DEF TreeInv
<1>2. walk.call = "clear"
  BY <1>1 DEF Walking, RemoveOk
<1>3. Walking(walk', tree', before', Limited')
  BY <1>2 DEF Walking
<1>4. walk' # NoWalk
  BY UnderWay
<1> QED BY <1>3, <1>4, NotAtEnd DEF TreeInv

\* The traversal after an entry has been taken from the top.
WalkTo(w, stack, files) ==
    [mode |-> w.mode, call |-> w.call, failed |-> w.failed, stack |-> stack,
     visited |-> w.visited + 1, files |-> files]

\* Its fields.
LEMMA WalkToFields ==
    ASSUME NEW w \in Walks, NEW stack \in Seq(Frames), NEW files \in Nat, NEW v, v = WalkTo(w, stack, files)
    PROVE  /\ v \in Walks /\ v.stack = stack /\ v.files = files /\ v.visited = w.visited + 1
           /\ v.mode = w.mode /\ v.call = w.call /\ v.failed = w.failed
  BY DEF Walks, WalkTo

\* An entry seen is such a step.
LEMMA SeenIs ==
    ASSUME walk \in Walks, NEW p
    PROVE  Seen(p) = WalkTo(walk, Popped(walk.stack, p), walk.files)
<1> DEFINE b == Popped(walk.stack, p)
<1>1. Seen(p) = [walk EXCEPT !.stack = b, !.visited = @ + 1]
  BY DEF Seen, Below, Top, Popped
<1> HIDE DEF b
<1>2. walk = [mode |-> walk.mode, call |-> walk.call, failed |-> walk.failed, stack |-> walk.stack,
              visited |-> walk.visited, files |-> walk.files]
  BY DEF Walks
<1>3. Seen(p) = WalkTo(walk, b, walk.files)
  BY <1>1, <1>2 DEF WalkTo
<1> QED BY <1>3 DEF b

\* The sequence of frames is one.
LEMMA OnTopOf ==
    ASSUME NEW t, Shape(t), NEW w, WalkOk(t, w), NEW p \in w.stack[Len(w.stack)].todo
    PROVE  p \in DOMAIN t /\ t[p] \in EntryKinds /\ Pending(w.stack, p) /\ p \in Seq(EntryNames)
  BY OnTop DEF WalkOk, Shape

\* A scan visits an entry.
LEMMA ScanKeeps ==
    ASSUME TreeInv, NEW p, Visit(p), walk.mode = "scan"
    PROVE  TreeInv'
<1>1. /\ walk # NoWalk /\ p \in walk.stack[Len(walk.stack)].todo /\ UNCHANGED <<maxFiles, before, edited>>
      /\ Shape(tree) /\ Walking(walk, tree, before, Limited)
  BY DEF Visit, Top, TreeInv
<1>2. walk \in Walks /\ ScanOk(tree, walk, Limited) /\ WalkOk(tree, walk) /\ Limited \in BOOLEAN
      /\ walk.files \in Nat
  BY <1>1 DEF Walking, ScanOk, Limited, Walks
<1>3. p \in DOMAIN tree /\ tree[p] \in EntryKinds
  BY <1>1, <1>2, OnTopOf
<1>4. CASE walk.visited + 1 > MaxEntries
  <2>1. Fails("limit") /\ ~Traversable(tree)
    BY <1>1, <1>2, <1>4, OverLimit DEF Visit
  <2> QED BY <1>1, <2>1, FailKeeps
<1>5. CASE ~(walk.visited + 1 > MaxEntries)
  <2>1. ScanEntry(p) /\ walk.visited + 1 <= MaxEntries
    <3>1. walk.visited \in Nat /\ MaxEntries \in Nat
      BY <1>2, TreeAssumption DEF Walks
    <3> QED BY <1>5, <3>1 DEF Visit
  <2>2. CASE tree[p] \in {"symlink", "hardlink"}
    <3>1. Fails("link") /\ p \in OfKind(tree, Links)
      BY <1>3, <2>1, <2>2 DEF ScanEntry, HardLinked, OfKind, Links
    <3> QED BY <1>1, <3>1, FailKeeps
  <2>3. CASE tree[p] = "dir" /\ Len(p) > MaxScanDepth
    <3>1. Fails("limit")
      BY <2>1, <2>3 DEF ScanEntry, HardLinked, Descend
    <3>2. ~Traversable(tree)
      BY <1>1, <1>3, <2>3, DeepEntry
    <3> QED BY <1>1, <3>1, <3>2, FailKeeps
  <2>4. CASE tree[p] = "dir" /\ ~(Len(p) > MaxScanDepth)
    <3> DEFINE s == Append(Popped(walk.stack, p), Frame(tree, p))
    <3>1. /\ walk' = [Seen(p) EXCEPT !.stack = Append(@, Frame(tree, p))]
          /\ UNCHANGED <<tree, accounted, valid, walked>>
      BY <2>1, <2>4 DEF ScanEntry, HardLinked, Descend
    <3>2. walk' = WalkTo(walk, s, walk.files)
      <4>1. Seen(p) = WalkTo(walk, Popped(walk.stack, p), walk.files)
        BY <1>2, SeenIs
      <4> DEFINE b == Popped(walk.stack, p)
                 f == Frame(tree, p)
                 r == [Seen(p) EXCEPT !.stack = Append(@, f)]
      <4>2. Seen(p) = WalkTo(walk, b, walk.files) /\ walk' = r /\ s = Append(b, f)
        BY <3>1, <4>1
      <4> HIDE DEF b, f, s
      <4>3. Seen(p).stack = b
        BY <4>2 DEF WalkTo
      <4>4. r = [Seen(p) EXCEPT !.stack = s]
        BY <4>2, <4>3
      <4>5. [Seen(p) EXCEPT !.stack = s] = WalkTo(walk, s, walk.files)
        BY <4>2 DEF WalkTo
      <4> QED BY <4>2, <4>4, <4>5
    <3>3. s \in Seq(Frames)
      BY <1>1, <1>2, NextStack
    <3>4. Len(p) <= MaxScanDepth
      <4>1. Len(p) \in Nat
        BY <1>1, <1>3 DEF Shape
      <4> QED BY <2>4, <4>1, TreeAssumption
    <3> HIDE DEF s
    <3>6. /\ walk' \in Walks /\ walk'.stack = s /\ walk'.files = walk.files
          /\ walk'.visited = walk.visited + 1
          /\ walk'.mode = walk.mode /\ walk'.call = walk.call /\ walk'.failed = walk.failed
      BY <1>2, <3>2, <3>3, WalkToFields
    <3>5. Advances(tree, walk, p, walk')
      BY <2>4, <3>4, <3>6 DEF Advances, s
    <3>7. ScanOk(tree, walk', Limited)
      BY <1>1, <1>2, <2>1, <2>4, <3>5, <3>6, ScanOn DEF Links
    <3> QED BY <1>1, <3>1, <3>6, <3>7, ScanGoes
  <2>5. CASE tree[p] \in {"file", "special"}
    <3> DEFINE s == Popped(walk.stack, p)
               n == IF tree[p] = "file" /\ Limited THEN walk.files + 1 ELSE walk.files
    <3>1. /\ walk' = [Seen(p) EXCEPT !.files = IF tree[p] = "file" /\ Limited THEN @ + 1 ELSE @]
          /\ UNCHANGED <<tree, accounted, valid, walked>>
      BY <2>1, <2>5 DEF ScanEntry, HardLinked
    <3>2. walk' = WalkTo(walk, s, n)
      <4>1. Seen(p) = WalkTo(walk, s, walk.files)
        BY <1>2, SeenIs
      <4> HIDE DEF s
      <4> QED BY <3>1, <4>1 DEF WalkTo
    <3>3. s \in Seq(Frames)
      BY <1>1, <1>2, NextStack
    <3>4. n \in Nat
      BY <1>2
    <3> HIDE DEF s, n
    <3>6. /\ walk' \in Walks /\ walk'.stack = s /\ walk'.files = n
          /\ walk'.visited = walk.visited + 1
          /\ walk'.mode = walk.mode /\ walk'.call = walk.call /\ walk'.failed = walk.failed
      BY <1>2, <3>2, <3>3, <3>4, WalkToFields
    <3>5. Advances(tree, walk, p, walk')
      BY <2>5, <3>6 DEF Advances, s
    <3>7. tree[p] # "dir" /\ tree[p] \notin Links
      BY <2>5 DEF Links
    <3>8. ScanOk(tree, walk', Limited)
      BY <1>1, <1>2, <2>1, <3>5, <3>6, <3>7, ScanOn DEF n
    <3> QED BY <1>1, <3>1, <3>6, <3>8, ScanGoes
  <2> QED BY <1>3, <2>2, <2>3, <2>4, <2>5 DEF EntryKinds
<1> QED BY <1>4, <1>5

\* A removal visits an entry.
LEMMA RemoveKeeps ==
    ASSUME TreeInv, NEW p, Visit(p), walk.mode = "remove"
    PROVE  TreeInv'
<1>1. /\ walk # NoWalk /\ p \in walk.stack[Len(walk.stack)].todo /\ UNCHANGED <<maxFiles, before, edited>>
      /\ Shape(tree) /\ Walking(walk, tree, before, Limited)
  BY DEF Visit, Top, TreeInv
<1>2. walk \in Walks /\ RemoveOk(tree, before, walk) /\ Shape(before) /\ WalkOk(before, walk)
  BY <1>1 DEF Walking, RemoveOk
<1>3. p \in DOMAIN before /\ before[p] \in EntryKinds /\ Pending(walk.stack, p) /\ p \in Seq(EntryNames)
  BY <1>1, <1>2, OnTopOf
<1>4. p \in DOMAIN tree /\ tree[p] = before[p] /\ DOMAIN tree = DOMAIN before \ Removed(before, walk.stack)
      /\ \A q \in DOMAIN tree : tree[q] = before[q]
  <2>1. p \notin Removed(before, walk.stack)
    BY <1>3 DEF Removed, Visited
  <2>2. DOMAIN tree = DOMAIN before \ Removed(before, walk.stack) /\ \A q \in DOMAIN tree : tree[q] = before[q]
    BY <1>2, LeftOver
  <2> QED BY <1>3, <2>1, <2>2
<1>5. CASE walk.visited + 1 > MaxEntries
  <2>1. Fails("limit") /\ ~Traversable(before)
    BY <1>1, <1>2, <1>5, OverLimit DEF Visit
  <2> QED BY <1>1, <2>1, FailKeeps
<1>6. CASE ~(walk.visited + 1 > MaxEntries)
  <2>1. RemoveEntry(p) /\ walk.visited + 1 <= MaxEntries
    <3>1. walk.visited \in Nat /\ MaxEntries \in Nat
      BY <1>2, TreeAssumption DEF Walks
    <3> QED BY <1>6, <3>1 DEF Visit
  <2>2. walk.files = 0 /\ walk.failed = "no" /\ walk.call = "clear"
    BY <1>2 DEF RemoveOk
  <2>3. CASE tree[p] = "dir" /\ Len(p) > MaxScanDepth
    <3>1. Fails("limit")
      BY <2>1, <2>3 DEF RemoveEntry, Descend
    <3>2. ~Traversable(before)
      BY <1>2, <1>3, <1>4, <2>3, DeepEntry
    <3> QED BY <1>1, <3>1, <3>2, FailKeeps
  <2>4. CASE tree[p] = "dir" /\ ~(Len(p) > MaxScanDepth)
    <3> DEFINE s == Append(Popped(walk.stack, p), Frame(before, p))
    <3>1. Frame(tree, p) = Frame(before, p)
      <4>1. Children(tree, p) = Children(before, p)
        <5>1. \A c \in Children(before, p) : Pending(walk.stack, c)
          <6> TAKE c \in Children(before, p)
          <6>1. Under(p, c)
            BY <1>2, <1>3, ChildrenUnder
          <6>2. Len(walk.stack) \in 1 .. Len(walk.stack)
            BY <1>2 DEF WalkOk, StackOk
          <6> QED BY <1>1, <6>1, <6>2 DEF Pending
        <5>2. \A c \in Children(before, p) : c \in DOMAIN tree
          BY <1>4, <5>1 DEF Removed, Visited, Children
        <5> QED BY <1>4, <5>2 DEF Children
      <4> QED BY <4>1 DEF Frame
    <3>2. /\ walk' = [Seen(p) EXCEPT !.stack = Append(@, Frame(before, p))]
          /\ UNCHANGED <<tree, accounted, valid, walked>>
      BY <2>1, <2>4, <3>1 DEF RemoveEntry, Descend
    <3>3. walk' = WalkTo(walk, s, walk.files)
      <4>1. Seen(p) = WalkTo(walk, Popped(walk.stack, p), walk.files)
        BY <1>2, SeenIs
      <4> DEFINE b == Popped(walk.stack, p)
                 f == Frame(before, p)
                 r == [Seen(p) EXCEPT !.stack = Append(@, f)]
      <4>2. Seen(p) = WalkTo(walk, b, walk.files) /\ walk' = r /\ s = Append(b, f)
        BY <3>2, <4>1
      <4> HIDE DEF b, f, s
      <4>3. Seen(p).stack = b
        BY <4>2 DEF WalkTo
      <4>4. r = [Seen(p) EXCEPT !.stack = s]
        BY <4>2, <4>3
      <4>5. [Seen(p) EXCEPT !.stack = s] = WalkTo(walk, s, walk.files)
        BY <4>2 DEF WalkTo
      <4> QED BY <4>2, <4>4, <4>5
    <3>4. s \in Seq(Frames)
      BY <1>1, <1>2, NextStack
    <3>5. Len(p) <= MaxScanDepth
      <4>1. Len(p) \in Nat
        BY <1>3
      <4> QED BY <2>4, <4>1, TreeAssumption
    <3> HIDE DEF s
    <3>8. /\ walk' \in Walks /\ walk'.stack = s /\ walk'.files = 0
          /\ walk'.visited = walk.visited + 1
          /\ walk'.mode = walk.mode /\ walk'.call = walk.call /\ walk'.failed = walk.failed
      BY <1>2, <2>2, <3>3, <3>4, WalkToFields
    <3>7. Advances(before, walk, p, walk')
      BY <1>4, <2>4, <3>5, <3>8 DEF Advances, s
    <3>6. WalkOk(before, walk') /\ Visited(before, s) = Visited(before, walk.stack) \cup {p}
      <4>1. WalkOk(before, walk') /\ Visited(before, walk'.stack) = Visited(before, walk.stack) \cup {p}
        <5>1. /\ Shape(before) /\ WalkOk(before, walk) /\ walk.visited + 1 <= MaxEntries
              /\ p \in walk.stack[Len(walk.stack)].todo
          BY <1>1, <1>2, <2>1
        <5>2. Advanced(before, walk, p, walk')
          BY <5>1, <3>7, WalkOn
        <5> QED BY <5>2 DEF Advanced
      <4> QED BY <4>1, <3>8
    <3>9. Removed(before, s) = Removed(before, walk.stack)
      BY <1>4, <2>4, <3>6, <3>8 DEF Removed
    <3>10. RemoveOk(tree', before, walk')
      BY <1>2, <2>2, <3>2, <3>6, <3>8, <3>9 DEF RemoveOk
    <3> QED BY <1>1, <3>2, <3>8, <3>10, RemovalGoes
  <2>5. CASE tree[p] # "dir"
    <3> DEFINE s == Popped(walk.stack, p)
    <3>1. tree' = WithoutEntry(tree, p) /\ walk' = Seen(p) /\ UNCHANGED <<accounted, valid, walked>>
      BY <2>1, <2>5 DEF RemoveEntry
    <3>2. walk' = WalkTo(walk, s, 0)
      BY <1>2, <2>2, <3>1, SeenIs
    <3>3. s \in Seq(Frames)
      BY <1>1, <1>2, NextStack
    <3> HIDE DEF s
    <3>6. /\ walk' \in Walks /\ walk'.stack = s /\ walk'.files = 0
          /\ walk'.visited = walk.visited + 1
          /\ walk'.mode = walk.mode /\ walk'.call = walk.call /\ walk'.failed = walk.failed
      BY <1>2, <3>2, <3>3, WalkToFields
    <3>5. Advances(before, walk, p, walk')
      BY <1>4, <2>5, <3>6 DEF Advances, s
    <3>4. WalkOk(before, walk') /\ Visited(before, s) = Visited(before, walk.stack) \cup {p}
      <4>1. WalkOk(before, walk') /\ Visited(before, walk'.stack) = Visited(before, walk.stack) \cup {p}
        <5>1. /\ Shape(before) /\ WalkOk(before, walk) /\ walk.visited + 1 <= MaxEntries
              /\ p \in walk.stack[Len(walk.stack)].todo
          BY <1>1, <1>2, <2>1
        <5>2. Advanced(before, walk, p, walk')
          BY <5>1, <3>5, WalkOn
        <5> QED BY <5>2 DEF Advanced
      <4> QED BY <4>1, <3>6
    <3>7. Removed(before, s) = Removed(before, walk.stack) \cup {p}
      BY <1>4, <2>5, <3>4, <3>6 DEF Removed
    <3>8. /\ Shape(tree') /\ DOMAIN tree' = DOMAIN tree \ {p}
          /\ \A q \in DOMAIN tree \ {p} : tree'[q] = tree[q]
      <4>1. \A q \in DOMAIN tree : Under(p, q) => q = p
        BY <1>1, <1>4, <2>5, LeafAlone
      <4> QED BY <1>1, <1>4, <3>1, <4>1, ShapeWithout
    <3>9. tree' = [q \in DOMAIN before \ Removed(before, s) |-> before[q]]
      <4>1. DOMAIN tree' = DOMAIN before \ Removed(before, s)
        BY <1>4, <3>7, <3>8
      <4>2. \A q \in DOMAIN tree' : tree'[q] = before[q]
        BY <1>4, <3>8
      <4>3. tree' = [q \in DOMAIN tree' |-> tree'[q]]
        BY <3>8 DEF Shape
      <4> QED BY <4>1, <4>2, <4>3
    <3>10. RemoveOk(tree', before, walk')
      BY <1>2, <2>2, <3>4, <3>6, <3>9 DEF RemoveOk
    <3> QED BY <1>1, <3>1, <3>6, <3>8, <3>10, RemovalGoes
  <2> QED BY <2>3, <2>4, <2>5
<1> QED BY <1>5, <1>6

\* Leaving a directory.
LEMMA AscendKeeps ==
    ASSUME TreeInv, Ascend
    PROVE  TreeInv'
<1> DEFINE s == SubSeq(walk.stack, 1, Len(walk.stack) - 1)
<1>1. /\ walk # NoWalk /\ walk.stack[Len(walk.stack)].todo = {} /\ Len(walk.stack) > 1
      /\ walk' = [walk EXCEPT !.stack = s]
      /\ UNCHANGED <<tree, maxFiles, accounted, valid, walked, before, edited>>
      /\ Shape(tree) /\ Walking(walk, tree, before, Limited)
  BY DEF Ascend, Top, Below, TreeInv
<1>2. walk \in Walks /\ walk.mode \in {"scan", "remove"}
  BY <1>1 DEF Walking, Walks
<1>3. ASSUME NEW t, StackOk(t, walk.stack)
      PROVE  StackOk(t, s) /\ Visited(t, s) = Visited(t, walk.stack)
  BY <1>1, <1>3, LeaveDir
<1> HIDE DEF s
<1>4. ASSUME s \in Seq(Frames)
      PROVE  /\ walk' \in Walks /\ walk'.stack = s /\ walk'.files = walk.files /\ walk'.visited = walk.visited
             /\ walk'.mode = walk.mode /\ walk'.call = walk.call /\ walk'.failed = walk.failed
  BY <1>1, <1>2, <1>4 DEF Walks
<1>5. ASSUME NEW t, WalkOk(t, walk)
      PROVE  /\ WalkOk(t, walk') /\ Visited(t, s) = Visited(t, walk.stack) /\ s \in Seq(Frames)
  <2>1. StackOk(t, s) /\ Visited(t, s) = Visited(t, walk.stack)
    BY <1>3, <1>5 DEF WalkOk
  <2>2. s \in Seq(Frames)
    BY <2>1 DEF StackOk
  <2>3. walk'.stack = s /\ walk'.visited = walk.visited
    BY <1>4, <2>2
  <2>4. WalkOk(t, walk')
    BY <1>5, <2>1, <2>3 DEF WalkOk
  <2> QED BY <2>1, <2>2, <2>4
<1>6. CASE walk.mode = "scan"
  <2>1. ScanOk(tree, walk, Limited)
    BY <1>1, <1>6 DEF Walking
  <2>2. WalkOk(tree, walk') /\ Visited(tree, s) = Visited(tree, walk.stack) /\ s \in Seq(Frames)
    BY <1>5, <2>1 DEF ScanOk
  <2>3. ScanOk(tree, walk', Limited)
    <3>1. walk'.stack = s /\ walk'.files = walk.files
      BY <1>4, <2>2
    <3>2. FilesOf(tree, s) = FilesOf(tree, walk.stack)
      BY <2>2 DEF FilesOf
    <3> QED BY <2>1, <2>2, <3>1, <3>2 DEF ScanOk
  <2> QED BY <1>1, <1>4, <1>6, <2>2, <2>3, ScanGoes
<1>7. CASE walk.mode = "remove"
  <2>1. RemoveOk(tree, before, walk)
    BY <1>1, <1>7 DEF Walking
  <2>2. WalkOk(before, walk') /\ Visited(before, s) = Visited(before, walk.stack) /\ s \in Seq(Frames)
    BY <1>5, <2>1 DEF RemoveOk
  <2>3. RemoveOk(tree', before, walk')
    <3>1. walk'.stack = s /\ walk'.files = walk.files /\ walk'.failed = walk.failed /\ walk'.call = walk.call
      BY <1>4, <2>2
    <3>2. Removed(before, s) = Removed(before, walk.stack)
      BY <2>2 DEF Removed
    <3> QED BY <1>1, <2>1, <2>2, <3>1, <3>2 DEF RemoveOk
  <2> QED BY <1>1, <1>4, <1>7, <2>2, <2>3, RemovalGoes
<1> QED BY <1>2, <1>6, <1>7

\* The end of a scan: the directory is as it was found.
LEMMA ScanEndsKeeps ==
    ASSUME TreeInv, ScanEnds
    PROVE  TreeInv'
<1>1. walk # NoWalk
  BY DEF ScanEnds, NoWalk
<1>2. /\ walk.mode = "scan" /\ walk.stack[Len(walk.stack)].todo = {} /\ Len(walk.stack) = 1
      /\ UNCHANGED <<tree, maxFiles, before>> /\ Shape(tree) /\ Walking(walk, tree, before, Limited)
      /\ accounted \in Nat /\ edited \in BOOLEAN /\ maxFiles \in FileLimits \cup {Unlimited}
  BY <1>1 DEF ScanEnds, Top, TreeInv
<1>3. walk \in Walks /\ ScanOk(tree, walk, Limited) /\ WalkOk(tree, walk) /\ walk.files \in Nat
      /\ walk.failed \in {"no", "limit", "io"} /\ walk.call \in {"prepare", "clear", "create"}
  BY <1>2 DEF Walking, ScanOk, Walks
<1>4. Visited(tree, walk.stack) = DOMAIN tree
  BY <1>2, <1>3, StackEnd DEF WalkOk
<1>5. Traversable(tree) /\ OfKind(tree, Links) = {}
  <2>1. Cardinality(DOMAIN tree) <= MaxEntries
    BY <1>3, <1>4 DEF WalkOk
  <2>2. ~TooDeep(tree)
    <3>1. \A q \in DOMAIN tree : tree[q] = "dir" => Len(q) <= MaxScanDepth /\ Len(q) \in Nat
      BY <1>2, <1>3, <1>4 DEF WalkOk, Shape
    <3> QED BY <3>1, TreeAssumption DEF TooDeep, OfKind
  <2>3. OfKind(tree, Links) = {}
    BY <1>3, <1>4 DEF ScanOk, OfKind
  <2> QED BY <2>1, <2>2, <2>3 DEF Traversable
<1>6. walk.files = IF Limited THEN Cardinality(OfKind(tree, {"file"})) ELSE 0
  <2>1. FilesOf(tree, walk.stack) = OfKind(tree, {"file"})
    BY <1>4 DEF FilesOf, OfKind
  <2> QED BY <1>3, <2>1 DEF ScanOk
<1>7. Scannable(tree)
  BY <1>5 DEF Scannable, Links
<1> DEFINE fits == Limited => walk.files <= maxFiles
<1>8. ASSUME walk.call = "clear"
      PROVE  /\ DOMAIN tree \subseteq DOMAIN before /\ OfKind(tree, {"dir"}) = OfKind(before, {"dir"})
             /\ walk.failed = "no" => /\ Traversable(before) /\ OfKind(tree, EntryKinds \ {"dir"}) = {}
                                       /\ walk.files = 0 /\ fits
             /\ walk.failed = "limit" => ~Traversable(before)
  <2>1. Cleared(tree, before, walk.failed)
    BY <1>2, <1>8 DEF Walking
  <2>2. ASSUME walk.failed = "no"
        PROVE  walk.files = 0 /\ fits
    <3>1. OfKind(tree, {"file"}) = {}
      BY <2>1, <2>2 DEF Cleared, OfKind, EntryKinds
    <3>2. walk.files = 0
      BY <1>6, <3>1, FS_EmptySet
    <3>3. Limited => maxFiles \in Nat
      BY <1>2, TreeAssumption DEF Limited
    <3> QED BY <3>2, <3>3
  <2> QED BY <2>1, <2>2 DEF Cleared
<1>9. walk.call = "prepare" => tree = before /\ walk.failed = "no"
  BY <1>2 DEF Walking
<1>10. CASE fits
  <2>1. /\ accounted' = walk.files /\ valid' = TRUE /\ edited' = FALSE
        /\ walk' = NoWalk /\ walked' = [call |-> walk.call, failed |-> walk.failed]
    BY <1>10 DEF ScanEnds, Ended
  <2>2. walked'.call = walk.call /\ walked'.failed = walk.failed
    BY <2>1
  <2>3. ScanExact'
    <3>1. SUFFICES ASSUME walk.call = "prepare"
                   PROVE  /\ tree = before /\ Scannable(tree) /\ walk.failed = "no"
                          /\ Limited => Cardinality(OfKind(tree, {"file"})) <= maxFiles
                          /\ walk.files = IF Limited THEN Cardinality(OfKind(tree, {"file"})) ELSE 0
      <4>1. Scannable(tree) => Scannable(tree)'
        BY <1>2 DEF Scannable, Traversable, TooDeep
      <4> QED BY <1>2, <2>1, <2>2, <3>1, <4>1 DEF ScanExact, CallEnded, Limited
    <3> QED BY <1>6, <1>7, <1>9, <1>10, <3>1
  <2>4. ClearMends'
    <3>1. ASSUME Traversable(before)' PROVE Traversable(before)
      BY <1>2, <3>1 DEF Traversable, TooDeep
    <3>2. ASSUME Traversable(before) PROVE Traversable(before)'
      BY <1>2, <3>2 DEF Traversable, TooDeep
    <3> HIDE DEF fits
    <3> QED BY <1>2, <1>3, <1>8, <2>1, <2>2, <3>1, <3>2 DEF ClearMends
  <2>5. Accounts(tree', Limited', accounted', maxFiles')
    <3>1. ~TooDeep(tree)
      BY <1>5 DEF Traversable
    <3> QED BY <1>2, <1>5, <1>6, <1>10, <2>1, <3>1 DEF Accounts, Limited
  <2> QED BY <1>2, <1>3, <2>1, <2>3, <2>4, <2>5 DEF TreeInv
<1>11. CASE ~fits
  <2> DEFINE f == IF walk.failed = "no" THEN "quota" ELSE walk.failed
  <2>1. /\ valid' = FALSE /\ UNCHANGED <<accounted, edited>>
        /\ walk' = NoWalk /\ walked' = [call |-> walk.call, failed |-> f]
    BY <1>11 DEF ScanEnds, Ended
  <2>2. walked'.call = walk.call /\ walked'.failed = f
    BY <2>1
  <2>3. ScanExact'
    <3>1. SUFFICES ASSUME walk.call = "prepare"
                   PROVE  /\ tree = before /\ f # "no"
                          /\ ~(Limited => Cardinality(OfKind(tree, {"file"})) <= maxFiles)
      BY <1>2, <2>1, <2>2, <3>1 DEF ScanExact, CallEnded, Limited
    <3> QED BY <1>6, <1>9, <1>11, <3>1
  <2>4. ClearMends'
    <3>1. ASSUME Traversable(before)' PROVE Traversable(before)
      BY <1>2, <3>1 DEF Traversable, TooDeep
    <3>2. walk.call = "clear" => walk.failed # "no"
      BY <1>8, <1>11
    <3> QED BY <1>2, <1>3, <1>8, <2>1, <2>2, <3>1, <3>2 DEF ClearMends
  <2> QED BY <1>2, <2>1, <2>3, <2>4 DEF TreeInv
<1> QED BY <1>10, <1>11

\* The end of a removal.
LEMMA RemovalEndsKeeps ==
    ASSUME TreeInv, RemovalEnds
    PROVE  TreeInv'
<1>1. walk # NoWalk
  BY DEF RemovalEnds, NoWalk
<1>2. /\ walk.mode = "remove" /\ walk.stack[Len(walk.stack)].todo = {} /\ Len(walk.stack) = 1
      /\ walk' = WalkOf(tree, "scan", walk.call, "no")
      /\ UNCHANGED <<tree, maxFiles, accounted, valid, walked, before, edited>>
      /\ Shape(tree) /\ Walking(walk, tree, before, Limited)
  BY <1>1 DEF RemovalEnds, Top, TreeInv
<1>3. RemoveOk(tree, before, walk) /\ WalkOk(before, walk) /\ Shape(before) /\ walk.call = "clear"
  BY <1>2 DEF Walking, RemoveOk
<1>4. Visited(before, walk.stack) = DOMAIN before
  BY <1>2, <1>3, StackEnd DEF WalkOk
<1>5. Traversable(before)
  <2>1. Cardinality(DOMAIN before) <= MaxEntries
    BY <1>3, <1>4 DEF WalkOk
  <2>2. ~TooDeep(before)
    <3>1. \A q \in DOMAIN before : before[q] = "dir" => Len(q) <= MaxScanDepth /\ Len(q) \in Nat
      BY <1>3, <1>4 DEF WalkOk, Shape
    <3> QED BY <3>1, TreeAssumption DEF TooDeep, OfKind
  <2> QED BY <2>1, <2>2 DEF Traversable
<1>6. Cleared(tree, before, "no")
  <2>1. /\ DOMAIN tree = DOMAIN before \ Removed(before, walk.stack) /\ DOMAIN tree \subseteq DOMAIN before
        /\ \A q \in DOMAIN tree : tree[q] = before[q]
        /\ OfKind(tree, {"dir"}) = OfKind(before, {"dir"})
    BY <1>3, LeftOver
  <2>2. OfKind(tree, EntryKinds \ {"dir"}) = {}
    BY <1>4, <2>1 DEF Removed, OfKind
  <2> QED BY <1>3, <1>5, <2>1, <2>2 DEF Cleared
<1>7. /\ walk' \in Walks /\ ScanOk(tree, walk', Limited)
      /\ walk'.mode = "scan" /\ walk'.call = "clear" /\ walk'.failed = "no"
  BY <1>2, <1>3, WalkStart
<1>8. Walking(walk', tree, before, Limited)
  BY <1>6, <1>7 DEF Walking
<1>9. walk' # NoWalk
  BY <1>7, UnderWay
<1> QED BY <1>2, <1>8, <1>9, NotAtEnd DEF TreeInv, Limited

\* The calls that begin with a traversal.
LEMMA StartKeeps ==
    ASSUME TreeInv, PrepareForRun \/ ClearOutputFiles
    PROVE  TreeInv'
<1>1. PICK mode \in {"scan", "remove"}, caller \in {"prepare", "clear"} :
         StartWalk(mode, caller) /\ (mode = "scan" <=> caller = "prepare")
  BY DEF PrepareForRun, ClearOutputFiles
<1>2. /\ walk' = WalkOf(tree, mode, caller, "no") /\ before' = tree
      /\ UNCHANGED <<tree, maxFiles, accounted, valid, walked, edited>> /\ Shape(tree)
  BY <1>1 DEF StartWalk, TreeInv
<1>3. /\ walk' \in Walks /\ WalkOk(tree, walk') /\ Visited(tree, walk'.stack) = {} /\ walk'.files = 0
      /\ walk'.mode = mode /\ walk'.call = caller /\ walk'.failed = "no" /\ ScanOk(tree, walk', Limited)
  BY <1>1, <1>2, WalkStart
<1>4. mode = "remove" => RemoveOk(tree, tree, walk')
  <2>1. Removed(tree, walk'.stack) = {}
    BY <1>3 DEF Removed
  <2>2. tree = [q \in DOMAIN tree |-> tree[q]]
    BY <1>2 DEF Shape
  <2> QED BY <1>1, <1>2, <1>3, <2>1, <2>2 DEF RemoveOk
<1>5. Walking(walk', tree', before', Limited')
  BY <1>1, <1>2, <1>3, <1>4 DEF Walking, Limited
<1>6. walk' # NoWalk
  BY <1>3, UnderWay
<1> QED BY <1>2, <1>5, <1>6, NotAtEnd DEF TreeInv

\* One file more, and the account of it.
LEMMA CountNew ==
    ASSUME NEW t, Shape(t), NEW p \in TreePaths \ DOMAIN t, IsDir(t, Parent(p)),
           NEW limited, NEW n \in Nat, NEW max, Accounts(t, limited, n, max),
           NEW m, m = (IF limited THEN n + 1 ELSE n), limited => n + 1 <= max
    PROVE  Accounts(With(t, p, "file"), limited, m, max)
<1> DEFINE u == With(t, p, "file")
           F == OfKind(t, {"file"})
<1>1. DOMAIN u = DOMAIN t \cup {p} /\ u[p] = "file" /\ \A q \in DOMAIN t : u[q] = t[q]
  BY ShapeWith DEF EntryKinds
<1> HIDE DEF u
<1>2. OfKind(u, Links) = OfKind(t, Links) /\ OfKind(u, {"dir"}) = OfKind(t, {"dir"})
      /\ OfKind(u, {"file"}) = F \cup {p}
  BY <1>1 DEF OfKind, Links
<1>3. Cardinality(F \cup {p}) = Cardinality(F) + 1
  <2>1. IsFiniteSet(F) /\ p \notin F
    BY EntriesFinite DEF OfKind
  <2> HIDE DEF F
  <2> QED BY <2>1, FS_AddElement
<1>4. limited => n = Cardinality(F)
  BY DEF Accounts
<1> HIDE DEF F
<1>5. OfKind(u, Links) = {} /\ ~TooDeep(u)
  BY <1>2 DEF Accounts, TooDeep
<1>6. Accounts(u, limited, m, max)
  BY <1>2, <1>3, <1>4, <1>5 DEF Accounts
<1> QED BY <1>6 DEF u

\* A new file, or an error on the way to it.
LEMMA CreateKeeps ==
    ASSUME TreeInv, NEW files \in SUBSET Free, Create(files)
    PROVE  TreeInv'
<1>1. /\ walk = NoWalk /\ valid /\ (Limited => accounted + 1 <= maxFiles)
      /\ walked' = NotWalked /\ before' = <<>> /\ UNCHANGED <<maxFiles, valid, edited>>
      /\ Shape(tree) /\ accounted \in Nat /\ valid \in BOOLEAN /\ edited \in BOOLEAN
      /\ maxFiles \in FileLimits \cup {Unlimited}
  BY DEF Create, TreeInv
<1>2. ScanExact' /\ ClearMends' /\ Limited' = Limited
  BY <1>1, NotAtEnd DEF Limited
<1>3. \A p \in files : p \in TreePaths \ DOMAIN tree /\ IsDir(tree, Parent(p))
  BY DEF Free
<1>4. ASSUME NEW p \in files PROVE Shape(With(tree, p, "file"))
  <2>1. p \in TreePaths \ DOMAIN tree /\ IsDir(tree, Parent(p)) /\ "file" \in EntryKinds
    BY <1>3 DEF EntryKinds
  <2> QED BY <1>1, <2>1, ShapeWith
<1>5. ASSUME NEW t, Shape(t), Reconcile(t) PROVE TreeInv'
  <2>1. tree' = t /\ walk' = WalkOf(t, "scan", "create", "no") /\ accounted' = accounted
    BY <1>5 DEF Reconcile
  <2>2. /\ walk' \in Walks /\ ScanOk(t, walk', Limited)
        /\ walk'.mode = "scan" /\ walk'.call = "create" /\ walk'.failed = "no"
    BY <1>5, <2>1, WalkStart
  <2>3. Walking(walk', t, before', Limited)
    BY <2>2 DEF Walking
  <2>4. walk' # NoWalk
    BY <2>2, UnderWay
  <2> QED BY <1>1, <1>2, <1>5, <2>1, <2>3, <2>4 DEF TreeInv
<1>6. ASSUME NEW p \in files, tree' = With(tree, p, "file"),
             accounted' = IF Limited THEN accounted + 1 ELSE accounted, UNCHANGED walk
      PROVE  TreeInv'
  <2>1. accounted' \in Nat /\ Shape(tree')
    BY <1>1, <1>4, <1>6
  <2>2. ~edited => Accounts(tree', Limited, accounted', maxFiles)
    <3>1. ASSUME ~edited PROVE Accounts(tree, Limited, accounted, maxFiles)
      BY <1>1, <3>1 DEF TreeInv
    <3>2. p \in TreePaths \ DOMAIN tree /\ IsDir(tree, Parent(p))
      BY <1>3
    <3>3. ASSUME ~edited PROVE Accounts(With(tree, p, "file"), Limited, accounted', maxFiles)
      BY <1>1, <1>6, <3>1, <3>2, <3>3, CountNew
    <3> QED BY <1>6, <3>3
  <2> QED BY <1>1, <1>2, <1>6, <2>1, <2>2 DEF TreeInv
<1> QED BY <1>1, <1>4, <1>5, <1>6 DEF Create

\* Files that the calls make, where they can be made.
LEMMA CallsKeep ==
    ASSUME TreeInv, (\E n \in EntryNames : OpenAt(n)) \/ (\E path \in GuestPaths : WriteOutputPath(path))
    PROVE  TreeInv'
<1>1. ASSUME NEW n \in EntryNames, OpenAt(n) PROVE \E files \in SUBSET Free : Create(files)
  <2>1. CASE <<n>> \notin DOMAIN tree
    <3>1. Create({<<n>>})
      BY <1>1, <2>1 DEF OpenAt, IsLink
    <3>2. <<n>> \in TreePaths
      <4> DEFINE Level(k) == {c \in [1 .. k -> EntryNames] : \A i \in 2 .. k : c[i] \in NestedNames}
      <4>1. <<n>> \in Level(1)
        OBVIOUS
      <4>2. 1 \in 1 .. MaxScanDepth + 1
        BY TreeAssumption
      <4> HIDE DEF Level
      <4>3. <<n>> \in UNION {Level(k) : k \in 1 .. MaxScanDepth + 1}
        BY <4>1, <4>2
      <4> QED BY <4>3 DEF TreePaths, Level
    <3>3. IsDir(tree, Parent(<<n>>))
      BY DEF IsDir, Parent
    <3> QED BY <2>1, <3>1, <3>2, <3>3 DEF Free
  <2>2. CASE <<n>> \in DOMAIN tree
    BY <1>1, <2>2 DEF OpenAt
  <2> QED BY <2>1, <2>2
<1>2. ASSUME NEW path \in GuestPaths, WriteOutputPath(path) PROVE \E files \in SUBSET Free : Create(files)
  <2>1. \/ Create(Free)
        \/ NormalizePath(path) \in Free /\ Create({NormalizePath(path)})
        \/ Create({})
    BY <1>2 DEF WriteOutputPath
  <2> QED BY <2>1
<1> QED BY <1>1, <1>2, CreateKeeps

\* Other processes between the calls.
LEMMA HostKeeps ==
    ASSUME TreeInv, HostEdit
    PROVE  TreeInv'
<1>1. /\ walk = NoWalk /\ edited' = TRUE /\ walked' = NotWalked /\ UNCHANGED <<maxFiles, accounted, valid, walk>>
      /\ Shape(tree)
  BY DEF HostEdit, TreeInv
<1>2. Shape(tree')
  <2>1. PICK p \in TreePaths :
           \/ /\ p \notin DOMAIN tree /\ IsDir(tree, Parent(p))
              /\ \E kind \in EntryKinds : tree' = With(tree, p, kind)
           \/ p \in DOMAIN tree /\ Children(tree, p) = {} /\ tree' = WithoutEntry(tree, p)
    BY DEF HostEdit
  <2>2. CASE p \notin DOMAIN tree /\ IsDir(tree, Parent(p)) /\ \E kind \in EntryKinds : tree' = With(tree, p, kind)
    <3>1. PICK kind \in EntryKinds : tree' = With(tree, p, kind)
      BY <2>2
    <3>2. Shape(With(tree, p, kind))
      BY <1>1, <2>2, ShapeWith
    <3> QED BY <3>1, <3>2
  <2>3. CASE p \in DOMAIN tree /\ Children(tree, p) = {} /\ tree' = WithoutEntry(tree, p)
    <3>1. p \in Seq(EntryNames)
      BY <1>1, <2>3 DEF Shape
    <3>2. \A q \in DOMAIN tree : Under(p, q) => q = p
      BY <1>1, <2>3, <3>1, UnderChild
    <3> QED BY <1>1, <2>3, <3>2, ShapeWithout
  <2> QED BY <2>1, <2>2, <2>3
<1> QED BY <1>1, <1>2, NotAtEnd DEF TreeInv

-----------------------------------------------------------------------------

\* The invariant of the tree.
THEOREM TreeInvariant == TreeSpec => []TreeInv
<1>1. TreeInit => TreeInv
  <2> SUFFICES ASSUME TreeInit PROVE TreeInv
    OBVIOUS
  <2>1. /\ tree = <<>> /\ before = <<>> /\ maxFiles \in FileLimits \cup {Unlimited}
        /\ accounted = 0 /\ valid = TRUE /\ edited = FALSE /\ walk = NoWalk /\ walked = NotWalked
    BY DEF TreeInit
  <2>2. DOMAIN tree = {}
    BY <2>1
  <2>3. Shape(tree)
    BY <2>1, <2>2, FS_EmptySet DEF Shape
  <2>4. \A kinds : OfKind(tree, kinds) = {}
    BY <2>2 DEF OfKind
  <2>5. Accounts(tree, Limited, accounted, maxFiles)
    <3>1. Limited => 0 <= maxFiles
      BY <2>1, TreeAssumption DEF Limited
    <3>2. OfKind(tree, {"dir"}) = {} /\ OfKind(tree, {"file"}) = {} /\ OfKind(tree, Links) = {}
      BY <2>4
    <3> QED BY <2>1, <3>1, <3>2, FS_EmptySet DEF Accounts, TooDeep
  <2>6. ScanExact /\ ClearMends
    BY <2>1 DEF ScanExact, ClearMends, CallEnded, NotWalked
  <2> QED BY <2>1, <2>3, <2>5, <2>6 DEF TreeInv
<1>2. TreeInv /\ [TreeNext]_treeVars => TreeInv'
  <2> SUFFICES ASSUME TreeInv, [TreeNext]_treeVars PROVE TreeInv'
    OBVIOUS
  <2>1. CASE PrepareForRun \/ ClearOutputFiles
    BY <2>1, StartKeeps
  <2>2. ASSUME NEW p \in TreePaths, Visit(p) PROVE TreeInv'
    <3>1. walk.mode \in {"scan", "remove"}
      BY <2>2 DEF Visit, TreeInv, Walking, Walks
    <3> QED BY <2>2, <3>1, ScanKeeps, RemoveKeeps
  <2>3. CASE Ascend
    BY <2>3, AscendKeeps
  <2>4. CASE ScanEnds
    BY <2>4, ScanEndsKeeps
  <2>5. CASE RemovalEnds
    BY <2>5, RemovalEndsKeeps
  <2>6. CASE IoError
    BY <2>6, FailKeeps DEF IoError
  <2>7. CASE (\E n \in EntryNames : OpenAt(n)) \/ (\E path \in GuestPaths : WriteOutputPath(path))
    BY <2>7, CallsKeep
  <2>8. CASE HostEdit
    BY <2>8, HostKeeps
  <2>9. CASE UNCHANGED treeVars
    <3>1. /\ tree' = tree /\ maxFiles' = maxFiles /\ accounted' = accounted /\ valid' = valid /\ walk' = walk
          /\ walked' = walked /\ before' = before /\ edited' = edited
      BY <2>9 DEF treeVars
    <3>2. Limited' = Limited
      BY <3>1 DEF Limited
    <3>3. ScanExact' /\ ClearMends'
      <4>1. ScanExact /\ ClearMends
        BY DEF TreeInv
      <4>2. (Scannable(tree)' <=> Scannable(tree)) /\ (Traversable(before)' <=> Traversable(before))
        BY <3>1 DEF Scannable, Traversable, TooDeep
      <4> QED BY <3>1, <3>2, <4>1, <4>2 DEF ScanExact, ClearMends, CallEnded
    <3> QED BY <3>1, <3>2, <3>3 DEF TreeInv
  <2> QED BY <2>1, <2>2, <2>3, <2>4, <2>5, <2>6, <2>7, <2>8, <2>9 DEF TreeNext
<1> QED BY <1>1, <1>2, PTL DEF TreeSpec

\* The scan for the quota and the removal of a clear agree on what they can
\* traverse, and the calls between them leave it so.
THEOREM TreeCorrect == TreeSpec => []WalksAgree
<1>1. TreeInv => WalksAgree
  <2> SUFFICES ASSUME TreeInv PROVE WalksAgree
    OBVIOUS
  <2>1. CallsKeepScannable
    <3> DEFINE n == Cardinality(OfKind(tree, {"file"}))
               c == Cardinality(DOMAIN tree)
    <3>1. SUFFICES ASSUME valid, ~edited, walk = NoWalk, Limited, c - n + maxFiles <= MaxEntries
                   PROVE  Scannable(tree)
      BY DEF CallsKeepScannable
    <3>2. Accounts(tree, Limited, accounted, maxFiles) /\ maxFiles \in FileLimits
      BY <3>1 DEF TreeInv, Limited
    <3>3. OfKind(tree, Links) = {} /\ ~TooDeep(tree) /\ n <= maxFiles
      BY <3>1, <3>2 DEF Accounts
    <3>4. c \in Nat /\ n \in Nat /\ maxFiles \in Nat /\ MaxEntries \in Nat
      <4>1. Shape(tree) /\ OfKind(tree, {"file"}) \subseteq DOMAIN tree
        BY DEF TreeInv, OfKind
      <4> QED BY <3>2, <4>1, EntriesFinite, TreeAssumption
    <3> HIDE DEF n, c
    <3>5. c <= MaxEntries
      BY <3>1, <3>3, <3>4
    <3> QED BY <3>3, <3>5 DEF Scannable, Traversable, Links, c
  <2> QED BY <2>1 DEF TreeInv, WalksAgree
<1> QED BY <1>1, TreeInvariant, PTL

-----------------------------------------------------------------------------
(* Values of JSON.                                                         *)

\* What a JSON value is, by its type.
LEMMA JsonTypes ==
    ASSUME NEW v \in Values
    PROVE  /\ v.t \in AnyType
           /\ v.t = "null"    => v = Null
           /\ v.t = "boolean" => v.bool \in BOOLEAN /\ v = Bool(v.bool)
           /\ v.t = "number"  => v.class \in {"i64", "u64", "float"} /\ v = Number(v.class, v.digits)
           /\ v.t = "array"   => v.items = [i \in DOMAIN v.items |-> v.items[i]] /\ v = Array(v.items)
           /\ v.t = "object"  => v.fields = [n \in DOMAIN v.fields |-> v.fields[n]] /\ v = Object(v.fields)
<1>1. IsJson(v)
  BY ValuesAssumption
<1>2. v.t = "array" => v.items = [i \in 1 .. Len(v.items) |-> v.items[i]] /\ v = Array(v.items)
  BY <1>1 DEF IsJson
<1>3. v.t = "array" => v.items = [i \in DOMAIN v.items |-> v.items[i]]
  BY <1>2
<1> QED BY <1>1, <1>2, <1>3 DEF IsJson, AnyType

\* What is in a value is a value, and less nested.
LEMMA PartsInside ==
    ASSUME NEW v \in Values
    PROVE  /\ \A w \in Parts(v) : w \in Values /\ Nesting[w] \in Nat /\ Nesting[w] < Nesting[v]
           /\ v.t = "array" => \A i \in DOMAIN v.items : v.items[i] \in Parts(v)
           /\ v.t = "object" => \A n \in DOMAIN v.fields : v.fields[n] \in Parts(v)
  BY ValuesAssumption DEF Parts

-----------------------------------------------------------------------------
(* Tool calls.                                                             *)

\* A type and what it stands for, where it is known.
LEMMA TypeOfName ==
    ASSUME NEW name, name # "Annotated[int]"
    PROVE  /\ PyTypes(name) = IF TypeObjToArgType(name) = NoType THEN AnyType ELSE {TypeObjToArgType(name)}
           /\ AnyType # {TypeObjToArgType(name)}
  BY DEF PyTypes, TypeObjToArgType, NoType, AnyType

\* The same for an annotation.
LEMMA TypeOfAnnotation ==
    ASSUME NEW a
    PROVE  LET type == InferTypeFromAnnotation(a)
           IN  /\ PyTypes(a) = IF type = NoType THEN AnyType ELSE {type}
               /\ AnyType # {type}
<1>1. CASE a = "Annotated[int]"
  <2>1. InferTypeFromAnnotation(a) = "number" /\ "number" # NoType
    BY <1>1 DEF InferTypeFromAnnotation, TypeObjToArgType, NoType
  <2>2. PyTypes(a) = {"number"}
    BY <1>1 DEF PyTypes
  <2>3. AnyType # {"number"}
    BY DEF AnyType
  <2> QED BY <2>1, <2>2, <2>3
<1>2. CASE a # "Annotated[int]"
  BY <1>2, TypeOfName DEF InferTypeFromAnnotation
<1> QED BY <1>1, <1>2

\* The type of a parameter as infer_tool_schema finds it.
ParameterType(p) ==
    IF InferTypeFromAnnotation(p.annotation) # NoType \/ p.default = "required"
    THEN InferTypeFromAnnotation(p.annotation) ELSE PyValueToArgType(p.default)

\* It is the type the declaration asks for.
LEMMA TypeAsked ==
    ASSUME NEW p \in Parameters
    PROVE  ParameterTypes(p) = IF ParameterType(p) = NoType THEN AnyType ELSE {ParameterType(p)}
<1> DEFINE a == InferTypeFromAnnotation(p.annotation)
           d == TypeObjToArgType(p.default)
<1>1. PyTypes(p.annotation) = (IF a = NoType THEN AnyType ELSE {a}) /\ AnyType # {a}
  BY TypeOfAnnotation
<1>2. PyTypes(p.default) = IF d = NoType THEN AnyType ELSE {d}
  BY TypeOfName, RegistryAssumption DEF Parameters
<1>3. p.default = "required" => d = NoType
  BY DEF TypeObjToArgType
<1>4. ParameterType(p) = IF a # NoType \/ p.default = "required" THEN a ELSE d
  BY DEF ParameterType, PyValueToArgType
<1>5. ParameterTypes(p) = IF PyTypes(p.annotation) # AnyType THEN PyTypes(p.annotation) ELSE PyTypes(p.default)
  BY DEF ParameterTypes
<1> HIDE DEF a, d
<1>6. CASE a # NoType
  BY <1>1, <1>4, <1>5, <1>6
<1>7. CASE a = NoType
  BY <1>1, <1>2, <1>3, <1>4, <1>5, <1>7
<1> QED BY <1>6, <1>7

\* What the builder adds to an empty schema.
LEMMA Added ==
    ASSUME NEW n, NEW type
    PROVE  /\ Empty.properties = <<>> /\ DOMAIN Empty.properties = {} /\ Empty.required = {}
           /\ LET s == OptionalArg(Empty, n, type)
              IN  DOMAIN s.properties = {n} /\ s.properties[n] = type /\ s.required = {}
           /\ LET s == RequiredArg(Empty, n, type)
              IN  DOMAIN s.properties = {n} /\ s.properties[n] = type /\ s.required = {n}
           /\ LET s == RequiredUntyped(Empty, n)
              IN  DOMAIN s.properties = {} /\ s.required = {n}
<1>1. Empty.properties = <<>> /\ DOMAIN Empty.properties = {} /\ Empty.required = {}
  BY DEF Empty
<1> DEFINE f == [m \in DOMAIN Empty.properties \cup {n} |-> IF m = n THEN type ELSE Empty.properties[m]]
<1>2. DOMAIN f = {n} /\ f[n] = type
  BY <1>1
<1>3. Typed(Empty, n, type) = [properties |-> f, required |-> {}]
  <2>1. Typed(Empty, n, type) = [Empty EXCEPT !.properties = f]
    BY DEF Typed
  <2> HIDE DEF f
  <2> QED BY <2>1 DEF Empty
<1> HIDE DEF f
<1>4. /\ Typed(Empty, n, type).properties = f /\ Typed(Empty, n, type).required = {}
      /\ RequiredUntyped(Typed(Empty, n, type), n).properties = f
      /\ RequiredUntyped(Typed(Empty, n, type), n).required = {n}
  BY <1>3 DEF RequiredUntyped
<1>5. RequiredUntyped(Empty, n).properties = <<>> /\ RequiredUntyped(Empty, n).required = {n}
  BY DEF RequiredUntyped, Empty
<1> QED BY <1>1, <1>2, <1>4, <1>5 DEF OptionalArg, RequiredArg

\* The schema of one parameter.
ParameterOk(p, n, s) ==
    /\ DOMAIN s.properties = IF p.kind = "named" /\ ParameterType(p) # NoType THEN {n} ELSE {}
    /\ s.required = IF p.kind = "named" /\ p.default = "required" THEN {n} ELSE {}
    /\ n \in DOMAIN s.properties => s.properties[n] = ParameterType(p)

\* It is what infer_tool_schema makes of the parameter.
LEMMA ParameterSchema ==
    ASSUME NEW p \in Parameters, NEW n
    PROVE  LET s == InferParameter(Empty, n, p)
           IN  ParameterOk(p, n, s)
<1> DEFINE t == ParameterType(p)
           s == InferParameter(Empty, n, p)
<1>1. p.kind \in {"named", "*args", "**kwargs"}
  BY RegistryAssumption DEF Parameters
<1>2. s = IF p.kind \in {"*args", "**kwargs"} THEN Empty
          ELSE CASE p.default = "required" /\ t # NoType -> RequiredArg(Empty, n, t)
                 [] p.default = "required" /\ t = NoType -> RequiredUntyped(Empty, n)
                 [] p.default # "required" /\ t # NoType -> OptionalArg(Empty, n, t)
                 [] OTHER -> Empty
  BY DEF InferParameter, ParameterType
<1> HIDE DEF t, s
<1>3. CASE p.kind # "named"
  <2>1. s = Empty
    BY <1>1, <1>2, <1>3
  <2> QED BY <1>3, <2>1, Added DEF t, s, ParameterOk
<1>4. CASE p.kind = "named"
  <2>1. CASE p.default = "required" /\ t # NoType
    <3>1. s = RequiredArg(Empty, n, t)
      BY <1>2, <1>4, <2>1
    <3> QED BY <1>4, <2>1, <3>1, Added DEF t, s, ParameterOk
  <2>2. CASE p.default = "required" /\ t = NoType
    <3>1. s = RequiredUntyped(Empty, n)
      BY <1>2, <1>4, <2>2
    <3> QED BY <1>4, <2>2, <3>1, Added DEF t, s, ParameterOk
  <2>3. CASE p.default # "required" /\ t # NoType
    <3>1. s = OptionalArg(Empty, n, t)
      BY <1>2, <1>4, <2>3
    <3> QED BY <1>4, <2>3, <3>1, Added DEF t, s, ParameterOk
  <2>4. CASE p.default # "required" /\ t = NoType
    <3>1. s = Empty
      BY <1>2, <1>4, <2>4
    <3> QED BY <1>4, <2>4, <3>1, Added DEF t, s, ParameterOk
  <2> QED BY <2>1, <2>2, <2>3, <2>4
<1> QED BY <1>3, <1>4

\* The types JSON has.
WellTyped(args) == args.t = "object" => \A n \in DOMAIN args.fields : args.fields[n].t \in AnyType

\* The schema of a signature accepts just what fits the signature.
LEMMA PythonFits ==
    ASSUME NEW signature \in PartialFunctions(Arguments, Parameters), NEW args, WellTyped(args)
    PROVE  Validate(InferToolSchema(signature), args)
             <=> args.t = "object" /\ FitsPython(signature, args.fields)
<1>1. PICK D \in SUBSET Arguments : signature \in [D -> Parameters]
  BY DEF PartialFunctions
<1>2. DOMAIN signature = D /\ \A n \in D : signature[n] \in Parameters
  BY <1>1
<1> DEFINE s(n) == InferParameter(Empty, n, signature[n])
           schema == InferToolSchema(signature)
           typed == {n \in D : signature[n].kind = "named" /\ ParameterType(signature[n]) # NoType}
           needed == {n \in D : signature[n].kind = "named" /\ signature[n].default = "required"}
<1>3. \A n \in D : /\ DOMAIN s(n).properties = IF n \in typed THEN {n} ELSE {}
                   /\ s(n).required = IF n \in needed THEN {n} ELSE {}
                   /\ n \in typed => s(n).properties[n] = ParameterType(signature[n])
  <2> TAKE n \in D
  <2>1. ParameterOk(signature[n], n, s(n))
    BY <1>2, ParameterSchema
  <2> HIDE DEF s
  <2>2. n \in typed <=> signature[n].kind = "named" /\ ParameterType(signature[n]) # NoType
    OBVIOUS
  <2>3. n \in needed <=> signature[n].kind = "named" /\ signature[n].default = "required"
    OBVIOUS
  <2> HIDE DEF typed, needed
  <2> QED BY <2>1, <2>2, <2>3 DEF ParameterOk
<1>4. schema = AllOf([n \in D |-> s(n)])
  BY <1>2 DEF InferToolSchema
<1> HIDE DEF s, schema, typed, needed
<1>5. /\ schema.properties = [n \in {n \in D : n \in DOMAIN s(n).properties} |-> s(n).properties[n]]
      /\ schema.required = UNION {s(n).required : n \in D}
  BY <1>4 DEF AllOf
<1>6. typed \subseteq D /\ needed \subseteq D
  BY DEF typed, needed
<1>7. {n \in D : n \in DOMAIN s(n).properties} = typed
  BY <1>3, <1>6
<1>8. DOMAIN schema.properties = typed /\ \A n \in typed : schema.properties[n] = ParameterType(signature[n])
  BY <1>3, <1>5, <1>6, <1>7
<1>9. schema.required = needed
  <2>1. \A x : x \in schema.required <=> \E n \in D : x \in s(n).required
    BY <1>5
  <2>2. \A n \in D : \A x : x \in s(n).required <=> x = n /\ n \in needed
    <3> TAKE n \in D
    <3>1. s(n).required = IF n \in needed THEN {n} ELSE {}
      BY <1>3
    <3> HIDE DEF s, needed
    <3> QED BY <3>1
  <2>3. \A x : x \in schema.required <=> x \in needed
    BY <1>6, <2>1, <2>2
  <2> HIDE DEF schema, needed
  <2> QED BY <2>3
<1>10. ASSUME args.t = "object"
       PROVE  Validate(schema, args) <=> FitsPython(signature, args.fields)
  <2> DEFINE fields == args.fields
  <2>1. Validate(schema, args) <=>
          needed \subseteq DOMAIN fields /\ \A n \in typed \cap DOMAIN fields : fields[n].t = ParameterType(signature[n])
    BY <1>8, <1>9, <1>10 DEF Validate
  <2>2. FitsPython(signature, fields) <=>
          \A n \in D : signature[n].kind = "named" =>
            /\ signature[n].default = "required" => n \in DOMAIN fields
            /\ n \in DOMAIN fields => fields[n].t \in ParameterTypes(signature[n])
    BY <1>2 DEF FitsPython
  <2>3. \A n \in DOMAIN fields : fields[n].t \in AnyType
    BY <1>10 DEF WellTyped
  <2> HIDE DEF fields
  <2>4. ASSUME NEW n \in D, n \in DOMAIN fields, signature[n].kind = "named"
        PROVE  fields[n].t \in ParameterTypes(signature[n])
                 <=> (n \in typed => fields[n].t = ParameterType(signature[n]))
    <3>1. ParameterTypes(signature[n]) =
            IF ParameterType(signature[n]) = NoType THEN AnyType ELSE {ParameterType(signature[n])}
      BY <1>2, TypeAsked
    <3> QED BY <2>3, <2>4, <3>1 DEF typed
  <2>5. needed \subseteq DOMAIN fields <=>
          \A n \in D : signature[n].kind = "named" /\ signature[n].default = "required" => n \in DOMAIN fields
    BY DEF needed
  <2>6. (\A n \in typed \cap DOMAIN fields : fields[n].t = ParameterType(signature[n])) <=>
          (\A n \in D : signature[n].kind = "named" /\ n \in DOMAIN fields
                          => fields[n].t \in ParameterTypes(signature[n]))
    BY <1>6, <2>4 DEF typed
  <2> QED BY <2>1, <2>2, <2>5, <2>6 DEF fields
<1>11. args.t # "object" => ~Validate(schema, args)
  BY DEF Validate
<1> QED BY <1>10, <1>11 DEF schema

\* The types of .NET, through the names the two sides give them.
LEMMA DotnetTypeOf ==
    ASSUME NEW type
    PROVE  PropertyTypes(type) = {LowerType(MapType(type))}
  BY DEF PropertyTypes, LowerType, MapType

\* The schema of .NET properties accepts just what fits them.
LEMMA DotnetFits ==
    ASSUME NEW properties \in PartialFunctions(Arguments, DotnetTypes), NEW args
    PROVE  Validate(ParseToolSchema(BuildSchema(properties)), args)
             <=> args.t = "object" /\ FitsDotnet(properties, args.fields)
<1> DEFINE D == DOMAIN properties
           type(n) == LowerType(MapType(properties[n]))
           json == BuildSchema(properties)
           schema == ParseToolSchema(json)
           s(n) == OptionalArg(Empty, n, type(n))
           optional == AllOf([n \in D |-> s(n)])
<1>1. json.args = [n \in D |-> MapType(properties[n])] /\ json.required = D
  BY DEF BuildSchema
<1>2. schema = [optional EXCEPT !.required = @ \cup D]
  <2>1. DOMAIN json.args = D /\ \A n \in D : LowerType(json.args[n]) = type(n)
    BY <1>1
  <2> HIDE DEF json
  <2>2. [n \in DOMAIN json.args |-> OptionalArg(Empty, n, LowerType(json.args[n]))] = [n \in D |-> s(n)]
    BY <2>1
  <2> QED BY <1>1, <2>2 DEF ParseToolSchema
<1>3. \A n \in D : DOMAIN s(n).properties = {n} /\ s(n).properties[n] = type(n) /\ s(n).required = {}
  BY Added
<1>4. optional = [properties |-> [n \in {n \in D : n \in DOMAIN s(n).properties} |-> s(n).properties[n]],
                  required |-> UNION {s(n).required : n \in D}]
  BY DEF AllOf
<1> HIDE DEF s, schema, optional, type, json
<1>5. /\ schema.properties = [n \in {n \in D : n \in DOMAIN s(n).properties} |-> s(n).properties[n]]
      /\ schema.required = (UNION {s(n).required : n \in D}) \cup D
  BY <1>2, <1>4
<1>6. {n \in D : n \in DOMAIN s(n).properties} = D /\ UNION {s(n).required : n \in D} = {}
  <2>1. \A x : x \in UNION {s(n).required : n \in D} <=> \E n \in D : x \in s(n).required
    OBVIOUS
  <2>2. UNION {s(n).required : n \in D} = {}
    BY <1>3, <2>1
  <2>3. {n \in D : n \in DOMAIN s(n).properties} = D
    BY <1>3
  <2> QED BY <2>2, <2>3
<1>7. /\ DOMAIN schema.properties = D /\ schema.required = D
      /\ \A n \in D : schema.properties[n] = type(n)
  BY <1>3, <1>5, <1>6
<1>8. \A n \in D : PropertyTypes(properties[n]) = {type(n)}
  BY DotnetTypeOf DEF type
<1>9. Validate(schema, args) <=>
        args.t = "object" /\ D \subseteq DOMAIN args.fields /\ \A n \in D \cap DOMAIN args.fields : args.fields[n].t = type(n)
  BY <1>7 DEF Validate
<1>10. FitsDotnet(properties, args.fields) <=>
         \A n \in D : n \in DOMAIN args.fields /\ args.fields[n].t = type(n)
  BY <1>8 DEF FitsDotnet
<1> QED BY <1>9, <1>10 DEF schema, json

\* The arguments of calls have types of JSON, and so do their fields.
LEMMA ArgsTyped ==
    ASSUME NEW args \in Values
    PROVE  WellTyped(args)
  BY PartsInside, JsonTypes DEF WellTyped

\* What can be registered.
RawTool == [sdk |-> "raw"]
PythonTool(signature) == [sdk |-> "python", signature |-> signature]
DotnetTool(properties) == [sdk |-> "dotnet", properties |-> properties]
Declarations ==
    {NoTool, RawTool}
      \cup {PythonTool(s) : s \in PartialFunctions(Arguments, Parameters)}
      \cup {DotnetTool(q) : q \in PartialFunctions(Arguments, DotnetTypes)}

\* What they hold.
LEMMA ToolFields ==
    /\ NoTool.sdk = "none" /\ RawTool.sdk = "raw"
    /\ \A s : PythonTool(s).sdk = "python" /\ PythonTool(s).signature = s
    /\ \A q : DotnetTool(q).sdk = "dotnet" /\ DotnetTool(q).properties = q
  BY DEF NoTool, RawTool, PythonTool, DotnetTool

\* A call reaches the handler just when it fits.
LEMMA AnswerFits ==
    ASSUME NEW name, NEW tool \in Declarations, tools[name] = tool, NEW args \in Values,
           tool.sdk \in {"python", "dotnet"}, Answer(name, args) # "too large"
    PROVE  Answer(name, args) = "handled" <=> Fits(tool, args)
<1>1. tool # NoTool /\ tool.sdk # "raw"
  BY ToolFields
<1>2. Answer(name, args) = "handled" <=> Validate(Schema(tool), args)
  BY <1>1 DEF Answer
<1>3. WellTyped(args)
  BY ArgsTyped
<1>4. \/ \E s \in PartialFunctions(Arguments, Parameters) : tool = PythonTool(s)
      \/ \E q \in PartialFunctions(Arguments, DotnetTypes) : tool = DotnetTool(q)
  BY ToolFields DEF Declarations
<1>5. ASSUME NEW s \in PartialFunctions(Arguments, Parameters), tool = PythonTool(s)
      PROVE  Answer(name, args) = "handled" <=> Fits(tool, args)
  <2>1. tool.signature = s /\ tool.sdk = "python"
    BY <1>5, ToolFields
  <2>2. Schema(tool) = InferToolSchema(s)
    BY <2>1 DEF Schema
  <2>3. Fits(tool, args) <=> args.t = "object" /\ FitsPython(s, args.fields)
    BY <2>1 DEF Fits
  <2> QED BY <1>2, <1>3, <2>2, <2>3, PythonFits
<1>6. ASSUME NEW q \in PartialFunctions(Arguments, DotnetTypes), tool = DotnetTool(q)
      PROVE  Answer(name, args) = "handled" <=> Fits(tool, args)
  <2>1. tool.properties = q /\ tool.sdk = "dotnet"
    BY <1>6, ToolFields
  <2>2. Schema(tool) = ParseToolSchema(BuildSchema(q))
    BY <2>1 DEF Schema
  <2>3. Fits(tool, args) <=> args.t = "object" /\ FitsDotnet(q, args.fields)
    BY <2>1 DEF Fits
  <2> QED BY <1>2, <2>2, <2>3, DotnetFits
<1> QED BY <1>4, <1>5, <1>6

\* A handler is called with just the arguments that fit its declaration,
\* whichever SDK turned that into a schema and back.
THEOREM DispatchCorrect == RegistrySpec => []DispatchByDeclaration
<1> DEFINE RInv == tools \in [Names -> Declarations] /\ DispatchByDeclaration
<1>1. RegistryInit => RInv
  <2> SUFFICES ASSUME RegistryInit PROVE RInv
    OBVIOUS
  <2>1. tools \in [Names -> Declarations]
    BY DEF RegistryInit, Declarations
  <2>2. call.answer = "none"
    BY DEF RegistryInit
  <2> QED BY <2>1, <2>2 DEF DispatchByDeclaration
<1>2. RInv /\ [RegistryNext]_registryVars => RInv'
  <2> SUFFICES ASSUME RInv, [RegistryNext]_registryVars PROVE RInv'
    OBVIOUS
  <2>1. ASSUME call' = call PROVE DispatchByDeclaration'
    BY <2>1 DEF DispatchByDeclaration, Fits, FitsPython, FitsDotnet
  <2>2. ASSUME NEW name \in Names, NEW tool \in Declarations, RegisterWithSchema(name, tool) PROVE RInv'
    BY <2>1, <2>2 DEF RegisterWithSchema
  <2>3. CASE Register
    <3>1. \A s \in PartialFunctions(Arguments, Parameters) : PythonTool(s) \in Declarations
      BY DEF Declarations
    <3>2. \A q \in PartialFunctions(Arguments, DotnetTypes) : DotnetTool(q) \in Declarations
      BY DEF Declarations
    <3>3. RawTool \in Declarations
      BY DEF Declarations
    <3>4. PICK name \in Names, tool \in Declarations : RegisterWithSchema(name, tool)
      BY <2>3, <3>1, <3>2, <3>3
         DEF Register, RegisterPython, RegisterDotnet, RegisterUnvalidated, PythonTool, DotnetTool, RawTool
    <3> QED BY <2>2, <3>4
  <2>4. ASSUME NEW n \in Limits, SetMaxArgsSize(n) PROVE RInv'
    BY <2>1, <2>4 DEF SetMaxArgsSize
  <2>5. ASSUME NEW name \in Names, NEW args \in Values, Dispatch(name, args) PROVE RInv'
    <3>1. /\ call' = [tool |-> tools[name], args |-> args, answer |-> Answer(name, args)]
          /\ tools' = tools
      BY <2>5 DEF Dispatch
    <3>2. call'.tool = tools[name] /\ call'.args = args /\ call'.answer = Answer(name, args)
      BY <3>1
    <3>3. tools[name].sdk \in {"python", "dotnet"} /\ Answer(name, args) # "too large"
            => (Answer(name, args) = "handled" <=> Fits(tools[name], args))
      BY AnswerFits
    <3>4. DispatchByDeclaration'
      BY <3>2, <3>3 DEF DispatchByDeclaration
    <3> QED BY <3>1, <3>4
  <2>6. CASE UNCHANGED registryVars
    BY <2>1, <2>6 DEF registryVars
  <2> QED BY <2>3, <2>4, <2>5, <2>6 DEF RegistryNext
<1>3. RInv => DispatchByDeclaration
  OBVIOUS
<1> QED BY <1>1, <1>2, <1>3, PTL DEF RegistrySpec

-----------------------------------------------------------------------------
(* Recursion over values.                                                  *)

\* A value and how deep one may go into it.
Level(at) == at[1]
NestingOf(v) == Nesting[v]

\* Going into a value lowers the level.
LEMMA LevelBelow ==
    ASSUME NEW left \in Nat, left # 0, NEW D, NEW w \in D
    PROVE  /\ left - 1 \in Nat /\ <<left - 1, w>> \in Nat \X D
           /\ \A v : Level(<<left - 1, w>>) < Level(<<left, v>>)
  BY DEF Level

-----------------------------------------------------------------------------
(* The estimate of a size and the size.                                    *)

EstimateBody(at, f) ==
    LET left == at[1]
        v == at[2]
    IN  IF left = 0 THEN 0
        ELSE CASE v.t = "array" ->
                     2 + SumFunction([i \in DOMAIN v.items |-> f[<<left - 1, v.items[i]>>]])
                       + Commas(Len(v.items))
               [] v.t = "object" ->
                     2 + SumFunction([n \in DOMAIN v.fields |-> KeySize + f[<<left - 1, v.fields[n]>>]])
                       + Commas(Cardinality(DOMAIN v.fields))
               [] OTHER -> EstimateScalar(v)

EstimateRecursion == INSTANCE Recursion WITH S <- Nat \X Values, Rank <- Level, Body <- EstimateBody

\* Functions that agree on what is in a value give it the same estimate.
LEMMA EstimateOfParts ==
    ASSUME NEW left \in Nat, NEW v \in Values, NEW f, NEW g,
           left # 0 => \A w \in Parts(v) : f[<<left - 1, w>>] = g[<<left - 1, w>>]
    PROVE  EstimateBody(<<left, v>>, f) = EstimateBody(<<left, v>>, g)
<1>1. CASE left # 0 /\ v.t = "array"
  <2> DEFINE a == [i \in DOMAIN v.items |-> f[<<left - 1, v.items[i]>>]]
             b == [i \in DOMAIN v.items |-> g[<<left - 1, v.items[i]>>]]
  <2>1. a = b
    BY <1>1, PartsInside
  <2>2. /\ EstimateBody(<<left, v>>, f) = 2 + SumFunction(a) + Commas(Len(v.items))
        /\ EstimateBody(<<left, v>>, g) = 2 + SumFunction(b) + Commas(Len(v.items))
    BY <1>1 DEF EstimateBody
  <2> HIDE DEF a, b
  <2> QED BY <2>1, <2>2
<1>2. CASE left # 0 /\ v.t = "object"
  <2> DEFINE a == [n \in DOMAIN v.fields |-> KeySize + f[<<left - 1, v.fields[n]>>]]
             b == [n \in DOMAIN v.fields |-> KeySize + g[<<left - 1, v.fields[n]>>]]
  <2>1. a = b
    BY <1>2, PartsInside
  <2>2. /\ EstimateBody(<<left, v>>, f) = 2 + SumFunction(a) + Commas(Cardinality(DOMAIN v.fields))
        /\ EstimateBody(<<left, v>>, g) = 2 + SumFunction(b) + Commas(Cardinality(DOMAIN v.fields))
    BY <1>2 DEF EstimateBody
  <2> HIDE DEF a, b
  <2> QED BY <2>1, <2>2
<1>3. CASE left = 0 \/ v.t \notin {"array", "object"}
  BY <1>3 DEF EstimateBody
<1> QED BY <1>1, <1>2, <1>3

\* The recursion of estimate_json_size_inner ends: the levels go down.
LEMMA EstimateUnfolds ==
    \A left \in Nat, v \in Values : EstimateInner[<<left, v>>] = EstimateBody(<<left, v>>, EstimateInner)
<1>1. \A at \in Nat \X Values : Level(at) \in Nat
  BY DEF Level
<1>2. ASSUME NEW at \in Nat \X Values, NEW f, NEW g,
             \A x \in Nat \X Values : Level(x) < Level(at) => f[x] = g[x]
      PROVE  EstimateBody(at, f) = EstimateBody(at, g)
  <2>1. PICK left \in Nat, v \in Values : at = <<left, v>>
    OBVIOUS
  <2> QED BY <1>2, <2>1, LevelBelow, PartsInside, EstimateOfParts
<1>3. EstimateInner = EstimateRecursion!F
  BY DEF EstimateInner, EstimateRecursion!F, EstimateBody
<1> HIDE DEF EstimateInner
<1>4. EstimateInner = [at \in Nat \X Values |-> EstimateBody(at, EstimateInner)]
  BY <1>1, <1>2, <1>3, EstimateRecursion!Unfold
<1> QED BY <1>4

SerializedBody(v, f) ==
    CASE v.t = "array"  -> 2 + SumFunction([i \in DOMAIN v.items |-> f[v.items[i]]])
                             + Commas(Len(v.items))
      [] v.t = "object" -> 2 + SumFunction([n \in DOMAIN v.fields |-> QuotedName + 1 + f[v.fields[n]]])
                             + Commas(Cardinality(DOMAIN v.fields))
      [] OTHER -> SerializedScalar(v)

SerializedRecursion == INSTANCE Recursion WITH S <- Values, Rank <- NestingOf, Body <- SerializedBody

\* The size of a value depends on the sizes of what is in it.
LEMMA SizeOfParts ==
    ASSUME NEW v \in Values, NEW f, NEW g, \A w \in Parts(v) : f[w] = g[w]
    PROVE  SerializedBody(v, f) = SerializedBody(v, g)
<1>1. CASE v.t = "array"
  <2> DEFINE a == [i \in DOMAIN v.items |-> f[v.items[i]]]
             b == [i \in DOMAIN v.items |-> g[v.items[i]]]
  <2>1. a = b
    BY <1>1, PartsInside
  <2>2. /\ SerializedBody(v, f) = 2 + SumFunction(a) + Commas(Len(v.items))
        /\ SerializedBody(v, g) = 2 + SumFunction(b) + Commas(Len(v.items))
    BY <1>1 DEF SerializedBody
  <2> HIDE DEF a, b
  <2> QED BY <2>1, <2>2
<1>2. CASE v.t = "object"
  <2> DEFINE a == [n \in DOMAIN v.fields |-> QuotedName + 1 + f[v.fields[n]]]
             b == [n \in DOMAIN v.fields |-> QuotedName + 1 + g[v.fields[n]]]
  <2>1. a = b
    BY <1>2, PartsInside
  <2>2. /\ SerializedBody(v, f) = 2 + SumFunction(a) + Commas(Cardinality(DOMAIN v.fields))
        /\ SerializedBody(v, g) = 2 + SumFunction(b) + Commas(Cardinality(DOMAIN v.fields))
    BY <1>2 DEF SerializedBody
  <2> HIDE DEF a, b
  <2> QED BY <2>1, <2>2
<1>3. CASE v.t \notin {"array", "object"}
  BY <1>3 DEF SerializedBody
<1> QED BY <1>1, <1>2, <1>3

\* Every value has a size: its parts are less nested.
LEMMA SerializedUnfolds ==
    \A v \in Values : SerializedSize[v] = SerializedBody(v, SerializedSize)
<1>1. \A v \in Values : NestingOf(v) \in Nat
  BY ValuesAssumption DEF NestingOf
<1>2. ASSUME NEW v \in Values, NEW f, NEW g,
             \A w \in Values : NestingOf(w) < NestingOf(v) => f[w] = g[w]
      PROVE  SerializedBody(v, f) = SerializedBody(v, g)
  BY <1>2, PartsInside, SizeOfParts DEF NestingOf
<1>3. SerializedSize = SerializedRecursion!F
  BY DEF SerializedSize, SerializedRecursion!F, SerializedBody
<1> HIDE DEF SerializedSize
<1>4. SerializedSize = [v \in Values |-> SerializedBody(v, SerializedSize)]
  BY <1>1, <1>2, <1>3, SerializedRecursion!Unfold
<1> QED BY <1>4

-----------------------------------------------------------------------------
(* What holds of a value to a level.                                       *)

ShallowBody(at, f) ==
    LET levels == at[1]  v == at[2] IN levels > 0 /\ \A w \in Parts(v) : f[<<levels - 1, w>>]

ShallowRecursion == INSTANCE Recursion WITH S <- Nat \X Values, Rank <- Level, Body <- ShallowBody

\* A value has so many levels when what is in it has one less.
LEMMA ShallowUnfolds ==
    \A levels \in Nat, v \in Values :
      Shallow[<<levels, v>>] <=> levels > 0 /\ \A w \in Parts(v) : Shallow[<<levels - 1, w>>]
<1>1. \A at \in Nat \X Values : Level(at) \in Nat
  BY DEF Level
<1>2. ASSUME NEW at \in Nat \X Values, NEW f, NEW g,
             \A x \in Nat \X Values : Level(x) < Level(at) => f[x] = g[x]
      PROVE  ShallowBody(at, f) = ShallowBody(at, g)
  <2>1. PICK levels \in Nat, v \in Values : at = <<levels, v>>
    OBVIOUS
  <2>2. levels > 0 => \A w \in Parts(v) : f[<<levels - 1, w>>] = g[<<levels - 1, w>>]
    BY <1>2, <2>1, LevelBelow, PartsInside
  <2>3. ShallowBody(at, f) <=> ShallowBody(at, g)
    BY <2>1, <2>2 DEF ShallowBody
  <2>4. ShallowBody(at, f) \in BOOLEAN /\ ShallowBody(at, g) \in BOOLEAN
    BY DEF ShallowBody
  <2> HIDE DEF ShallowBody
  <2> QED BY <2>3, <2>4
<1>3. Shallow = ShallowRecursion!F
  BY DEF Shallow, ShallowRecursion!F, ShallowBody
<1> HIDE DEF Shallow
<1>4. Shallow = [at \in Nat \X Values |-> ShallowBody(at, Shallow)]
  BY <1>1, <1>2, <1>3, ShallowRecursion!Unfold
<1>5. \A levels \in Nat, v \in Values : Shallow[<<levels, v>>] = ShallowBody(<<levels, v>>, Shallow)
  BY <1>4
<1>6. \A levels, v : ShallowBody(<<levels, v>>, Shallow)
                       <=> levels > 0 /\ \A w \in Parts(v) : Shallow[<<levels - 1, w>>]
  BY DEF ShallowBody
<1> QED BY <1>5, <1>6

WithinBody(at, f) ==
    LET levels == at[1]  v == at[2] IN
        IF levels = 0 THEN {} ELSE {v} \cup UNION {f[<<levels - 1, w>>] : w \in Parts(v)}

WithinRecursion == INSTANCE Recursion WITH S <- Nat \X Values, Rank <- Level, Body <- WithinBody

\* A value is in its levels, and so is what is in its parts.
LEMMA WithinUnfolds ==
    \A levels \in Nat, v \in Values : levels # 0 =>
      /\ v \in Within[<<levels, v>>]
      /\ \A w \in Parts(v) : Within[<<levels - 1, w>>] \subseteq Within[<<levels, v>>]
<1>1. \A at \in Nat \X Values : Level(at) \in Nat
  BY DEF Level
<1>2. ASSUME NEW at \in Nat \X Values, NEW f, NEW g,
             \A x \in Nat \X Values : Level(x) < Level(at) => f[x] = g[x]
      PROVE  WithinBody(at, f) = WithinBody(at, g)
  <2>1. PICK levels \in Nat, v \in Values : at = <<levels, v>>
    OBVIOUS
  <2>2. levels # 0 => \A w \in Parts(v) : f[<<levels - 1, w>>] = g[<<levels - 1, w>>]
    BY <1>2, <2>1, LevelBelow, PartsInside
  <2> DEFINE a == {f[<<levels - 1, w>>] : w \in Parts(v)}
             b == {g[<<levels - 1, w>>] : w \in Parts(v)}
  <2>3. levels # 0 => a = b
    BY <2>2
  <2>4. /\ WithinBody(at, f) = IF levels = 0 THEN {} ELSE {v} \cup UNION a
        /\ WithinBody(at, g) = IF levels = 0 THEN {} ELSE {v} \cup UNION b
    BY <2>1 DEF WithinBody
  <2> HIDE DEF a, b
  <2> QED BY <2>3, <2>4
<1>3. Within = WithinRecursion!F
  BY DEF Within, WithinRecursion!F, WithinBody
<1> HIDE DEF Within
<1>4. Within = [at \in Nat \X Values |-> WithinBody(at, Within)]
  BY <1>1, <1>2, <1>3, WithinRecursion!Unfold
<1>5. ASSUME NEW levels \in Nat, NEW v \in Values, levels # 0
      PROVE  /\ v \in Within[<<levels, v>>]
             /\ \A w \in Parts(v) : Within[<<levels - 1, w>>] \subseteq Within[<<levels, v>>]
  <2> DEFINE inner == {Within[<<levels - 1, w>>] : w \in Parts(v)}
  <2>1. Within[<<levels, v>>] = WithinBody(<<levels, v>>, Within)
    BY <1>4
  <2>2. WithinBody(<<levels, v>>, Within) = {v} \cup UNION inner
    BY <1>5 DEF WithinBody
  <2>3. \A w \in Parts(v) : Within[<<levels - 1, w>>] \in inner
    OBVIOUS
  <2> HIDE DEF inner
  <2>4. \A set \in inner : set \subseteq {v} \cup UNION inner
    OBVIOUS
  <2> QED BY <2>1, <2>2, <2>3, <2>4
<1> QED BY <1>5

-----------------------------------------------------------------------------
(* The estimate is exact.                                                  *)

\* By the levels: the parts have one less.
LEMMA EstimateIsExact ==
    \A left \in Nat, v \in Values :
      Shallow[<<left, v>>] /\ Unescaped(Within[<<left, v>>]) =>
        EstimateInner[<<left, v>>] = SerializedSize[v]
<1> DEFINE Exact(n, v) ==
             Shallow[<<n, v>>] /\ Unescaped(Within[<<n, v>>]) => EstimateInner[<<n, v>>] = SerializedSize[v]
           Wrong == {n \in Nat : ~\A v \in Values : Exact(n, v)}
<1>1. SUFFICES ASSUME Wrong # {} PROVE FALSE
  OBVIOUS
<1>2. PICK n \in Wrong : \A m \in Wrong : n <= m
  BY <1>1, EstimateRecursion!LeastRank
<1>3. PICK v \in Values : ~Exact(n, v)
  OBVIOUS
<1>4. n # 0 /\ \A w \in Parts(v) : Shallow[<<n - 1, w>>]
  BY <1>3, ShallowUnfolds
<1>5. ASSUME NEW w \in Parts(v) PROVE EstimateInner[<<n - 1, w>>] = SerializedSize[w]
  <2>1. n - 1 \in Nat /\ w \in Values /\ n - 1 \notin Wrong
    BY <1>2, <1>4, PartsInside
  <2>2. Unescaped(Within[<<n - 1, w>>])
    BY <1>3, <1>4, WithinUnfolds DEF Unescaped
  <2> QED BY <1>4, <2>1, <2>2
<1>6. v.t = "string" => v.escaped = 0
  BY <1>3, <1>4, WithinUnfolds DEF Unescaped
<1>7. EstimateBody(<<n, v>>, EstimateInner) = SerializedBody(v, SerializedSize)
  <2>1. CASE v.t = "array"
    <3> DEFINE a == [i \in DOMAIN v.items |-> EstimateInner[<<n - 1, v.items[i]>>]]
               b == [i \in DOMAIN v.items |-> SerializedSize[v.items[i]]]
    <3>1. a = b
      BY <1>5, <2>1, PartsInside
    <3>2. EstimateBody(<<n, v>>, EstimateInner) = 2 + SumFunction(a) + Commas(Len(v.items))
      BY <1>4, <2>1 DEF EstimateBody
    <3>3. SerializedBody(v, SerializedSize) = 2 + SumFunction(b) + Commas(Len(v.items))
      BY <2>1 DEF SerializedBody
    <3> HIDE DEF a, b
    <3> QED BY <3>1, <3>2, <3>3
  <2>2. CASE v.t = "object"
    <3> DEFINE a == [k \in DOMAIN v.fields |-> KeySize + EstimateInner[<<n - 1, v.fields[k]>>]]
               b == [k \in DOMAIN v.fields |-> QuotedName + 1 + SerializedSize[v.fields[k]]]
    <3>1. a = b
      BY <1>5, <2>2, PartsInside DEF KeySize
    <3>2. EstimateBody(<<n, v>>, EstimateInner) = 2 + SumFunction(a) + Commas(Cardinality(DOMAIN v.fields))
      BY <1>4, <2>2 DEF EstimateBody
    <3>3. SerializedBody(v, SerializedSize) = 2 + SumFunction(b) + Commas(Cardinality(DOMAIN v.fields))
      BY <2>2 DEF SerializedBody
    <3> HIDE DEF a, b
    <3> QED BY <3>1, <3>2, <3>3
  <2>3. CASE v.t \notin {"array", "object"}
    <3>1. EstimateBody(<<n, v>>, EstimateInner) = EstimateScalar(v)
      BY <1>4, <2>3 DEF EstimateBody
    <3>2. SerializedBody(v, SerializedSize) = SerializedScalar(v)
      BY <2>3 DEF SerializedBody
    <3>3. v.t \in {"null", "boolean", "number", "string"}
      BY <2>3, JsonTypes DEF AnyType
    <3>4. v.t = "string" => v.bytes \in Nat
      BY ValuesAssumption DEF IsJson
    <3>5. EstimateScalar(v) = SerializedScalar(v)
      BY <1>6, <3>3, <3>4 DEF EstimateScalar, SerializedScalar
    <3> QED BY <3>1, <3>2, <3>5
  <2> QED BY <2>1, <2>2, <2>3
<1> QED BY <1>3, <1>7, EstimateUnfolds, SerializedUnfolds

-----------------------------------------------------------------------------
(* There and back.                                                         *)

ToPyBody(v, f) ==
    CASE v.t = "array"  -> [py |-> "list", items |-> [i \in DOMAIN v.items |-> f[v.items[i]]]]
      [] v.t = "object" -> [py |-> "dict", entries |-> [n \in DOMAIN v.fields |-> f[v.fields[n]]]]
      [] OTHER -> JsonScalarToPy(v)

ToPyRecursion == INSTANCE Recursion WITH S <- Values, Rank <- NestingOf, Body <- ToPyBody

\* Every value has an object of Python (json_to_py ends).
LEMMA ToPyUnfolds ==
    \A v \in Values : JsonToPy[v] = ToPyBody(v, JsonToPy)
<1>1. \A v \in Values : NestingOf(v) \in Nat
  BY ValuesAssumption DEF NestingOf
<1>2. ASSUME NEW v \in Values, NEW f, NEW g,
             \A w \in Values : NestingOf(w) < NestingOf(v) => f[w] = g[w]
      PROVE  ToPyBody(v, f) = ToPyBody(v, g)
  <2>1. \A w \in Parts(v) : f[w] = g[w]
    BY <1>2, PartsInside DEF NestingOf
  <2>2. v.t = "array" => [i \in DOMAIN v.items |-> f[v.items[i]]] = [i \in DOMAIN v.items |-> g[v.items[i]]]
    BY <2>1, PartsInside
  <2>3. v.t = "object" => [n \in DOMAIN v.fields |-> f[v.fields[n]]] = [n \in DOMAIN v.fields |-> g[v.fields[n]]]
    BY <2>1, PartsInside
  <2> QED BY <2>2, <2>3 DEF ToPyBody
<1>3. JsonToPy = ToPyRecursion!F
  BY DEF JsonToPy, ToPyRecursion!F, ToPyBody
<1> HIDE DEF JsonToPy
<1>4. JsonToPy = [v \in Values |-> ToPyBody(v, JsonToPy)]
  BY <1>1, <1>2, <1>3, ToPyRecursion!Unfold
<1> QED BY <1>4

FromPyBody(at, f) ==
    LET left == at[1]
        o == at[2]
    IN  IF left = 0 THEN DepthExceeded
        ELSE CASE o.py = "list" ->
                     LET inner == [i \in DOMAIN o.items |-> f[<<left - 1, o.items[i]>>]]
                     IN  IF Failed(inner) THEN DepthExceeded ELSE Array(inner)
               [] o.py = "dict" ->
                     LET inner == [n \in DOMAIN o.entries |-> f[<<left - 1, o.entries[n]>>]]
                     IN  IF Failed(inner) THEN DepthExceeded ELSE Object(inner)
               [] OTHER -> PyScalarToJson(o)

FromPyRecursion == INSTANCE Recursion WITH S <- Nat \X PyValues, Rank <- Level, Body <- FromPyBody

\* The object of a value holds those of its parts.
LEMMA PyParts ==
    ASSUME NEW v \in Values
    PROVE  LET o == JsonToPy[v]
           IN  /\ o \in PyValues
               /\ o.py = "list" <=> v.t = "array"
               /\ o.py = "dict" <=> v.t = "object"
               /\ v.t = "array" => DOMAIN o.items = DOMAIN v.items
                                   /\ \A i \in DOMAIN v.items : o.items[i] = JsonToPy[v.items[i]]
               /\ v.t = "object" => DOMAIN o.entries = DOMAIN v.fields
                                    /\ \A n \in DOMAIN v.fields : o.entries[n] = JsonToPy[v.fields[n]]
               /\ v.t \notin {"array", "object"} => o = JsonScalarToPy(v)
<1> DEFINE o == JsonToPy[v]
<1>1. o \in PyValues
  BY DEF PyValues
<1>2. o = ToPyBody(v, JsonToPy)
  BY ToPyUnfolds
<1>3. CASE v.t = "array"
  <2>1. o = [py |-> "list", items |-> [i \in DOMAIN v.items |-> JsonToPy[v.items[i]]]]
    BY <1>2, <1>3 DEF ToPyBody
  <2> HIDE DEF o
  <2> QED BY <1>1, <1>3, <2>1 DEF o
<1>4. CASE v.t = "object"
  <2>1. o = [py |-> "dict", entries |-> [n \in DOMAIN v.fields |-> JsonToPy[v.fields[n]]]]
    BY <1>2, <1>4 DEF ToPyBody
  <2> HIDE DEF o
  <2> QED BY <1>1, <1>4, <2>1 DEF o
<1>5. CASE v.t \notin {"array", "object"}
  <2>1. o = JsonScalarToPy(v)
    BY <1>2, <1>5 DEF ToPyBody
  <2>2. v.t \in {"null", "boolean", "number", "string"}
    BY <1>5, JsonTypes DEF AnyType
  <2>3. o.py \notin {"list", "dict"}
    BY <2>1, <2>2 DEF JsonScalarToPy
  <2> HIDE DEF o
  <2> QED BY <1>1, <1>5, <2>1, <2>3 DEF o
<1> QED BY <1>3, <1>4, <1>5

\* The recursion of py_to_json_inner ends: the levels go down.
LEMMA FromPyUnfolds ==
    \A left \in Nat, v \in Values :
      PyToJsonInner[<<left, JsonToPy[v]>>] = FromPyBody(<<left, JsonToPy[v]>>, PyToJsonInner)
<1>1. \A at \in Nat \X PyValues : Level(at) \in Nat
  BY DEF Level
<1>2. ASSUME NEW at \in Nat \X PyValues, NEW f, NEW g,
             \A x \in Nat \X PyValues : Level(x) < Level(at) => f[x] = g[x]
      PROVE  FromPyBody(at, f) = FromPyBody(at, g)
  <2>1. PICK left \in Nat, v \in Values : at = <<left, JsonToPy[v]>>
    BY DEF PyValues
  <2>2. left # 0 => \A w \in Parts(v) : f[<<left - 1, JsonToPy[w]>>] = g[<<left - 1, JsonToPy[w]>>]
    BY <1>2, <2>1, LevelBelow, PartsInside, PyParts
  <2> DEFINE o == JsonToPy[v]
  <2>3. CASE left # 0 /\ v.t = "array"
    <3> DEFINE a == [i \in DOMAIN o.items |-> f[<<left - 1, o.items[i]>>]]
               b == [i \in DOMAIN o.items |-> g[<<left - 1, o.items[i]>>]]
    <3>1. o.py = "list" /\ DOMAIN o.items = DOMAIN v.items
      BY <2>3, PyParts
    <3>2. \A i \in DOMAIN o.items : f[<<left - 1, o.items[i]>>] = g[<<left - 1, o.items[i]>>]
      <4> TAKE i \in DOMAIN o.items
      <4>1. v.items[i] \in Parts(v)
        BY <2>3, <3>1, PartsInside
      <4>2. o.items[i] = JsonToPy[v.items[i]]
        BY <2>3, <3>1, PyParts
      <4> HIDE DEF o
      <4> QED BY <2>2, <2>3, <4>1, <4>2
    <3>3. a = b
      BY <3>2
    <3>4. /\ FromPyBody(at, f) = IF Failed(a) THEN DepthExceeded ELSE Array(a)
          /\ FromPyBody(at, g) = IF Failed(b) THEN DepthExceeded ELSE Array(b)
      BY <2>1, <2>3, <3>1 DEF FromPyBody
    <3> HIDE DEF a, b
    <3> QED BY <3>3, <3>4
  <2>4. CASE left # 0 /\ v.t = "object"
    <3> DEFINE a == [n \in DOMAIN o.entries |-> f[<<left - 1, o.entries[n]>>]]
               b == [n \in DOMAIN o.entries |-> g[<<left - 1, o.entries[n]>>]]
    <3>1. o.py = "dict" /\ DOMAIN o.entries = DOMAIN v.fields
      BY <2>4, PyParts
    <3>2. \A n \in DOMAIN o.entries : f[<<left - 1, o.entries[n]>>] = g[<<left - 1, o.entries[n]>>]
      <4> TAKE n \in DOMAIN o.entries
      <4>1. v.fields[n] \in Parts(v)
        BY <2>4, <3>1, PartsInside
      <4>2. o.entries[n] = JsonToPy[v.fields[n]]
        BY <2>4, <3>1, PyParts
      <4> HIDE DEF o
      <4> QED BY <2>2, <2>4, <4>1, <4>2
    <3>3. a = b
      BY <3>2
    <3>4. /\ FromPyBody(at, f) = IF Failed(a) THEN DepthExceeded ELSE Object(a)
          /\ FromPyBody(at, g) = IF Failed(b) THEN DepthExceeded ELSE Object(b)
      BY <2>1, <2>4, <3>1 DEF FromPyBody
    <3> HIDE DEF a, b
    <3> QED BY <3>3, <3>4
  <2>5. CASE left = 0 \/ v.t \notin {"array", "object"}
    BY <2>1, <2>5, PyParts DEF FromPyBody
  <2> QED BY <2>3, <2>4, <2>5
<1>3. PyToJsonInner = FromPyRecursion!F
  BY DEF PyToJsonInner, FromPyRecursion!F, FromPyBody
<1> HIDE DEF PyToJsonInner
<1>4. PyToJsonInner = [at \in Nat \X PyValues |-> FromPyBody(at, PyToJsonInner)]
  BY <1>1, <1>2, <1>3, FromPyRecursion!Unfold
<1> QED BY <1>4, PyParts

\* A scalar comes back as it was, unless it is an integer beyond i64.
LEMMA ScalarBack ==
    ASSUME NEW v \in Values, v.t \notin {"array", "object"}, v.t = "number" => v.class # "u64"
    PROVE  PyScalarToJson(JsonScalarToPy(v)) = v
<1>1. v.t \in {"null", "boolean", "number", "string"}
  BY JsonTypes DEF AnyType
<1>2. CASE v.t = "null"
  BY <1>2, JsonTypes DEF JsonScalarToPy, PyScalarToJson
<1>3. CASE v.t = "boolean"
  BY <1>3, JsonTypes DEF JsonScalarToPy, PyScalarToJson
<1>4. CASE v.t = "number"
  <2>1. v.class \in {"i64", "float"} /\ v = Number(v.class, v.digits)
    BY <1>4, JsonTypes
  <2>2. JsonScalarToPy(v) = [py |-> IF v.class = "i64" THEN "int" ELSE "float", digits |-> v.digits]
    BY <1>4 DEF JsonScalarToPy
  <2> QED BY <2>1, <2>2 DEF PyScalarToJson
<1>5. CASE v.t = "string"
  BY <1>5 DEF JsonScalarToPy, PyScalarToJson
<1> QED BY <1>1, <1>2, <1>3, <1>4, <1>5

\* A JSON value is none that is refused.
LEMMA NotRefused == ASSUME NEW v \in Values PROVE v # DepthExceeded
<1>1. v.t \in AnyType
  BY JsonTypes
<1>2. DepthExceeded.t \notin AnyType
  BY DEF AnyType, DepthExceeded
<1> QED BY <1>1, <1>2

\* By the levels: the parts have one less, and one that is too deep refuses the whole.
LEMMA ThereAndBack ==
    \A left \in Nat, v \in Values :
      Converts(Within[<<left, v>>]) =>
        PyToJsonInner[<<left, JsonToPy[v]>>] = IF Shallow[<<left, v>>] THEN v ELSE DepthExceeded
<1> DEFINE Back(n, v) ==
             PyToJsonInner[<<n, JsonToPy[v]>>] = IF Shallow[<<n, v>>] THEN v ELSE DepthExceeded
           Wrong == {n \in Nat : ~\A v \in Values : Converts(Within[<<n, v>>]) => Back(n, v)}
<1>1. SUFFICES ASSUME Wrong # {} PROVE FALSE
  OBVIOUS
<1>2. PICK n \in Wrong : \A m \in Wrong : n <= m
  BY <1>1, EstimateRecursion!LeastRank
<1>3. PICK v \in Values : Converts(Within[<<n, v>>]) /\ ~Back(n, v)
  OBVIOUS
<1> DEFINE o == JsonToPy[v]
<1>4. PyToJsonInner[<<n, o>>] = FromPyBody(<<n, o>>, PyToJsonInner)
  BY FromPyUnfolds
<1>5. n # 0
  <2>1. SUFFICES ASSUME n = 0 PROVE FALSE
    OBVIOUS
  <2>2. ~Shallow[<<n, v>>]
    BY <2>1, ShallowUnfolds
  <2>3. FromPyBody(<<n, o>>, PyToJsonInner) = DepthExceeded
    BY <2>1 DEF FromPyBody
  <2> QED BY <1>3, <1>4, <2>2, <2>3
<1>6. ASSUME NEW w \in Parts(v)
      PROVE  PyToJsonInner[<<n - 1, JsonToPy[w]>>] = IF Shallow[<<n - 1, w>>] THEN w ELSE DepthExceeded
  <2>1. n - 1 \in Nat /\ w \in Values /\ n - 1 \notin Wrong
    BY <1>2, <1>5, PartsInside
  <2>2. Converts(Within[<<n - 1, w>>])
    BY <1>3, <1>5, WithinUnfolds DEF Converts
  <2> QED BY <2>1, <2>2
<1>7. v.t = "number" => v.class # "u64"
  BY <1>3, <1>5, WithinUnfolds DEF Converts
<1>8. Shallow[<<n, v>>] <=> \A w \in Parts(v) : Shallow[<<n - 1, w>>]
  BY <1>5, ShallowUnfolds
<1>9. CASE v.t = "array"
  <2> DEFINE a == [i \in DOMAIN o.items |-> PyToJsonInner[<<n - 1, o.items[i]>>]]
  <2>1. /\ DOMAIN a = DOMAIN v.items
        /\ \A i \in DOMAIN v.items :
             a[i] = IF Shallow[<<n - 1, v.items[i]>>] THEN v.items[i] ELSE DepthExceeded
    BY <1>6, <1>9, PartsInside, PyParts
  <2>2. PyToJsonInner[<<n, o>>] = IF Failed(a) THEN DepthExceeded ELSE Array(a)
    BY <1>4, <1>5, <1>9, PyParts DEF FromPyBody
  <2>3. a = [i \in DOMAIN a |-> a[i]]
    OBVIOUS
  <2> HIDE DEF a
  <2>4. Failed(a) <=> \E i \in DOMAIN v.items : ~Shallow[<<n - 1, v.items[i]>>]
    BY <1>9, <2>1, PartsInside, NotRefused DEF Failed
  <2>5. Failed(a) <=> ~Shallow[<<n, v>>]
    BY <1>8, <1>9, <2>4 DEF Parts
  <2>6. ~Failed(a) => a = v.items
    BY <1>9, <2>1, <2>3, <2>4, JsonTypes
  <2> QED BY <1>3, <1>9, <2>2, <2>5, <2>6, JsonTypes
<1>10. CASE v.t = "object"
  <2> DEFINE a == [k \in DOMAIN o.entries |-> PyToJsonInner[<<n - 1, o.entries[k]>>]]
  <2>1. /\ DOMAIN a = DOMAIN v.fields
        /\ \A k \in DOMAIN v.fields :
             a[k] = IF Shallow[<<n - 1, v.fields[k]>>] THEN v.fields[k] ELSE DepthExceeded
    BY <1>6, <1>10, PartsInside, PyParts
  <2>2. PyToJsonInner[<<n, o>>] = IF Failed(a) THEN DepthExceeded ELSE Object(a)
    BY <1>4, <1>5, <1>10, PyParts DEF FromPyBody
  <2>3. a = [k \in DOMAIN a |-> a[k]]
    OBVIOUS
  <2> HIDE DEF a
  <2>4. Failed(a) <=> \E k \in DOMAIN v.fields : ~Shallow[<<n - 1, v.fields[k]>>]
    BY <1>10, <2>1, PartsInside, NotRefused DEF Failed
  <2>5. Failed(a) <=> ~Shallow[<<n, v>>]
    BY <1>8, <1>10, <2>4 DEF Parts
  <2>6. ~Failed(a) => a = v.fields
    BY <1>10, <2>1, <2>3, <2>4, JsonTypes
  <2> QED BY <1>3, <1>10, <2>2, <2>5, <2>6, JsonTypes
<1>11. CASE v.t \notin {"array", "object"}
  <2>1. Shallow[<<n, v>>]
    BY <1>8, <1>11 DEF Parts
  <2>2. PyToJsonInner[<<n, o>>] = PyScalarToJson(o)
    BY <1>4, <1>5, <1>11, PyParts DEF FromPyBody
  <2> QED BY <1>3, <1>7, <1>11, <2>1, <2>2, PyParts, ScalarBack
<1> QED BY <1>9, <1>10, <1>11

-----------------------------------------------------------------------------
(* Sums over what is in a value.                                           *)

\* The sets of places in values.
Places == {DOMAIN v.items : v \in {v \in Values : v.t = "array"}}
            \cup {DOMAIN v.fields : v \in {v \in Values : v.t = "object"}}

\* They are finite.
LEMMA PlacesFinite == \A D \in Places : IsFiniteSet(D)
<1>1. ASSUME NEW v \in Values, v.t = "array" PROVE IsFiniteSet(DOMAIN v.items)
  <2>1. DOMAIN v.items = 1 .. Len(v.items) /\ Len(v.items) \in Nat
    <3>1. v.items = [i \in 1 .. Len(v.items) |-> v.items[i]] /\ Len(v.items) \in Nat
      BY <1>1, ValuesAssumption DEF IsJson
    <3> QED BY <3>1
  <2> QED BY <2>1, FS_Interval
<1>2. ASSUME NEW v \in Values, v.t = "object" PROVE IsFiniteSet(DOMAIN v.fields)
  BY <1>2, ValuesAssumption DEF IsJson
<1> QED BY <1>1, <1>2 DEF Places

\* The sum over a part of the places, for all sums at once.
PartSums == {at \in UNION {[D -> Nat] \X SUBSET D : D \in Places} : IsFiniteSet(at[2])}

AnyOf(s) == CHOOSE x \in s : TRUE
Remaining(at) == Cardinality(at[2])

SumBody(at, f) ==
    LET fun == at[1]
        s == at[2]
    IN  IF s = {} THEN 0
        ELSE fun[AnyOf(s)] + f[<<fun, s \ {AnyOf(s)}>>]

SumRecursion == INSTANCE Recursion WITH S <- PartSums, Rank <- Remaining, Body <- SumBody

\* One place less.
LEMMA OneLess ==
    ASSUME NEW D \in Places, NEW s \in SUBSET D, s # {}
    PROVE  LET x == AnyOf(s)
           IN  /\ x \in s /\ x \in D /\ s \ {x} \in SUBSET D
               /\ IsFiniteSet(s) /\ Cardinality(s) \in Nat
               /\ IsFiniteSet(s \ {x}) /\ Cardinality(s \ {x}) \in Nat
               /\ Cardinality(s \ {x}) < Cardinality(s)
<1> DEFINE x == AnyOf(s)
<1>1. x \in s
  BY DEF AnyOf
<1>2. IsFiniteSet(s) /\ Cardinality(s) \in Nat
  BY PlacesFinite, FS_Subset, FS_CardinalityType
<1> HIDE DEF x
<1>3. IsFiniteSet(s \ {x}) /\ Cardinality(s \ {x}) = Cardinality(s) - 1
  BY <1>1, <1>2, FS_RemoveElement
<1>4. Cardinality(s \ {x}) \in Nat
  BY <1>3, FS_CardinalityType
<1> QED BY <1>1, <1>2, <1>3, <1>4 DEF x

\* What SumFunction folds.
Sums(fun) ==
    CHOOSE iter : iter = [s \in SUBSET DOMAIN fun |->
                            IF s = {} THEN 0
                            ELSE fun[AnyOf(s)] + iter[s \ {AnyOf(s)}]]

\* It adds one place after the other.
LEMMA SumsUnfold ==
    ASSUME NEW D \in Places, NEW fun \in [D -> Nat]
    PROVE  /\ SumFunction(fun) = Sums(fun)[D]
           /\ Sums(fun)[{}] = 0
           /\ \A s \in SUBSET D : s # {} =>
                Sums(fun)[s] = fun[AnyOf(s)] + Sums(fun)[s \ {AnyOf(s)}]
<1> DEFINE all == SumRecursion!F
           Step(iter, s) == IF s = {} THEN 0
                            ELSE fun[AnyOf(s)] + iter[s \ {AnyOf(s)}]
           mine == [s \in SUBSET D |-> all[<<fun, s>>]]
<1>1. \A s \in SUBSET D : <<fun, s>> \in PartSums
  BY PlacesFinite, FS_Subset DEF PartSums
<1>2. \A at \in PartSums : Remaining(at) \in Nat
  BY FS_CardinalityType DEF PartSums, Remaining
<1>3. ASSUME NEW at \in PartSums, NEW f, NEW g,
             \A y \in PartSums : Remaining(y) < Remaining(at) => f[y] = g[y]
      PROVE  SumBody(at, f) = SumBody(at, g)
  <2>0. PICK E \in Places : at \in [E -> Nat] \X SUBSET E
    BY DEF PartSums
  <2>1. PICK h \in [E -> Nat], s \in SUBSET E : at = <<h, s>>
    BY <2>0
  <2> DEFINE x == AnyOf(s)
  <2>2. CASE s # {}
    <3>1. <<h, s \ {x}>> \in PartSums
      <4>1. s \ {x} \in SUBSET E /\ IsFiniteSet(s \ {x})
        BY <2>2, OneLess
      <4> HIDE DEF x
      <4>2. <<h, s \ {x}>> \in [E -> Nat] \X SUBSET E
        BY <4>1
      <4> QED BY <4>1, <4>2 DEF PartSums
    <3>2. Remaining(<<h, s \ {x}>>) < Remaining(at)
      BY <2>1, <2>2, OneLess DEF Remaining
    <3>3. f[<<h, s \ {x}>>] = g[<<h, s \ {x}>>]
      BY <1>3, <3>1, <3>2
    <3>4. /\ SumBody(at, f) = h[x] + f[<<h, s \ {x}>>]
          /\ SumBody(at, g) = h[x] + g[<<h, s \ {x}>>]
      BY <2>1, <2>2 DEF SumBody
    <3> QED BY <3>3, <3>4
  <2>3. CASE s = {}
    BY <2>1, <2>3 DEF SumBody
  <2> QED BY <2>2, <2>3
<1>4. all = [at \in PartSums |-> SumBody(at, all)]
  BY <1>2, <1>3, SumRecursion!Unfold
<1> HIDE DEF all
<1>5. ASSUME NEW s \in SUBSET D PROVE mine[s] = Step(mine, s)
  <2>1. mine[s] = SumBody(<<fun, s>>, all)
    BY <1>1, <1>4
  <2>2. CASE s = {}
    BY <2>1, <2>2 DEF SumBody
  <2>3. CASE s # {}
    <3> DEFINE x == AnyOf(s)
    <3>1. s \ {x} \in SUBSET D
      OBVIOUS
    <3>2. SumBody(<<fun, s>>, all) = fun[x] + all[<<fun, s \ {x}>>]
      BY <2>3 DEF SumBody
    <3>3. mine[s \ {x}] = all[<<fun, s \ {x}>>]
      BY <3>1
    <3>4. Step(mine, s) = fun[x] + mine[s \ {x}]
      BY <2>3
    <3> HIDE DEF x, mine
    <3> QED BY <2>1, <3>2, <3>3, <3>4
  <2> QED BY <2>2, <2>3
<1>6. mine = [s \in SUBSET D |-> Step(mine, s)]
  <2> DEFINE other == [s \in SUBSET D |-> Step(mine, s)]
  <2>1. \A s \in SUBSET D : mine[s] = other[s]
    BY <1>5
  <2>2. mine = [s \in SUBSET D |-> mine[s]] /\ other = [s \in SUBSET D |-> other[s]]
    OBVIOUS
  <2> HIDE DEF mine, other, Step
  <2> QED BY <2>1, <2>2 DEF other
<1>7. DOMAIN fun = D
  OBVIOUS
<1>8. Sums(fun) = [s \in SUBSET D |-> Step(Sums(fun), s)]
  <2>1. \E iter : iter = [s \in SUBSET D |-> Step(iter, s)]
    <3> HIDE DEF mine, Step
    <3> QED BY <1>6
  <2>2. Sums(fun) = CHOOSE iter : iter = [s \in SUBSET D |-> Step(iter, s)]
    BY <1>7 DEF Sums
  <2> HIDE DEF Step
  <2> QED BY <2>1, <2>2
<1>9. SumFunction(fun) = Sums(fun)[D]
  BY <1>7 DEF SumFunction, SumFunctionOnSet, FoldFunctionOnSet, MapThenFoldSet, Sums, AnyOf
<1>10. \A s \in SUBSET D : Sums(fun)[s] = Step(Sums(fun), s)
  <2> HIDE DEF Step
  <2> QED BY <1>8
<1>11. {} \in SUBSET D /\ Step(Sums(fun), {}) = 0
  OBVIOUS
<1>12. \A s \in SUBSET D : s # {} =>
         Step(Sums(fun), s) = fun[AnyOf(s)] + Sums(fun)[s \ {AnyOf(s)}]
  OBVIOUS
<1> HIDE DEF Step
<1> QED BY <1>9, <1>10, <1>11, <1>12

\* Greater numbers have a greater sum.
LEMMA SumsCompare ==
    ASSUME NEW D \in Places, NEW f \in [D -> Nat], NEW g \in [D -> Nat], \A i \in D : f[i] <= g[i]
    PROVE  SumFunction(f) \in Nat /\ SumFunction(g) \in Nat /\ SumFunction(f) <= SumFunction(g)
<1> DEFINE Fine(s) == Sums(f)[s] \in Nat /\ Sums(g)[s] \in Nat /\ Sums(f)[s] <= Sums(g)[s]
           Wrong == {s \in SUBSET D : ~Fine(s)}
           Sizes == {Cardinality(s) : s \in Wrong}
<1>1. SUFFICES ASSUME Wrong # {} PROVE FALSE
  <2>1. D \in SUBSET D
    OBVIOUS
  <2> QED BY <2>1, SumsUnfold
<1>2. Sizes \in SUBSET Nat /\ Sizes # {}
  BY <1>1, PlacesFinite, FS_Subset, FS_CardinalityType
<1>3. PICK s \in Wrong : \A t \in Wrong : Cardinality(s) <= Cardinality(t)
  <2>1. PICK n \in Sizes : \A m \in Sizes : n <= m
    BY <1>2, SumRecursion!LeastRank
  <2>2. PICK s \in Wrong : n = Cardinality(s)
    OBVIOUS
  <2> QED BY <2>1, <2>2
<1>4. s # {}
  <2>1. Sums(f)[{}] = 0 /\ Sums(g)[{}] = 0
    BY SumsUnfold
  <2>2. Fine({})
    BY <2>1
  <2> HIDE DEF Fine
  <2> QED BY <2>2
<1> DEFINE x == AnyOf(s)
<1>5. x \in D /\ s \ {x} \in SUBSET D /\ Fine(s \ {x})
  <2>1. s \in SUBSET D
    OBVIOUS
  <2>2. /\ x \in D /\ s \ {x} \in SUBSET D /\ Cardinality(s) \in Nat
        /\ Cardinality(s \ {x}) \in Nat /\ Cardinality(s \ {x}) < Cardinality(s)
    BY <1>4, <2>1, OneLess
  <2>3. s \ {x} \in Wrong => Cardinality(s) <= Cardinality(s \ {x})
    BY <1>3
  <2> HIDE DEF x
  <2> QED BY <2>2, <2>3
<1>6. Sums(f)[s] = f[x] + Sums(f)[s \ {x}] /\ Sums(g)[s] = g[x] + Sums(g)[s \ {x}]
  <2>1. ASSUME NEW h \in [D -> Nat] PROVE Sums(h)[s] = h[x] + Sums(h)[s \ {x}]
    <3>1. s \in SUBSET D
      OBVIOUS
    <3> QED BY <1>4, <3>1, SumsUnfold
  <2> QED BY <2>1
<1> HIDE DEF x
<1>7. f[x] \in Nat /\ g[x] \in Nat /\ f[x] <= g[x]
  BY <1>5
<1>8. Fine(s)
  BY <1>5, <1>6, <1>7
<1> QED BY <1>8

-----------------------------------------------------------------------------
(* The estimate is never too large.                                        *)

\* The sizes of scalars.
LEMMA ScalarSizes ==
    ASSUME NEW v \in Values, v.t \notin {"array", "object"}
    PROVE  /\ EstimateScalar(v) \in Nat /\ SerializedScalar(v) \in Nat
           /\ EstimateScalar(v) <= SerializedScalar(v)
<1>1. v.t \in {"null", "boolean", "number", "string"}
  BY JsonTypes DEF AnyType
<1>2. /\ v.t = "number" => v.digits \in Nat
      /\ v.t = "string" => v.bytes \in Nat /\ v.escaped \in Nat
  BY ValuesAssumption DEF IsJson
<1>3. v.t = "null" => EstimateScalar(v) = 4 /\ SerializedScalar(v) = 4
  BY DEF EstimateScalar, SerializedScalar
<1>4. v.t = "boolean" => EstimateScalar(v) \in {4, 5} /\ SerializedScalar(v) = EstimateScalar(v)
  BY DEF EstimateScalar, SerializedScalar
<1>5. v.t = "number" => EstimateScalar(v) = v.digits /\ SerializedScalar(v) = v.digits
  BY DEF EstimateScalar, SerializedScalar
<1>6. v.t = "string" =>
        EstimateScalar(v) = v.bytes + 2 /\ SerializedScalar(v) = v.bytes + v.escaped + 2
  BY DEF EstimateScalar, SerializedScalar
<1> QED BY <1>1, <1>2, <1>3, <1>4, <1>5, <1>6

\* The places of a value and the commas between them.
LEMMA PlacesOf ==
    ASSUME NEW v \in Values
    PROVE  /\ v.t = "array" => DOMAIN v.items \in Places /\ Commas(Len(v.items)) \in Nat
           /\ v.t = "object" => DOMAIN v.fields \in Places /\ Commas(Cardinality(DOMAIN v.fields)) \in Nat
<1>1. \A n \in Nat : Commas(n) \in Nat
  BY DEF Commas
<1>2. v.t = "array" => Len(v.items) \in Nat
  BY ValuesAssumption DEF IsJson
<1>3. v.t = "object" => DOMAIN v.fields \in Places
  BY DEF Places
<1>4. v.t = "object" => Cardinality(DOMAIN v.fields) \in Nat
  BY <1>3, PlacesFinite, FS_CardinalityType
<1>5. v.t = "array" => DOMAIN v.items \in Places
  BY DEF Places
<1> QED BY <1>1, <1>2, <1>3, <1>4, <1>5

\* By the nesting: every value has a size.
LEMMA SizeIsNumber == \A v \in Values : SerializedSize[v] \in Nat
<1> DEFINE Wrong == {v \in Values : SerializedSize[v] \notin Nat}
           Ranks == {Nesting[v] : v \in Wrong}
<1>1. SUFFICES ASSUME Wrong # {} PROVE FALSE
  OBVIOUS
<1>2. Ranks \in SUBSET Nat /\ Ranks # {}
  BY <1>1, ValuesAssumption
<1>3. PICK v \in Wrong : \A w \in Wrong : Nesting[v] <= Nesting[w]
  <2>1. PICK n \in Ranks : \A m \in Ranks : n <= m
    BY <1>2, EstimateRecursion!LeastRank
  <2>2. PICK v \in Wrong : n = Nesting[v]
    OBVIOUS
  <2> QED BY <2>1, <2>2
<1>4. \A w \in Parts(v) : SerializedSize[w] \in Nat
  <2> TAKE w \in Parts(v)
  <2>1. w \in Values /\ Nesting[w] \in Nat /\ Nesting[v] \in Nat /\ Nesting[w] < Nesting[v]
    BY PartsInside, ValuesAssumption
  <2>2. w \in Wrong => Nesting[v] <= Nesting[w]
    BY <1>3
  <2> QED BY <2>1, <2>2
<1>5. SerializedSize[v] = SerializedBody(v, SerializedSize)
  BY SerializedUnfolds
<1>6. CASE v.t = "array"
  <2> DEFINE D == DOMAIN v.items
             a == [i \in D |-> SerializedSize[v.items[i]]]
  <2>1. a \in [D -> Nat]
    BY <1>4, <1>6, PartsInside
  <2>2. \A i \in D : a[i] <= a[i]
    BY <2>1
  <2>3. SerializedBody(v, SerializedSize) = 2 + SumFunction(a) + Commas(Len(v.items))
    BY <1>6 DEF SerializedBody
  <2> HIDE DEF a
  <2>4. SumFunction(a) \in Nat
    BY <1>6, <2>1, <2>2, PlacesOf, SumsCompare
  <2> QED BY <1>5, <1>6, <2>3, <2>4, PlacesOf
<1>7. CASE v.t = "object"
  <2> DEFINE D == DOMAIN v.fields
             a == [k \in D |-> QuotedName + 1 + SerializedSize[v.fields[k]]]
  <2>1. a \in [D -> Nat]
    BY <1>4, <1>7, PartsInside DEF QuotedName
  <2>2. \A k \in D : a[k] <= a[k]
    BY <2>1
  <2>3. SerializedBody(v, SerializedSize) = 2 + SumFunction(a) + Commas(Cardinality(DOMAIN v.fields))
    BY <1>7 DEF SerializedBody
  <2> HIDE DEF a
  <2>4. SumFunction(a) \in Nat
    BY <1>7, <2>1, <2>2, PlacesOf, SumsCompare
  <2> QED BY <1>5, <1>7, <2>3, <2>4, PlacesOf
<1>8. CASE v.t \notin {"array", "object"}
  BY <1>5, <1>8, ScalarSizes DEF SerializedBody
<1> QED BY <1>6, <1>7, <1>8

\* By the levels: what is in a value is not counted too large, or not at all.
LEMMA EstimateIsBelow ==
    \A left \in Nat, v \in Values :
      EstimateInner[<<left, v>>] \in Nat /\ EstimateInner[<<left, v>>] <= SerializedSize[v]
<1> DEFINE NotAbove(n, v) == EstimateInner[<<n, v>>] \in Nat /\ EstimateInner[<<n, v>>] <= SerializedSize[v]
           Wrong == {n \in Nat : ~\A v \in Values : NotAbove(n, v)}
<1>1. SUFFICES ASSUME Wrong # {} PROVE FALSE
  OBVIOUS
<1>2. PICK n \in Wrong : \A m \in Wrong : n <= m
  BY <1>1, EstimateRecursion!LeastRank
<1>3. PICK v \in Values : ~NotAbove(n, v)
  OBVIOUS
<1>4. /\ EstimateInner[<<n, v>>] = EstimateBody(<<n, v>>, EstimateInner)
      /\ SerializedSize[v] = SerializedBody(v, SerializedSize)
      /\ SerializedSize[v] \in Nat
  BY EstimateUnfolds, SerializedUnfolds, SizeIsNumber
<1>5. n # 0
  <2>1. n = 0 => EstimateBody(<<n, v>>, EstimateInner) = 0
    BY DEF EstimateBody
  <2> QED BY <1>3, <1>4, <2>1
<1>6. ASSUME NEW w \in Parts(v)
      PROVE  /\ EstimateInner[<<n - 1, w>>] \in Nat /\ SerializedSize[w] \in Nat
             /\ EstimateInner[<<n - 1, w>>] <= SerializedSize[w]
  <2>1. n - 1 \in Nat /\ w \in Values /\ n - 1 \notin Wrong
    BY <1>2, <1>5, PartsInside
  <2> QED BY <2>1, SizeIsNumber
<1>7. CASE v.t = "array"
  <2> DEFINE D == DOMAIN v.items
             a == [i \in D |-> EstimateInner[<<n - 1, v.items[i]>>]]
             b == [i \in D |-> SerializedSize[v.items[i]]]
  <2>1. a \in [D -> Nat] /\ b \in [D -> Nat] /\ \A i \in D : a[i] <= b[i]
    BY <1>6, <1>7, PartsInside
  <2>2. EstimateBody(<<n, v>>, EstimateInner) = 2 + SumFunction(a) + Commas(Len(v.items))
    BY <1>5, <1>7 DEF EstimateBody
  <2>3. SerializedBody(v, SerializedSize) = 2 + SumFunction(b) + Commas(Len(v.items))
    BY <1>7 DEF SerializedBody
  <2> HIDE DEF a, b
  <2>4. SumFunction(a) \in Nat /\ SumFunction(b) \in Nat /\ SumFunction(a) <= SumFunction(b)
    BY <1>7, <2>1, PlacesOf, SumsCompare
  <2> QED BY <1>3, <1>4, <1>7, <2>2, <2>3, <2>4, PlacesOf
<1>8. CASE v.t = "object"
  <2> DEFINE D == DOMAIN v.fields
             a == [k \in D |-> KeySize + EstimateInner[<<n - 1, v.fields[k]>>]]
             b == [k \in D |-> QuotedName + 1 + SerializedSize[v.fields[k]]]
  <2>1. a \in [D -> Nat] /\ b \in [D -> Nat] /\ \A k \in D : a[k] <= b[k]
    <3>1. ASSUME NEW k \in D
          PROVE  /\ EstimateInner[<<n - 1, v.fields[k]>>] \in Nat /\ SerializedSize[v.fields[k]] \in Nat
                 /\ EstimateInner[<<n - 1, v.fields[k]>>] <= SerializedSize[v.fields[k]]
      BY <1>6, <1>8, PartsInside
    <3>2. KeySize = 4 /\ QuotedName + 1 = 4
      BY DEF KeySize, QuotedName
    <3>3. ASSUME NEW k \in D
          PROVE  /\ KeySize + EstimateInner[<<n - 1, v.fields[k]>>] \in Nat
                 /\ QuotedName + 1 + SerializedSize[v.fields[k]] \in Nat
                 /\ KeySize + EstimateInner[<<n - 1, v.fields[k]>>]
                      <= QuotedName + 1 + SerializedSize[v.fields[k]]
      BY <3>1, <3>2
    <3> QED BY <3>3
  <2>2. EstimateBody(<<n, v>>, EstimateInner) = 2 + SumFunction(a) + Commas(Cardinality(DOMAIN v.fields))
    BY <1>5, <1>8 DEF EstimateBody
  <2>3. SerializedBody(v, SerializedSize) = 2 + SumFunction(b) + Commas(Cardinality(DOMAIN v.fields))
    BY <1>8 DEF SerializedBody
  <2> HIDE DEF a, b
  <2>4. SumFunction(a) \in Nat /\ SumFunction(b) \in Nat /\ SumFunction(a) <= SumFunction(b)
    BY <1>8, <2>1, PlacesOf, SumsCompare
  <2> QED BY <1>3, <1>4, <1>8, <2>2, <2>3, <2>4, PlacesOf
<1>9. CASE v.t \notin {"array", "object"}
  <2>1. EstimateBody(<<n, v>>, EstimateInner) = EstimateScalar(v)
    BY <1>5, <1>9 DEF EstimateBody
  <2>2. SerializedBody(v, SerializedSize) = SerializedScalar(v)
    BY <1>9 DEF SerializedBody
  <2> QED BY <1>3, <1>4, <1>9, <2>1, <2>2, ScalarSizes
<1> QED BY <1>7, <1>8, <1>9

\* The arguments of a call are values.
LEMMA CallOfValues == RegistrySpec => [](call.args \in Values)
<1>1. RegistryInit => call.args \in Values
  BY ValuesAssumption DEF RegistryInit
<1>2. call.args \in Values /\ [RegistryNext]_registryVars => (call.args \in Values)'
  <2> SUFFICES ASSUME call.args \in Values, [RegistryNext]_registryVars PROVE call'.args \in Values
    OBVIOUS
  <2>1. CASE UNCHANGED call
    BY <2>1
  <2>2. ASSUME NEW name \in Names, NEW args \in Values, Dispatch(name, args) PROVE call'.args \in Values
    BY <2>2 DEF Dispatch
  <2> QED BY <2>1, <2>2
       DEF RegistryNext, Register, RegisterPython, RegisterDotnet, RegisterUnvalidated,
           RegisterWithSchema, SetMaxArgsSize, registryVars
<1> QED BY <1>1, <1>2, PTL DEF RegistrySpec

\* The estimate of a call's arguments never exceeds what serde_json writes, and is that
\* when nothing is escaped or too deep, whatever the arguments (estimate_json_size).
THEOREM EstimateCorrect == RegistrySpec => []EstimateExact
<1>1. call.args \in Values => EstimateExact
  BY EstimateIsExact, EstimateIsBelow, DepthAssumption
  DEF EstimateExact, EstimateJsonSize, NotTooDeep
<1> QED BY <1>1, CallOfValues, PTL

\* Arguments that a Python tool returns unchanged come back unchanged or are refused
\* for their depth, but for integers beyond i64 (json_to_py, py_to_json).
THEOREM RoundTripCorrect == RegistrySpec => []RoundTrip
<1>1. call.args \in Values => RoundTrip
  BY ThereAndBack, DepthAssumption DEF RoundTrip, PyToJson, NotTooDeep
<1> QED BY <1>1, CallOfValues, PTL
===============================================================================
