------------------------------- MODULE SdkProofs -------------------------------
(***************************************************************************)
(* The handle of the C interface and the Python SDK both implement the     *)
(* contract of the SDKs, and lose tools and targets only by a build that   *)
(* fails; the handle builds what was configured, and the Python SDK limits *)
(* the file system as its caller asked.                                    *)
(***************************************************************************)
EXTENDS FfiProps, PyProps, SequenceTheorems, TLAPS

-----------------------------------------------------------------------------
(* The C interface.                                                        *)

\* The queue before the build and the grants after it hold accepted targets.
GrantsAccepted ==
    /\ ~built => Listed(pending) \subseteq accepted
    /\ built => Listed(permissions) \subseteq accepted

FfiIInv == FfiTypeOK /\ ConfigHeld /\ GrantsAccepted

\* Appending adds one element.
LEMMA ListedAppend ==
    ASSUME NEW S, NEW s \in Seq(S), NEW e \in S
    PROVE  Listed(Append(s, e)) = Listed(s) \cup {e}
<1>1. /\ Append(s, e) \in Seq(S)
      /\ DOMAIN Append(s, e) = 1 .. Len(s) + 1
      /\ DOMAIN s = 1 .. Len(s) /\ Len(s) \in Nat
      /\ \A i \in 1 .. Len(s) : Append(s, e)[i] = s[i]
      /\ Append(s, e)[Len(s) + 1] = e
  OBVIOUS
<1> QED BY <1>1 DEF Listed

\* An empty queue holds nothing.
LEMMA ListedEmpty == Listed(<<>>) = {}
  BY DEF Listed

\* set_filesystem_limits asks the core for limits of its type.
LEMMA SetLimitsType ==
    ASSUME NEW mode, NEW file \in LimitValues, NEW total \in LimitValues,
           NEW count \in LimitValues
    PROVE  SetLimits(mode, file, total, count) \subseteq FilesystemLimits
<1>1. file \in Nat /\ total \in Nat /\ count \in Nat
  BY FfiAssumption
<1> QED BY <1>1 DEF SetLimits, NewLimits, UnlimitedLimits, FilesystemLimits

\* Before handle_create nothing is configured.
THEOREM FfiBase == FfiInit => FfiIInv
<1> SUFFICES ASSUME FfiInit PROVE FfiIInv OBVIOUS
<1>1. FfiTypeOK
  <2>1. /\ tools \in [Tools -> Schemas \cup {Unregistered}]
        /\ snapshots \in [Snapshots -> Backends \cup {NoSnapshot}]
    BY DEF FfiInit
  <2>2. pending \in Seq(Domains) /\ permissions \in Seq(Domains)
    BY DEF FfiInit
  <2>3. given.tools \subseteq Tools
    BY DEF FfiInit
  <2>4. accepted \subseteq Domains /\ built = FALSE /\ interrupts = FALSE
    BY DEF FfiInit
  <2>5. DefaultLimits \in FilesystemLimits
    BY LimitsAssumption DEF DefaultLimits, FilesystemLimits
  <2> QED BY <2>1, <2>2, <2>3, <2>4, <2>5 DEF FfiInit, FfiTypeOK, Backends, DefaultSettings
<1>2. ConfigHeld /\ GrantsAccepted
  BY ListedEmpty DEF FfiInit, ConfigHeld, GrantsAccepted
<1> QED BY <1>1, <1>2 DEF FfiIInv

\* What a call that touches only the handle, snapshots or the reply keeps.
LEMMA Untouched ==
    ASSUME FfiIInv, UNCHANGED <<configVars, initVars>>,
           handle' \in {"none", "live", "freed"}, backend' \in Backends,
           snapshots' \in [Snapshots -> Backends \cup {NoSnapshot}],
           interrupts' \in BOOLEAN, reply' \in {"Success", "InvalidArgument", "Error"}
    PROVE  FfiIInv'
  BY DEF FfiIInv, FfiTypeOK, ConfigHeld, GrantsAccepted, Registered, configVars, initVars

\* Calls that configure nothing: the handle, its snapshots, its interrupt handle.
LEMMA HandleCallKeeps == ASSUME FfiIInv, HandleCall PROVE FfiIInv'
<1> USE DEF FfiIInv, FfiTypeOK, outVars, Live, Refuse
<1>1. CASE \E b \in Backends, modulePath \in BOOLEAN : Create(b, modulePath)
  BY <1>1, Untouched DEF Create
<1>2. CASE Free
  BY <1>2, Untouched DEF Free
<1>3. ASSUME NEW s \in Snapshots, TakeSnapshot(s) PROVE FfiIInv'
  <2>1. snapshots' \in [Snapshots -> Backends \cup {NoSnapshot}]
    BY <1>3 DEF TakeSnapshot
  <2> QED BY <1>3, <2>1, Untouched DEF TakeSnapshot
<1>4. ASSUME NEW s \in Snapshots, Restore(s) PROVE FfiIInv'
  BY <1>4, Untouched DEF Restore
<1>5. ASSUME NEW s \in Snapshots, FreeSnapshot(s) PROVE FfiIInv'
  BY <1>5, Untouched DEF FreeSnapshot
<1>6. ASSUME NEW s \in Snapshots, NEW b \in Backends, OtherSnapshot(s, b) PROVE FfiIInv'
  BY <1>6, Untouched DEF OtherSnapshot
<1>7. CASE FreeInterruptHandle
  BY <1>7, Untouched DEF FreeInterruptHandle
<1> QED BY <1>1, <1>2, <1>3, <1>4, <1>5, <1>6, <1>7 DEF HandleCall

\* Before the build any settings are as good as any other.
LEMMA ConfigureKeeps ==
    ASSUME FfiIInv, ~built,
           NEW s \in [input : BOOLEAN, output : BOOLEAN, temp : BOOLEAN,
                      limits : FilesystemLimits],
           Configure(s)
    PROVE  FfiIInv'
  BY DEF FfiIInv, FfiTypeOK, ConfigHeld, GrantsAccepted, Configure, initVars, outVars

\* A refused call changes the answer alone.
LEMMA RefuseKeeps ==
    ASSUME FfiIInv, NEW code \in {"InvalidArgument", "Error"}, Refuse(code)
    PROVE  FfiIInv'
  BY Untouched DEF Refuse, FfiIInv, FfiTypeOK, outVars

\* register_tool: a name that is free, before the build.
LEMMA RegisterToolKeeps ==
    ASSUME FfiIInv, NEW t \in Tools, NEW schema \in Schemas, RegisterTool(t, schema)
    PROVE  FfiIInv'
<1>1. CASE built \/ tools[t] # Unregistered
  BY <1>1, RefuseKeeps DEF RegisterTool
<1>2. CASE ~(built \/ tools[t] # Unregistered)
  BY <1>2 DEF RegisterTool, FfiIInv, FfiTypeOK, ConfigHeld, GrantsAccepted, initVars, outVars
<1> QED BY <1>1, <1>2

\* allow_domain: queued before the build, granted after it.
LEMMA AllowDomainKeeps ==
    ASSUME FfiIInv, NEW d \in Domains, NEW jsonOk \in BOOLEAN, AllowDomain(d, jsonOk)
    PROVE  FfiIInv'
<1>1. CASE Refuse("InvalidArgument") \/ Refuse("Error")
  BY <1>1, RefuseKeeps
<1>2. CASE built /\ permissions' = Append(permissions, d) /\ UNCHANGED pending /\ Allowed(d)
  <2>1. permissions' \in Seq(Domains) /\ Listed(permissions') = Listed(permissions) \cup {d}
    BY <1>2, ListedAppend DEF FfiIInv, FfiTypeOK
  <2> QED BY <1>2, <2>1
          DEF FfiIInv, FfiTypeOK, ConfigHeld, GrantsAccepted, Allowed, outVars, Registered
<1>3. CASE ~built /\ pending' = Append(pending, d) /\ UNCHANGED permissions /\ Allowed(d)
  <2>1. pending' \in Seq(Domains) /\ Listed(pending') = Listed(pending) \cup {d}
    BY <1>3, ListedAppend DEF FfiIInv, FfiTypeOK
  <2> QED BY <1>3, <2>1
          DEF FfiIInv, FfiTypeOK, ConfigHeld, GrantsAccepted, Allowed, outVars, Registered
<1> QED BY <1>1, <1>2, <1>3 DEF AllowDomain

\* The calls that configure the handle.
LEMMA ConfigCallKeeps == ASSUME FfiIInv, ConfigCall PROVE FfiIInv'
<1> DEFINE Settings == [input : BOOLEAN, output : BOOLEAN, temp : BOOLEAN,
                        limits : FilesystemLimits]
<1>0. settings \in Settings BY DEF FfiIInv, FfiTypeOK
<1>1. CASE SetInputDir
  <2>1. [settings EXCEPT !.input = TRUE] \in Settings BY <1>0
  <2> QED BY <1>1, <2>1, ConfigureKeeps, RefuseKeeps DEF SetInputDir
<1>2. CASE SetOutputDir
  <2>1. [settings EXCEPT !.output = TRUE] \in Settings BY <1>0
  <2> QED BY <1>2, <2>1, ConfigureKeeps, RefuseKeeps DEF SetOutputDir
<1>3. ASSUME NEW enabled \in BOOLEAN, SetTempOutput(enabled) PROVE FfiIInv'
  <2>1. [settings EXCEPT !.temp = enabled] \in Settings BY <1>0
  <2> QED BY <1>3, <2>1, ConfigureKeeps, RefuseKeeps DEF SetTempOutput
<1>4. ASSUME NEW mode, NEW file \in LimitValues, NEW total \in LimitValues,
             NEW count \in LimitValues, SetFilesystemLimits(mode, file, total, count)
      PROVE  FfiIInv'
  <2>1. CASE Refuse("InvalidArgument")
    BY <2>1, RefuseKeeps
  <2>2. ASSUME NEW chosen \in SetLimits(mode, file, total, count), ~built,
               Configure([settings EXCEPT !.limits = chosen])
        PROVE  FfiIInv'
    <3>1. chosen \in FilesystemLimits BY SetLimitsType
    <3>2. [settings EXCEPT !.limits = chosen] \in Settings BY <1>0, <3>1
    <3> QED BY <2>2, <3>2, ConfigureKeeps
  <2> QED BY <1>4, <2>1, <2>2 DEF SetFilesystemLimits
<1> QED BY <1>1, <1>2, <1>3, <1>4, RegisterToolKeeps, AllowDomainKeeps DEF ConfigCall

\* The build: it takes the queue, and makes the sandbox only when all of it is granted.
LEMMA EnsureInitializedKeeps ==
    ASSUME FfiIInv, EnsureInitialized, UNCHANGED <<handle, backend, configVars, snapshots>>,
           interrupts' \in BOOLEAN, reply' \in {"Success", "InvalidArgument", "Error"}
    PROVE  FfiIInv'
<1>1. CASE UNCHANGED initVars
  BY <1>1, Untouched DEF FfiIInv, FfiTypeOK
<1>2. CASE ~built /\ ApplyPending /\ PendingApplies
  <2>1. /\ pending' = <<>> /\ built' = TRUE
        /\ given' = [fs |-> Filesystem(settings), tools |-> Registered]
        /\ permissions' = pending
    BY <1>2 DEF ApplyPending
  <2>2. Listed(permissions') \subseteq accepted
    BY <1>2, <2>1 DEF FfiIInv, GrantsAccepted
  <2>3. pending' \in Seq(Domains)
    BY <2>1
  <2>4. Registered \subseteq Tools /\ Registered' = Registered
    BY DEF Registered, configVars
  <2> QED BY <2>1, <2>2, <2>3, <2>4 DEF FfiIInv, FfiTypeOK, ConfigHeld, GrantsAccepted, configVars
<1>3. CASE ~built /\ ApplyPending /\ ~PendingApplies
  <2>1. pending' = <<>> /\ UNCHANGED <<built, given, permissions>>
    BY <1>3 DEF ApplyPending
  <2>2. pending' \in Seq(Domains) /\ Listed(pending') = {}
    BY <2>1, ListedEmpty
  <2> QED BY <1>3, <2>1, <2>2 DEF FfiIInv, FfiTypeOK, ConfigHeld, GrantsAccepted, configVars, Registered
<1> QED BY <1>1, <1>2, <1>3 DEF EnsureInitialized, BuildFails

\* Every call of the C interface keeps the invariant.
THEOREM FfiStep == FfiIInv /\ [FfiNext]_ffiVars => FfiIInv'
<1> SUFFICES ASSUME FfiIInv, [FfiNext]_ffiVars PROVE FfiIInv' OBVIOUS
<1>1. CASE Run
  BY <1>1, EnsureInitializedKeeps DEF Run, outVars, FfiIInv, FfiTypeOK
<1>2. CASE GetInterruptHandle
  BY <1>2, EnsureInitializedKeeps DEF GetInterruptHandle, FfiIInv, FfiTypeOK
<1>3. CASE GetOutputFiles \/ OutputPath
  BY <1>3, Untouched DEF GetOutputFiles, OutputPath, outVars, FfiIInv, FfiTypeOK
<1>4. CASE UNCHANGED ffiVars
  BY <1>4, Untouched DEF ffiVars, outVars, FfiIInv, FfiTypeOK
<1> QED BY <1>1, <1>2, <1>3, <1>4, HandleCallKeeps, ConfigCallKeeps DEF FfiNext

\* The invariant holds after any calls in any order (exports of lib.rs).
THEOREM FfiInvariant == FfiSpec => []FfiIInv
<1> QED BY FfiBase, FfiStep, PTL DEF FfiSpec

\* The shape of a handle's state, after any calls in any order.
THEOREM FfiTypeCorrect == FfiSpec => []FfiTypeOK
<1>1. FfiIInv => FfiTypeOK BY DEF FfiIInv
<1> QED BY <1>1, FfiInvariant, PTL

\* A built sandbox has just the tools that were registered and the filesystem
\* the settings ask for (ensure_initialized, and the refusals after the build).
THEOREM ConfigHeldCorrect == FfiSpec => []ConfigHeld
<1>1. FfiIInv => ConfigHeld BY DEF FfiIInv
<1> QED BY <1>1, FfiInvariant, PTL

-----------------------------------------------------------------------------
(* The contract of the SDKs.                                               *)

\* What the contract does not see is a stutter.
LEMMA ContractStutters ==
    ASSUME UNCHANGED <<tools, accepted, built, given, permissions>>
    PROVE  UNCHANGED Contract!contractVars
  BY DEF Contract!contractVars, Registered

\* A registration is one of the contract, or nothing to it.
LEMMA RegisterToolAccepts ==
    ASSUME FfiIInv, NEW t \in Tools, NEW schema \in Schemas, RegisterTool(t, schema)
    PROVE  [Contract!Next]_Contract!contractVars
<1>1. CASE built \/ tools[t] # Unregistered
  BY <1>1, ContractStutters DEF RegisterTool, Refuse, configVars, initVars
<1>2. CASE ~(built \/ tools[t] # Unregistered)
  <2>1. /\ ~built /\ tools' = [tools EXCEPT ![t] = schema]
        /\ UNCHANGED <<accepted, built, given, permissions>>
    BY <1>2 DEF RegisterTool, initVars
  <2>2. Registered' = Registered \cup {t}
    BY <2>1 DEF Registered, FfiIInv, FfiTypeOK, Schemas, Unregistered
  <2>3. Contract!Accept({t})
    BY <2>1, <2>2 DEF Contract!Accept
  <2> QED BY <2>3 DEF Contract!Next
<1> QED BY <1>1, <1>2

\* An accepted target is accepted in the contract, a refused one is nothing to it.
LEMMA AllowDomainAccepts ==
    ASSUME FfiIInv, NEW d \in Domains, NEW jsonOk \in BOOLEAN, AllowDomain(d, jsonOk)
    PROVE  [Contract!Next]_Contract!contractVars
<1>1. CASE Refuse("InvalidArgument") \/ Refuse("Error")
  BY <1>1, ContractStutters DEF Refuse, configVars, initVars
<1>2. CASE built /\ permissions' = Append(permissions, d) /\ Allowed(d)
  <2>1. /\ Listed(permissions') = Listed(permissions) \cup {d}
        /\ accepted' = accepted \cup {d} /\ UNCHANGED <<tools, built, given>>
    BY <1>2, ListedAppend DEF FfiIInv, FfiTypeOK, Allowed
  <2>2. Registered' = Registered
    BY <2>1 DEF Registered
  <2>3. Contract!Grant(d)
    BY <1>2, <2>1, <2>2 DEF Contract!Grant
  <2> QED BY <2>3 DEF Contract!Next
<1>3. CASE ~built /\ UNCHANGED permissions /\ Allowed(d)
  <2>1. Registered' = Registered
    BY <1>3 DEF Registered, Allowed
  <2>2. Contract!Accept({d})
    BY <1>3, <2>1 DEF Contract!Accept, Allowed
  <2> QED BY <2>2 DEF Contract!Next
<1> QED BY <1>1, <1>2, <1>3 DEF AllowDomain

\* A build that succeeds is the build of the contract, one that fails is nothing to it.
LEMMA EnsureInitializedBuilds ==
    ASSUME FfiIInv, EnsureInitialized, UNCHANGED configVars
    PROVE  [Contract!Next]_Contract!contractVars
<1>1. CASE UNCHANGED initVars
  BY <1>1, ContractStutters DEF configVars, initVars
<1>2. CASE ~built /\ ApplyPending /\ PendingApplies
  <2>1. /\ built' = TRUE /\ permissions' = pending
        /\ given'.tools = Registered
    BY <1>2 DEF ApplyPending
  <2>2. Registered' = Registered /\ accepted' = accepted
    BY DEF Registered, configVars
  <2>3. Listed(permissions') \subseteq accepted
    BY <1>2, <2>1 DEF FfiIInv, GrantsAccepted
  <2>4. Contract!Build({})
    BY <1>2, <2>1, <2>2, <2>3 DEF Contract!Build
  <2> QED BY <2>4 DEF Contract!Next
<1>3. CASE ~built /\ ApplyPending /\ ~PendingApplies
  BY <1>3, ContractStutters DEF ApplyPending, configVars
<1> QED BY <1>1, <1>2, <1>3 DEF EnsureInitialized, BuildFails

\* Every call of the C interface is a step of the contract or none.
LEMMA FfiSimulates == FfiIInv /\ [FfiNext]_ffiVars => [Contract!Next]_Contract!contractVars
<1> SUFFICES ASSUME FfiIInv, [FfiNext]_ffiVars PROVE [Contract!Next]_Contract!contractVars OBVIOUS
<1>1. CASE HandleCall
  BY <1>1, ContractStutters
  DEF HandleCall, Create, Free, TakeSnapshot, Refuse, Restore, FreeSnapshot, OtherSnapshot,
      FreeInterruptHandle, configVars, initVars
<1>2. CASE SetInputDir \/ SetOutputDir \/ \E enabled \in BOOLEAN : SetTempOutput(enabled)
  BY <1>2, ContractStutters
  DEF SetInputDir, SetOutputDir, SetTempOutput, Configure, Refuse, configVars, initVars
<1>3. CASE \E mode \in {"finite", "unlimited", "other"}, file, total, count \in LimitValues :
           SetFilesystemLimits(mode, file, total, count)
  BY <1>3, ContractStutters DEF SetFilesystemLimits, Configure, Refuse, configVars, initVars
<1>4. CASE Run \/ GetInterruptHandle
  BY <1>4, EnsureInitializedBuilds DEF Run, GetInterruptHandle
<1>5. CASE GetOutputFiles \/ OutputPath \/ UNCHANGED ffiVars
  BY <1>5, ContractStutters DEF GetOutputFiles, OutputPath, ffiVars, configVars, initVars
<1> QED
  BY <1>1, <1>2, <1>3, <1>4, <1>5, RegisterToolAccepts, AllowDomainAccepts DEF FfiNext, ConfigCall

\* Every call of the C interface is a step of the contract of the SDKs or none
\* (SdkContract): the guest never has what no call accepted, tools are fixed by the
\* build, and only targets are added after it.
THEOREM FfiContract == FfiSpec => ContractSpec
<1>1. FfiInit => Contract!Init
  BY ListedEmpty DEF FfiInit, Contract!Init, Registered
<1> QED BY <1>1, FfiSimulates, FfiInvariant, PTL DEF FfiSpec, ContractSpec, Contract!Spec

-----------------------------------------------------------------------------
(* Nothing is lost while the queue stays acceptable.                       *)

\* Every accepted target is in the queue or, after the build, granted.
NothingLost ==
    /\ ~built => Listed(pending) = accepted
    /\ built => Listed(permissions) = accepted

\* While no queued target is rejected, what was accepted waits or is granted.
LEMMA NothingLostKept ==
    ASSUME FfiIInv, PendingApplies, NothingLost, [FfiNext]_ffiVars
    PROVE  NothingLost'
<1>1. CASE UNCHANGED <<pending, built, permissions, accepted>>
  BY <1>1 DEF NothingLost
<1>2. ASSUME NEW d \in Domains, NEW jsonOk \in BOOLEAN, AllowDomain(d, jsonOk)
      PROVE  NothingLost'
  <2>1. CASE Refuse("InvalidArgument") \/ Refuse("Error")
    BY <1>1, <2>1 DEF Refuse, configVars, initVars
  <2>2. CASE built /\ permissions' = Append(permissions, d) /\ Allowed(d)
    BY <2>2, ListedAppend DEF NothingLost, FfiIInv, FfiTypeOK, Allowed
  <2>3. CASE ~built /\ pending' = Append(pending, d) /\ Allowed(d)
    BY <2>3, ListedAppend DEF NothingLost, FfiIInv, FfiTypeOK, Allowed
  <2> QED BY <1>2, <2>1, <2>2, <2>3 DEF AllowDomain
<1>3. ASSUME EnsureInitialized, UNCHANGED configVars PROVE NothingLost'
  BY <1>1, <1>3 DEF EnsureInitialized, BuildFails, ApplyPending, NothingLost, initVars, configVars
<1>4. CASE HandleCall
  BY <1>1, <1>4
  DEF HandleCall, Create, Free, TakeSnapshot, Refuse, Restore, FreeSnapshot, OtherSnapshot,
      FreeInterruptHandle, configVars, initVars
<1>5. CASE SetInputDir \/ SetOutputDir \/ \E enabled \in BOOLEAN : SetTempOutput(enabled)
  BY <1>1, <1>5
  DEF SetInputDir, SetOutputDir, SetTempOutput, Configure, Refuse, configVars, initVars
<1>6. CASE \E mode \in {"finite", "unlimited", "other"}, file, total, count \in LimitValues :
           SetFilesystemLimits(mode, file, total, count)
  BY <1>1, <1>6 DEF SetFilesystemLimits, Configure, Refuse, configVars, initVars
<1>7. CASE \E t \in Tools, schema \in Schemas : RegisterTool(t, schema)
  BY <1>1, <1>7 DEF RegisterTool, Refuse, configVars, initVars
<1>8. CASE Run \/ GetInterruptHandle
  BY <1>3, <1>8 DEF Run, GetInterruptHandle
<1>9. CASE GetOutputFiles \/ OutputPath \/ UNCHANGED ffiVars
  BY <1>1, <1>9 DEF GetOutputFiles, OutputPath, ffiVars, configVars, initVars
<1> QED BY <1>2, <1>4, <1>5, <1>6, <1>7, <1>8, <1>9 DEF FfiNext, ConfigCall

\* A build that fails for a reason of its own loses no target: as long as no queued
\* target is one the core rejects, the sandbox that is built at last grants them all.
THEOREM NoLossCorrect == FfiSpec => NoLossWithoutRejection
<1>1. FfiInit => NothingLost
  BY ListedEmpty DEF FfiInit, NothingLost
<1>2. FfiIInv /\ PendingApplies /\ NothingLost /\ [FfiNext]_ffiVars => NothingLost'
  BY NothingLostKept
<1>3. NothingLost => (built => Listed(permissions) = accepted)
  BY DEF NothingLost
<1> QED BY <1>1, <1>2, <1>3, FfiInvariant, PTL DEF FfiSpec, NoLossWithoutRejection

-----------------------------------------------------------------------------
(* The Python SDK.                                                         *)

\* Before the native object exists nothing is registered, queued or built.
NothingYet ==
    ~created =>
      /\ ~pyBuilt /\ pyTools = {} /\ held = {}
      /\ pyPending = <<>> /\ pyAccepted = {}

\* What waits for the build was accepted, and what is in force too.
OnlyAccepted ==
    /\ pyTools \subseteq held
    /\ Targets(pyPending) \subseteq pyAccepted

PyIInv == PyTypeOK /\ NothingYet /\ OnlyAccepted

\* Appending adds one element.
LEMMA TargetsAppend ==
    ASSUME NEW S, NEW s \in Seq(S), NEW e \in S
    PROVE  Targets(Append(s, e)) = Targets(s) \cup {e}
<1>1. /\ Append(s, e) \in Seq(S)
      /\ DOMAIN Append(s, e) = 1 .. Len(s) + 1
      /\ DOMAIN s = 1 .. Len(s) /\ Len(s) \in Nat
      /\ \A i \in 1 .. Len(s) : Append(s, e)[i] = s[i]
      /\ Append(s, e)[Len(s) + 1] = e
  OBVIOUS
<1> QED BY <1>1 DEF Targets

\* An empty queue holds nothing.
LEMMA TargetsEmpty == Targets(<<>>) = {}
  BY DEF Targets

-----------------------------------------------------------------------------
(* The limits of the file system.                                          *)

\* What a size argument comes to: the number it means, when that fits u64.
LEMMA SizeMeant ==
    ASSUME NEW opt \in Option(Sizes), NEW default \in 0 .. MaxU64,
           NEW size \in SizeOr(opt, default)
    PROVE  /\ size \in 0 .. MaxU64
           /\ {size} = IF opt = {} THEN {default} ELSE {Meant(t) : t \in opt}
<1>1. CASE opt = {}
  BY <1>1 DEF SizeOr
<1>2. CASE opt # {}
  <2>1. PICK t \in Sizes : opt = {t}
    BY <1>2 DEF Option
  <2>2. size \in ParseSize(t)
    BY <1>2, <2>1 DEF SizeOr
  <2>3. size \in 0 .. MaxU64 /\ size = Meant(t)
    BY <2>2 DEF ParseSize, Meant
  <2> QED BY <1>2, <2>1, <2>3
<1> QED BY <1>1, <1>2

\* LimitsAsAsked, for any limits and any arguments.
AsAsked(opt, a) ==
    \E l \in IF opt = {} THEN {DefaultLimits} ELSE opt :
      /\ IF a.mode # {}
         THEN /\ a = [NoArguments EXCEPT !.mode = {"unlimited"}]
              /\ l = UnlimitedLimits
         ELSE /\ l.file = IF a.file = {} THEN {DefaultFileSize} ELSE {Meant(t) : t \in a.file}
              /\ l.total = IF a.total = {} THEN {DefaultTotalSize} ELSE {Meant(t) : t \in a.total}
              /\ l.count = IF a.count = {} THEN {DefaultFileCount} ELSE a.count
      /\ \E mode \in {"finite", "unlimited"}, file, total \in 0 .. MaxU64, count \in 0 .. MaxUsize :
           l \in SetLimits(mode, file, total, count)

\* The C interface gives finite limits that fit and, for zeros, none.
LEMMA CanSet ==
    /\ \A file \in 0 .. MaxI64, total \in 0 .. MaxU64, count \in 0 .. MaxUsize :
         SetLimits("finite", file, total, count)
           = {[file |-> {file}, total |-> {total}, count |-> {count}]}
    /\ SetLimits("unlimited", 0, 0, 0) = {UnlimitedLimits}
    /\ 0 \in 0 .. MaxU64 /\ 0 \in 0 .. MaxUsize /\ 0 .. MaxI64 \subseteq 0 .. MaxU64
  BY LimitsAssumption DEF SetLimits, NewLimits

\* parse_filesystem_limits gives what was asked, as limits of the core.
LEMMA ParseAsAsked ==
    ASSUME NEW a \in Arguments, NEW opt \in ParseFilesystemLimits(a)
    PROVE  opt \subseteq FilesystemLimits /\ AsAsked(opt, a)
<1>1. CASE a.mode # {}
  <2>1. /\ a.mode = {"unlimited"} /\ a.file = {} /\ a.total = {} /\ a.count = {}
        /\ opt = {UnlimitedLimits}
    BY <1>1 DEF ParseFilesystemLimits
  <2>2. a = [NoArguments EXCEPT !.mode = {"unlimited"}]
    BY <2>1 DEF Arguments, NoArguments
  <2>3. UnlimitedLimits \in FilesystemLimits
    BY DEF UnlimitedLimits, FilesystemLimits
  <2> QED BY <1>1, <2>1, <2>2, <2>3, CanSet DEF AsAsked
<1>2. CASE a.mode = {} /\ a.file = {} /\ a.total = {} /\ a.count = {}
  <2>1. opt = {}
    BY <1>2 DEF ParseFilesystemLimits
  <2>2. DefaultLimits \in SetLimits("finite", DefaultFileSize, DefaultTotalSize, DefaultFileCount)
    BY CanSet, LimitsAssumption DEF DefaultLimits
  <2>3. \E mode \in {"finite", "unlimited"}, file, total \in 0 .. MaxU64, count \in 0 .. MaxUsize :
           DefaultLimits \in SetLimits(mode, file, total, count)
    BY <2>2, CanSet, LimitsAssumption
  <2> QED BY <1>2, <2>1, <2>3 DEF AsAsked, DefaultLimits
<1>3. CASE a.mode = {} /\ (a.file # {} \/ a.total # {} \/ a.count # {})
  <2> DEFINE CountOf == IF a.count = {} THEN {DefaultFileCount} ELSE a.count
  <2>1. PICK file \in SizeOr(a.file, DefaultFileSize), total \in SizeOr(a.total, DefaultTotalSize),
             count \in CountOf : \E l \in NewLimits(file, total, count) : opt = {l}
    BY <1>3 DEF ParseFilesystemLimits
  <2>2. a.file \in Option(Sizes) /\ a.total \in Option(Sizes) /\ a.count \in Option(Counts)
    BY DEF Arguments
  <2>3. DefaultFileSize \in 0 .. MaxU64 /\ DefaultTotalSize \in 0 .. MaxU64
    BY LimitsAssumption
  <2>4. /\ file \in 0 .. MaxU64
        /\ {file} = IF a.file = {} THEN {DefaultFileSize} ELSE {Meant(t) : t \in a.file}
    BY <2>2, <2>3, SizeMeant
  <2>5. /\ total \in 0 .. MaxU64
        /\ {total} = IF a.total = {} THEN {DefaultTotalSize} ELSE {Meant(t) : t \in a.total}
    BY <2>2, <2>3, SizeMeant
  <2>6. count \in 0 .. MaxUsize /\ {count} = CountOf
    BY <2>2, LimitsAssumption, PyAssumption DEF Option
  <2> DEFINE l == [file |-> {file}, total |-> {total}, count |-> {count}]
  <2>7. file <= MaxI64 /\ opt = {l}
    <3>1. NewLimits(file, total, count) = (IF file > MaxI64 THEN {} ELSE {l})
      BY DEF NewLimits
    <3> HIDE DEF l
    <3>2. ~(file > MaxI64) /\ opt = {l}
      BY <2>1, <3>1
    <3> QED BY <2>4, <3>2, LimitsAssumption
  <2>8. file \in 0 .. MaxI64
    BY <2>4, <2>7, LimitsAssumption
  <2>9. SetLimits("finite", file, total, count) = {l}
    BY <2>5, <2>6, <2>8, CanSet
  <2>10. l \in FilesystemLimits
    BY <2>4, <2>5, <2>6 DEF FilesystemLimits
  <2>11. \E mode \in {"finite", "unlimited"}, f, t \in 0 .. MaxU64, c \in 0 .. MaxUsize :
           l \in SetLimits(mode, f, t, c)
    BY <2>4, <2>5, <2>6, <2>9
  <2>12. l.file = {file} /\ l.total = {total} /\ l.count = {count}
    OBVIOUS
  <2> HIDE DEF l
  <2> QED BY <1>3, <2>4, <2>5, <2>6, <2>7, <2>10, <2>11, <2>12 DEF AsAsked
<1> QED BY <1>1, <1>2, <1>3

\* What making the native object leaves.
LEMMA MakeType ==
    ASSUME NEW a \in Arguments, Make(a)
    PROVE  /\ created' = TRUE /\ asked' = a /\ AsAsked(limits', a)
           /\ limits' \subseteq FilesystemLimits
  BY ParseAsAsked DEF Make

-----------------------------------------------------------------------------
\* Before any call nothing is configured.
LEMMA PyInitEstablishes == PyInit => PyIInv
<1> SUFFICES ASSUME PyInit PROVE PyIInv OBVIOUS
<1>1. pyPending \in Seq(PyDomains) /\ pyPermissions \in Seq(PyDomains)
  BY DEF PyInit
<1>2. asked \in Arguments
  BY DEF PyInit, NoArguments, Arguments, Option
<1> QED BY <1>1, <1>2, TargetsEmpty DEF PyInit, PyIInv, PyTypeOK, NothingYet, OnlyAccepted

-----------------------------------------------------------------------------
(* The invariant.                                                          *)

\* What a call that raises keeps.
LEMMA PyRaiseKeeps == ASSUME PyIInv, NEW why \in {"ok", "raised"}, Raise(why) PROVE PyIInv'
  BY DEF Raise, PyIInv, PyTypeOK, NothingYet, OnlyAccepted, ownVars, object, nativeVars, history

\* new() makes the object or nothing.
LEMMA PyNewKeeps == ASSUME PyIInv, NEW ok, NEW a \in Arguments, New(ok, a) PROVE PyIInv'
<1>1. \/ Make(a) /\ pyReply' = "ok"
      \/ pyReply' = "raised" /\ UNCHANGED object
  BY DEF New
<1>2. UNCHANGED <<ownVars, nativeVars, history>>
  BY DEF New
<1>3. /\ created' \in BOOLEAN /\ limits' \subseteq FilesystemLimits /\ asked' \in Arguments
      /\ ~created' => ~created
  BY <1>1, MakeType DEF object, PyIInv, PyTypeOK
<1> QED BY <1>1, <1>2, <1>3
        DEF PyIInv, PyTypeOK, NothingYet, OnlyAccepted, ownVars, nativeVars, history

\* register_tool before the build.
LEMMA PyRegisterToolKeeps ==
    ASSUME PyIInv, NEW t \in PyTools, NEW form, PyRegisterTool(t, form)
    PROVE  PyIInv'
<1>1. CASE Raise("raised")
  BY <1>1, PyRaiseKeeps
<1>2. CASE ~Raise("raised")
  BY <1>2 DEF PyRegisterTool, Usable, PyIInv, PyTypeOK, NothingYet, OnlyAccepted, ownVars, object
<1> QED BY <1>1, <1>2

\* allow_domain queues a target or grants it.
LEMMA PyAllowDomainKeeps == ASSUME PyIInv, NEW d \in PyDomains, PyAllowDomain(d) PROVE PyIInv'
<1>1. CASE Raise("raised")
  BY <1>1, PyRaiseKeeps
<1>2. CASE ~Raise("raised")
  <2>1. /\ pyPending' \in {pyPending, Append(pyPending, d)}
        /\ pyPermissions' \in {pyPermissions, Append(pyPermissions, d)}
        /\ pyAccepted' = pyAccepted \cup {d} /\ pyReply' = "ok" /\ created
        /\ UNCHANGED <<ownVars, object, pyTools, pyBuilt, pyGiven, held, ran>>
    BY <1>2 DEF PyAllowDomain, Usable
  <2>2. pyPending \in Seq(PyDomains) /\ pyPermissions \in Seq(PyDomains)
    BY DEF PyIInv, PyTypeOK
  <2>3. /\ Append(pyPending, d) \in Seq(PyDomains)
        /\ Append(pyPermissions, d) \in Seq(PyDomains)
    BY <2>2
  <2>4. Targets(Append(pyPending, d)) = Targets(pyPending) \cup {d}
    BY <2>2, TargetsAppend
  <2>5. Targets(pyPending') \subseteq Targets(pyPending) \cup {d}
    BY <2>1, <2>4
  <2>6. pyPending' \in Seq(PyDomains) /\ pyPermissions' \in Seq(PyDomains)
    BY <2>1, <2>2, <2>3
  <2> QED BY <2>1, <2>5, <2>6 DEF PyIInv, PyTypeOK, NothingYet, OnlyAccepted, ownVars, object
<1> QED BY <1>1, <1>2

\* The lazy build, whether it succeeds or fails, for any registry that was accepted.
LEMMA PyBuildKeeps ==
    ASSUME PyIInv, NEW registered \in SUBSET PyTools, Build(registered) \/ PyBuildFails(registered),
           created', limits' \subseteq FilesystemLimits, asked' \in Arguments,
           held' \in SUBSET PyTools, UNCHANGED <<ownVars, pyAccepted>>, ran' \in BOOLEAN,
           pyReply' \in {"ok", "raised", "buildFailed"}
    PROVE  PyIInv'
<1>1. /\ pyTools' = {} /\ pyPending' \in {pyPending, <<>>}
      /\ pyBuilt' \in BOOLEAN /\ pyGiven' \subseteq PyTools
      /\ pyPermissions' \in {pyPermissions, pyPending}
  BY DEF Build, PyBuildFails, PyBuildToolRegistry, PyIInv, PyTypeOK
<1>2. /\ pyPending \in Seq(PyDomains) /\ <<>> \in Seq(PyDomains)
      /\ Targets(pyPending) \subseteq pyAccepted
  BY DEF PyIInv, PyTypeOK, OnlyAccepted
<1>3. Targets(pyPending') \subseteq pyAccepted /\ pyPending' \in Seq(PyDomains)
  BY <1>1, <1>2, TargetsEmpty
<1> QED BY <1>1, <1>3 DEF PyIInv, PyTypeOK, NothingYet, OnlyAccepted, ownVars

\* A run: the build if it is the first, then the guest.
LEMMA PyExecuteKeeps ==
    ASSUME PyIInv, NEW registered \in SUBSET PyTools, Execute(registered),
           created', limits' \subseteq FilesystemLimits, asked' \in Arguments,
           held' \in SUBSET PyTools, created => held' = held,
           UNCHANGED <<ownVars, pyAccepted>>
    PROVE  PyIInv'
<1>1. CASE pyBuilt /\ UNCHANGED nativeVars /\ ran' = TRUE /\ pyReply' \in {"ok", "raised"}
  BY <1>1 DEF PyIInv, PyTypeOK, NothingYet, OnlyAccepted, ownVars, nativeVars
<1>2. CASE Build(registered) \/ PyBuildFails(registered)
  BY <1>2, PyBuildKeeps DEF Execute, PyIInv, PyTypeOK
<1> QED BY <1>1, <1>2 DEF Execute

\* _get_sandbox and run of CodeExecutionTool.
LEMMA AgentRunKeeps == ASSUME PyIInv, AgentRun PROVE PyIInv'
<1>1. CASE GetSandboxRaises
  BY <1>1, MakeType DEF GetSandboxRaises, PyIInv, PyTypeOK, NothingYet, OnlyAccepted, ownVars, object
<1>2. CASE GetSandbox /\ UNCHANGED <<ownVars, pyAccepted>>
  BY <1>2, MakeType, PyExecuteKeeps DEF GetSandbox, PyIInv, PyTypeOK
<1>3. CASE created /\ Execute(pyTools) /\ UNCHANGED <<ownVars, object, held, pyAccepted>>
  BY <1>3, PyExecuteKeeps DEF PyIInv, PyTypeOK, object
<1> QED BY <1>1, <1>2, <1>3 DEF AgentRun

\* Every call of the Python SDK keeps the invariant.
LEMMA PyStep == PyIInv /\ [PyNext]_pyVars => PyIInv'
<1> SUFFICES ASSUME PyIInv, [PyNext]_pyVars PROVE PyIInv' OBVIOUS
<1>1. ASSUME NEW ok \in BOOLEAN, NEW a \in Arguments, New(ok, a) PROVE PyIInv'
  BY <1>1, PyNewKeeps
<1>2. CASE PyRun
  BY <1>2, PyExecuteKeeps DEF PyRun, Usable, PyIInv, PyTypeOK, object
<1>3. CASE InterruptHandle
  <2>1. CASE pyBuilt /\ pyReply' = "ok" /\ UNCHANGED nativeVars
    BY <1>3, <2>1
    DEF InterruptHandle, PyIInv, PyTypeOK, NothingYet, OnlyAccepted, ownVars, object, nativeVars, history
  <2>2. CASE (Build(pyTools) \/ PyBuildFails(pyTools)) /\ pyReply' \in {"ok", "buildFailed"}
    BY <1>3, <2>2, PyBuildKeeps DEF InterruptHandle, Usable, PyIInv, PyTypeOK, object, history
  <2> QED BY <1>3, <2>1, <2>2 DEF InterruptHandle
<1>4. CASE Snapshot
  BY <1>4, PyRaiseKeeps DEF Snapshot
<1>5. CASE UNCHANGED pyVars
  BY <1>5 DEF pyVars, PyIInv, PyTypeOK, NothingYet, OnlyAccepted, ownVars, object, nativeVars, history
<1> QED BY <1>1, <1>2, <1>3, <1>4, <1>5, PyRegisterToolKeeps, PyAllowDomainKeeps, AgentRunKeeps DEF PyNext, NewJs

\* The invariant holds after any calls in any order.
THEOREM PyInvariant == PySpec => []PyIInv
<1> QED BY PyInitEstablishes, PyStep, PTL DEF PySpec

\* The shape of the state of a Python sandbox, whoever owns it, after any calls.
THEOREM PyTypeCorrect == PySpec => []PyTypeOK
<1>1. PyIInv => PyTypeOK BY DEF PyIInv
<1> QED BY <1>1, PyInvariant, PTL

-----------------------------------------------------------------------------
(* The contract of the SDKs.                                               *)

\* What the contract does not see is a stutter.
LEMMA PyContractStutters ==
    ASSUME UNCHANGED <<held, pyAccepted, pyBuilt, pyGiven, pyPermissions>>
    PROVE  UNCHANGED PySdk!contractVars
  BY DEF PySdk!contractVars

\* What is accepted before the build waits for it.
LEMMA ContractAccepts ==
    ASSUME NEW items \in SUBSET (PyTools \cup PyDomains), ~pyBuilt,
           held' \cup pyAccepted' = (held \cup pyAccepted) \cup items,
           UNCHANGED pyBuilt
    PROVE  [PySdk!Next]_PySdk!contractVars
<1>1. PySdk!Accept(items)
  BY DEF PySdk!Accept
<1> QED BY <1>1 DEF PySdk!Next

\* A build that succeeds is the build of the contract.
LEMMA ContractBuilds ==
    ASSUME PyIInv, NEW registered \in SUBSET PyTools, Build(registered),
           registered \subseteq held', held \subseteq held', held' \subseteq PyTools,
           UNCHANGED pyAccepted
    PROVE  [PySdk!Next]_PySdk!contractVars
<1>1. /\ ~pyBuilt /\ pyBuilt' = TRUE /\ pyGiven' = registered
      /\ pyPermissions' = pyPending
  BY DEF Build
<1>2. pyGiven' \cup Targets(pyPermissions') \subseteq held' \cup pyAccepted'
  BY <1>1 DEF PyIInv, OnlyAccepted
<1>3. held' \cup pyAccepted' = (held \cup pyAccepted) \cup held'
  OBVIOUS
<1>4. PySdk!Build(held')
  BY <1>1, <1>2, <1>3 DEF PySdk!Build
<1> QED BY <1>4 DEF PySdk!Next

\* One that fails, with tools that are accepted by the same call, accepts those.
LEMMA ContractBuildFails ==
    ASSUME PyIInv, NEW registered, PyBuildFails(registered),
           held \subseteq held', held' \subseteq PyTools, UNCHANGED pyAccepted
    PROVE  [PySdk!Next]_PySdk!contractVars
<1>1. held' \cup pyAccepted' = (held \cup pyAccepted) \cup held'
  OBVIOUS
<1> QED BY <1>1, ContractAccepts DEF PyBuildFails

\* A run is the build of the contract when it is the first.
LEMMA ContractExecutes ==
    ASSUME PyIInv, NEW registered \in SUBSET PyTools, Execute(registered),
           registered \subseteq held', held' \subseteq PyTools,
           held \subseteq held', pyBuilt => held' = held,
           UNCHANGED pyAccepted
    PROVE  [PySdk!Next]_PySdk!contractVars
<1>1. CASE pyBuilt /\ UNCHANGED nativeVars
  BY <1>1, PyContractStutters DEF nativeVars
<1> QED BY <1>1, ContractBuilds, ContractBuildFails DEF Execute

\* Every call of the Python SDK is a step of the contract or none.
LEMMA PySimulates == PyIInv /\ [PyNext]_pyVars => [PySdk!Next]_PySdk!contractVars
<1> SUFFICES ASSUME PyIInv, [PyNext]_pyVars PROVE [PySdk!Next]_PySdk!contractVars OBVIOUS
<1>1. ASSUME NEW ok, NEW a, New(ok, a) PROVE [PySdk!Next]_PySdk!contractVars
  BY <1>1, PyContractStutters DEF New, nativeVars, history
<1>2. ASSUME NEW t \in PyTools, NEW form, PyRegisterTool(t, form)
      PROVE  [PySdk!Next]_PySdk!contractVars
  <2>1. CASE Raise("raised")
    BY <2>1, PyContractStutters DEF Raise, nativeVars, history
  <2>2. CASE ~Raise("raised")
    <3>1. ~pyBuilt /\ held' \cup pyAccepted' = (held \cup pyAccepted) \cup {t} /\ UNCHANGED pyBuilt
      BY <1>2, <2>2 DEF PyRegisterTool
    <3> QED BY <3>1, ContractAccepts
  <2> QED BY <2>1, <2>2
<1>3. ASSUME NEW d \in PyDomains, PyAllowDomain(d) PROVE [PySdk!Next]_PySdk!contractVars
  <2>1. CASE Raise("raised")
    BY <2>1, PyContractStutters DEF Raise, nativeVars, history
  <2>2. CASE ~Raise("raised") /\ pyBuilt
    <3>1. /\ pyPermissions' = Append(pyPermissions, d) /\ pyAccepted' = pyAccepted \cup {d}
          /\ UNCHANGED <<pyBuilt, pyGiven, held>>
      BY <1>3, <2>2 DEF PyAllowDomain
    <3>2. Targets(pyPermissions') = Targets(pyPermissions) \cup {d}
      BY <3>1, TargetsAppend DEF PyIInv, PyTypeOK
    <3>3. PySdk!Grant(d)
      BY <2>2, <3>1, <3>2 DEF PySdk!Grant
    <3> QED BY <3>3 DEF PySdk!Next
  <2>3. CASE ~Raise("raised") /\ ~pyBuilt
    <3>1. held' \cup pyAccepted' = (held \cup pyAccepted) \cup {d} /\ UNCHANGED pyBuilt
      BY <1>3, <2>3 DEF PyAllowDomain
    <3> QED BY <2>3, <3>1, ContractAccepts
  <2> QED BY <2>1, <2>2, <2>3
<1>4. CASE PyRun
  BY <1>4, ContractExecutes DEF PyRun, PyIInv, PyTypeOK, OnlyAccepted
<1>5. CASE InterruptHandle
  <2>1. CASE UNCHANGED nativeVars
    BY <1>5, <2>1, PyContractStutters DEF InterruptHandle, nativeVars, history
  <2>2. CASE Build(pyTools) \/ PyBuildFails(pyTools)
    BY <1>5, <2>2, ContractBuilds, ContractBuildFails
    DEF InterruptHandle, PyIInv, PyTypeOK, OnlyAccepted, history
  <2> QED BY <1>5, <2>1, <2>2 DEF InterruptHandle
<1>6. CASE Snapshot
  BY <1>6, PyContractStutters DEF Snapshot, Raise, nativeVars, history
<1>7. CASE GetSandboxRaises
  <2>1. ~pyBuilt /\ held = {}
    BY <1>7 DEF GetSandboxRaises, PyIInv, NothingYet
  <2>2. held' \subseteq PyTools /\ UNCHANGED <<pyBuilt, pyAccepted>>
    BY <1>7 DEF GetSandboxRaises, PyIInv, PyTypeOK
  <2>3. held' \cup pyAccepted' = (held \cup pyAccepted) \cup held'
    BY <2>1, <2>2
  <2> QED BY <2>1, <2>2, <2>3, ContractAccepts
<1>8. CASE GetSandbox /\ UNCHANGED <<ownVars, pyAccepted>>
  <2>1. ~pyBuilt /\ held = {}
    BY <1>8 DEF GetSandbox, PyIInv, NothingYet
  <2> QED BY <1>8, <2>1, ContractExecutes DEF GetSandbox, PyIInv, PyTypeOK
<1>9. CASE created /\ Execute(pyTools) /\ UNCHANGED <<held, pyAccepted>>
  BY <1>9, ContractExecutes DEF PyIInv, PyTypeOK, OnlyAccepted
<1>10. CASE UNCHANGED pyVars
  BY <1>10, PyContractStutters DEF pyVars, nativeVars, history
<1> QED
  BY <1>1, <1>2, <1>3, <1>4, <1>5, <1>6, <1>7, <1>8, <1>9, <1>10
  DEF PyNext, NewJs, AgentRun

\* Every call of the Python SDK is a step of the contract of the SDKs or none
\* (SdkContract): the guest never has a tool or a target that no call accepted, tools
\* are fixed by the build, and only targets are added after it.
THEOREM PyContract == PySpec => PyContractSpec
<1>1. PyInit => PySdk!Init
  BY DEF PyInit, PySdk!Init
<1> QED BY <1>1, PySimulates, PyInvariant, PTL DEF PySpec, PyContractSpec, PySdk!Spec

-----------------------------------------------------------------------------
(* Nothing is lost while no build fails.                                   *)

\* Whatever was accepted waits for the build or is in the sandbox.
Complete ==
    /\ ~pyBuilt => pyTools = held /\ Targets(pyPending) = pyAccepted
    /\ pyBuilt => pyGiven = held /\ Targets(pyPermissions) = pyAccepted

\* A call after which no build has failed loses nothing.
LEMMA CompleteKept ==
    ASSUME PyIInv, Complete, [PyNext]_pyVars, pyReply' # "buildFailed"
    PROVE  Complete'
<1>1. ASSUME UNCHANGED <<pyTools, held, pyPending, pyAccepted, pyBuilt, pyGiven, pyPermissions>>
      PROVE  Complete'
  BY <1>1 DEF Complete
<1>2. ASSUME NEW ok, NEW a, New(ok, a) PROVE Complete'
  BY <1>1, <1>2 DEF New, nativeVars, history
<1>3. ASSUME NEW t \in PyTools, NEW form, PyRegisterTool(t, form) PROVE Complete'
  <2>1. CASE Raise("raised")
    BY <1>1, <2>1 DEF Raise, nativeVars, history
  <2>2. CASE ~Raise("raised")
    BY <1>3, <2>2 DEF PyRegisterTool, Complete
  <2> QED BY <2>1, <2>2
<1>4. ASSUME NEW d \in PyDomains, PyAllowDomain(d) PROVE Complete'
  <2>1. CASE Raise("raised")
    BY <1>1, <2>1 DEF Raise, nativeVars, history
  <2>2. CASE ~Raise("raised")
    <3>1. /\ Targets(Append(pyPending, d)) = Targets(pyPending) \cup {d}
          /\ Targets(Append(pyPermissions, d)) = Targets(pyPermissions) \cup {d}
      BY TargetsAppend DEF PyIInv, PyTypeOK
    <3>2. /\ pyAccepted' = pyAccepted \cup {d} /\ UNCHANGED <<pyTools, pyBuilt, pyGiven, held>>
          /\ IF pyBuilt THEN pyPermissions' = Append(pyPermissions, d)
             ELSE pyPending' = Append(pyPending, d)
      BY <1>4, <2>2 DEF PyAllowDomain
    <3> QED BY <3>1, <3>2 DEF Complete
  <2> QED BY <2>1, <2>2
<1>5. ASSUME NEW registered, Build(registered), registered = held', UNCHANGED pyAccepted
      PROVE  Complete'
  BY <1>5 DEF Build, Complete
<1>6. ASSUME NEW registered, Execute(registered), ~pyBuilt => registered = held',
             pyBuilt => held' = held, UNCHANGED pyAccepted
      PROVE  Complete'
  <2>1. CASE pyBuilt /\ UNCHANGED nativeVars
    BY <1>1, <1>6, <2>1 DEF nativeVars
  <2>2. CASE Build(registered)
    BY <1>5, <1>6, <2>2 DEF Build
  <2> QED BY <1>6, <2>1, <2>2 DEF Execute
<1>7. CASE PyRun
  BY <1>6, <1>7 DEF PyRun, Complete
<1>8. CASE InterruptHandle
  <2>1. CASE UNCHANGED nativeVars
    BY <1>1, <1>8, <2>1 DEF InterruptHandle, nativeVars, history
  <2>2. CASE Build(pyTools)
    BY <1>5, <1>8, <2>2 DEF InterruptHandle, history, Build, Complete
  <2> QED BY <1>8, <2>1, <2>2 DEF InterruptHandle
<1>9. CASE Snapshot
  BY <1>1, <1>9 DEF Snapshot, Raise, nativeVars, history
<1>10. CASE GetSandboxRaises
  BY <1>10 DEF GetSandboxRaises, Complete, PyIInv, NothingYet
<1>11. CASE GetSandbox /\ UNCHANGED <<ownVars, pyAccepted>>
  BY <1>6, <1>11 DEF GetSandbox, PyIInv, NothingYet
<1>12. CASE created /\ Execute(pyTools) /\ UNCHANGED <<held, pyAccepted>>
  BY <1>6, <1>12 DEF Complete
<1>13. CASE UNCHANGED pyVars
  BY <1>1, <1>13 DEF pyVars, nativeVars, history
<1> QED
  BY <1>2, <1>3, <1>4, <1>7, <1>8, <1>9, <1>10, <1>11, <1>12, <1>13
  DEF PyNext, NewJs, AgentRun

\* As long as no build fails, a sandbox that is built has every tool and every
\* target that was accepted (pyo3_common lib.rs:492 takes them before the build).
THEOREM NothingLostCorrect == PySpec => CompleteWithoutFailure
<1>1. PyInit => Complete
  BY TargetsEmpty DEF PyInit, Complete
<1>2. PyIInv /\ Complete /\ [PyNext]_pyVars /\ (pyReply # "buildFailed")' => Complete'
  BY CompleteKept
<1>3. Complete => (pyBuilt => pyGiven = held /\ Targets(pyPermissions) = pyAccepted)
  BY DEF Complete
<1> QED BY <1>1, <1>2, <1>3, PyInvariant, PTL DEF PySpec, CompleteWithoutFailure

-----------------------------------------------------------------------------
(* Limits.                                                                 *)

\* Only making the object chooses limits.
LEMMA LimitsStep == [PyNext]_pyVars => UNCHANGED object \/ \E a \in Arguments : Make(a)
  BY DEF PyNext, New, NewJs, PyRegisterTool, PyAllowDomain, Raise, PyRun, InterruptHandle,
         Snapshot, AgentRun, GetSandboxRaises, GetSandbox, pyVars

\* A sandbox limits its file system as its caller asked, whatever the texts and the
\* widths of the integers (parse_filesystem_limits, pyo3_common lib.rs:59).
THEOREM LimitsCorrect == PySpec => []LimitsAsAsked
<1>1. PyInit => LimitsAsAsked
  BY DEF PyInit, LimitsAsAsked
<1>2. ASSUME LimitsAsAsked, UNCHANGED object PROVE LimitsAsAsked'
  BY <1>2 DEF object, LimitsAsAsked
<1>3. ASSUME NEW a \in Arguments, Make(a) PROVE LimitsAsAsked'
  <2>1. AsAsked(limits', asked')
    BY <1>3, MakeType
  <2> QED BY <2>1 DEF LimitsAsAsked, AsAsked
<1>4. LimitsAsAsked /\ [PyNext]_pyVars => LimitsAsAsked'
  BY <1>2, <1>3, LimitsStep
<1> QED BY <1>1, <1>4, PTL DEF PySpec
================================================================================
