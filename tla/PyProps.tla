------------------------------- MODULE PyProps -------------------------------
(* What must hold of the Python SDK.                                       *)
EXTENDS PySandbox

\* Type invariant.
PyTypeOK ==
    /\ owner \in {"user", "agent"}
    /\ list \in [tools : SUBSET PyTools, plain : SUBSET PyTools]
    /\ created \in BOOLEAN /\ pyBuilt \in BOOLEAN /\ ran \in BOOLEAN
    /\ limits \subseteq FilesystemLimits /\ asked \in Arguments
    /\ pyTools \subseteq PyTools /\ pyGiven \subseteq PyTools /\ held \subseteq PyTools
    /\ pyPending \in Seq(PyDomains) /\ pyPermissions \in Seq(PyDomains)
    /\ pyAccepted \subseteq PyDomains
    /\ pyReply \in {"ok", "raised", "buildFailed"}

(* The SDK keeps the contract: the guest has no tool or target that no     *)
(* call accepted, and the tools of a built sandbox are fixed.              *)
PySdk == INSTANCE SdkContract WITH
    Tools <- PyTools, Domains <- PyDomains,
    ready <- pyBuilt,
    accepted <- held \cup pyAccepted,
    inForce <- IF pyBuilt THEN pyGiven \cup Targets(pyPermissions) ELSE {}

PyContractSpec == PySdk!Spec

(* Nothing accepted is lost unless a build fails: the sandbox has every    *)
(* tool and every target, in whatever order the calls were made.           *)
CompleteWithoutFailure ==
    [](pyReply # "buildFailed") =>
        [](pyBuilt => pyGiven = held /\ Targets(pyPermissions) = pyAccepted)

(* A sandbox has just the limits that its caller asked for, each size the  *)
(* number that was meant and not what is left of it in 64 bits, and the    *)
(* default where nothing was asked; a request for both limits and none is  *)
(* refused.  The C interface could have been asked for the same.           *)
Meant(text) == text.value * Factor[text.suffix]

LimitsAsAsked ==
    created => \E l \in IF limits = {} THEN {DefaultLimits} ELSE limits :
      /\ IF asked.mode # {}
         THEN /\ asked = [NoArguments EXCEPT !.mode = {"unlimited"}]
              /\ l = UnlimitedLimits
         ELSE /\ l.file = IF asked.file = {} THEN {DefaultFileSize} ELSE {Meant(t) : t \in asked.file}
              /\ l.total = IF asked.total = {} THEN {DefaultTotalSize} ELSE {Meant(t) : t \in asked.total}
              /\ l.count = IF asked.count = {} THEN {DefaultFileCount} ELSE asked.count
      /\ \E mode \in {"finite", "unlimited"}, file, total \in 0 .. MaxU64, count \in 0 .. MaxUsize :
           l \in SetLimits(mode, file, total, count)
===============================================================================
