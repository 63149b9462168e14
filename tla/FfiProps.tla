------------------------------- MODULE FfiProps -------------------------------
(* What must hold of a handle of the C interface.                          *)
EXTENDS FfiSandbox

\* Type invariant.
FfiTypeOK ==
    /\ handle \in {"none", "live", "freed"}
    /\ backend \in Backends
    /\ tools \in [Tools -> Schemas \cup {Unregistered}]
    /\ settings \in [input : BOOLEAN, output : BOOLEAN, temp : BOOLEAN,
                     limits : FilesystemLimits]
    /\ accepted \subseteq Domains
    /\ pending \in Seq(Domains) /\ permissions \in Seq(Domains)
    /\ built \in BOOLEAN
    /\ given.tools \subseteq Tools
    /\ snapshots \in [Snapshots -> Backends \cup {NoSnapshot}]
    /\ interrupts \in BOOLEAN
    /\ reply \in {"Success", "InvalidArgument", "Error"}

(* A call that answers success is never silently ignored: the built        *)
(* sandbox has every registered tool and the filesystem the settings ask   *)
(* for, however the calls and failed builds were ordered.                  *)
ConfigHeld ==
    built => given = [fs |-> Filesystem(settings), tools |-> Registered]

(* Targets are lost only by a build that finds one it rejects: while the   *)
(* queue stays acceptable, a build that fails for another reason costs     *)
(* nothing and the retry grants every accepted target and no other.        *)
NoLossWithoutRejection ==
    []PendingApplies => [](built => Listed(permissions) = accepted)

(* Tools and targets come into force by the contract of the SDKs.          *)
Contract == INSTANCE SdkContract WITH
    ready <- built,
    accepted <- Registered \cup accepted,
    inForce <- IF built THEN given.tools \cup Listed(permissions) ELSE {}

ContractSpec == Contract!Spec
===============================================================================
