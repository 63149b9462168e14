------------------------------- MODULE TreeProps -------------------------------
(* What the traversals of the output directory promise.                    *)
EXTENDS OutputTree

TooDeep(t) == \E p \in OfKind(t, {"dir"}) : Len(p) > MaxScanDepth
Traversable(t) == ~TooDeep(t) /\ Cardinality(DOMAIN t) <= MaxEntries
Scannable(t) == Traversable(t) /\ OfKind(t, {"symlink", "hardlink"}) = {}

CallEnded(call) == walked.call = call /\ walk = NoWalk /\ walked.failed # "io"

(* Errors of the system aside, a scan accepts the directories the limits   *)
(* allow and no others, in whatever order it meets their entries, and      *)
(* counts each file at any depth once.                                     *)
ScanExact ==
    CallEnded("prepare") =>
      LET files == Cardinality(OfKind(tree, {"file"}))
      IN  /\ tree = before
          /\ walked.failed = "no" <=> Scannable(tree) /\ (Limited => files <= maxFiles)
          /\ valid <=> walked.failed = "no"
          /\ valid => accounted = (IF Limited THEN files ELSE 0)

(* A clear succeeds on every directory that a scan can traverse, links     *)
(* included, so that a restore mends what a run refuses.  It leaves just   *)
(* the directories; one that fails leaves some of the rest.                *)
ClearMends ==
    walked.call = "clear" /\ walk = NoWalk =>
      /\ DOMAIN tree \subseteq DOMAIN before
      /\ OfKind(tree, {"dir"}) = OfKind(before, {"dir"})
      /\ walked.failed # "io" => (walked.failed = "no" <=> Traversable(before))
      /\ walked.failed = "no" => OfKind(tree, EntryKinds \ {"dir"}) = {} /\ valid /\ accounted = 0

(* Left alone by other processes, a sandbox never makes its own directory  *)
(* one that the next run refuses, unless the quota allows more files than  *)
(* a traversal visits entries.                                             *)
CallsKeepScannable ==
    valid /\ ~edited /\ walk = NoWalk /\ Limited
      /\ Cardinality(DOMAIN tree) - Cardinality(OfKind(tree, {"file"})) + maxFiles <= MaxEntries
    => Scannable(tree)

(* The scan for the quota and the removal of a clear agree on what they    *)
(* can traverse, and the calls between them leave it so (cap_fs.rs:1267,   *)
(* 1325 and 460).                                                          *)
WalksAgree == ScanExact /\ ClearMends /\ CallsKeepScannable
===============================================================================
