------------------------------ MODULE OutputTree ------------------------------
(***************************************************************************)
(* The output directory as a tree (hyperlight_sandbox/src/cap_fs.rs): the  *)
(* scan that counts its files for the quota, the removal of a clear, both  *)
(* in the order the system lists entries and both under the limits of a    *)
(* traversal, and the calls that make new files in it.  CapFs has the same *)
(* directory flat, with the sizes of its files.  Definitions marked        *)
(* "Defect" are plausible bugs and not part of the specification.          *)
(***************************************************************************)
EXTENDS Naturals, Sequences, FiniteSets

CONSTANTS
    EntryNames,    \* names of entries
    NestedNames,   \* bound: those found in nested directories
    MaxScanDepth,  \* MAX_SCAN_DEPTH
    MaxEntries,    \* MAX_SCAN_ENTRIES
    FileLimits,    \* values of max_file_count
    Unlimited,     \* the limits of FilesystemLimits::unlimited
    Root,          \* "output", the directory that guest paths start with
    GuestPaths     \* the paths the guest gives, as their components

ASSUME TreeAssumption ==
    /\ NestedNames \subseteq EntryNames
    /\ MaxScanDepth \in Nat /\ MaxEntries \in Nat /\ FileLimits \subseteq Nat /\ Unlimited \notin FileLimits

VARIABLES
    tree,       \* the kind of each entry
    maxFiles,   \* FilesystemLimits::max_file_count
    accounted,  \* FilesystemUsage::file_count
    valid,      \* accounting_valid
    walk,       \* the traversal under way, if any
    walked,     \* how the last call that walks ended
    before,     \* history: the tree when that call began
    edited      \* history: other processes changed the tree since the last scan

treeVars == <<tree, maxFiles, accounted, valid, walk, walked, before, edited>>

EntryKinds == {"file", "hardlink", "symlink", "special", "dir"}

\* Directories deeper than the limit have no entries here: nobody looks inside.
TreePaths ==
    UNION {{p \in [1 .. k -> EntryNames] : \A i \in 2 .. k : p[i] \in NestedNames} : k \in 1 .. MaxScanDepth + 1}

Parent(p) == SubSeq(p, 1, Len(p) - 1)
Children(t, d) == {p \in DOMAIN t : Len(p) = Len(d) + 1 /\ Parent(p) = d}
OfKind(t, kinds) == {p \in DOMAIN t : t[p] \in kinds}
IsLink(t, p) == p \in DOMAIN t /\ t[p] = "symlink"
IsDir(t, p) == p = <<>> \/ (p \in DOMAIN t /\ t[p] = "dir")

With(t, p, kind) == [q \in DOMAIN t \cup {p} |-> IF q = p THEN kind ELSE t[q]]
WithoutEntry(t, p) == [q \in DOMAIN t \ {p} |-> t[q]]

Limited == maxFiles # Unlimited

-----------------------------------------------------------------------------
(* The traversals.  A frame is a directory and its entries not yet seen.   *)

NoWalk == [mode |-> "none"]
NotWalked == [call |-> "none", failed |-> "no"]
Frame(t, d) == [dir |-> d, todo |-> Children(t, d)]
WalkOf(t, mode, call, failed) ==
    [mode |-> mode, call |-> call, failed |-> failed, stack |-> <<Frame(t, <<>>)>>,
     visited |-> 0, files |-> 0]

Top == walk.stack[Len(walk.stack)]
Below == SubSeq(walk.stack, 1, Len(walk.stack) - 1)

\* failed: "no", or what went wrong; an input or output error can happen any time.
Ended(call, failed) == walk' = NoWalk /\ walked' = [call |-> call, failed |-> failed]

\* A scan that fails leaves the account in doubt; a removal that fails is
\* followed by a scan, and the call fails whatever that finds.
Fails(why) ==
    /\ IF walk.mode = "scan"
       THEN /\ Ended(walk.call, IF walk.failed = "io" THEN "io" ELSE why)
            /\ valid' = FALSE
       ELSE /\ walk' = WalkOf(tree, "scan", walk.call, why)
            /\ UNCHANGED <<valid, walked>>
    /\ UNCHANGED <<tree, accounted>>

Seen(p) == [walk EXCEPT !.stack = Append(Below, [Top EXCEPT !.todo = @ \ {p}]), !.visited = @ + 1]

\* open_dir and the call for the child, which checks its depth first.
Descend(p) ==
    IF Len(p) > MaxScanDepth THEN Fails("limit")
    ELSE /\ walk' = [Seen(p) EXCEPT !.stack = Append(@, Frame(tree, p))]
         /\ UNCHANGED <<tree, accounted, valid, walked>>

\* What validated_output_metadata finds: another name of the same file.
HardLinked(p) == tree[p] = "hardlink"

ScanEntry(p) ==
    CASE tree[p] = "dir"                       -> Descend(p)
      [] tree[p] = "symlink" \/ HardLinked(p)  -> Fails("link")
      [] tree[p] \in {"file", "special"}       ->
           /\ walk' = [Seen(p) EXCEPT !.files = IF tree[p] = "file" /\ Limited THEN @ + 1 ELSE @]
           /\ UNCHANGED <<tree, accounted, valid, walked>>

\* Defect: the type of an entry is asked through links.
RemoveEntryThroughLinks(p) ==
    IF tree[p] \in {"dir", "symlink"} THEN Descend(p)
    ELSE /\ tree' = WithoutEntry(tree, p)
         /\ walk' = Seen(p)
         /\ UNCHANGED <<accounted, valid, walked>>

\* Links are removed and never followed.
RemoveEntry(p) ==
    IF tree[p] = "dir" THEN Descend(p)
    ELSE /\ tree' = WithoutEntry(tree, p)
         /\ walk' = Seen(p)
         /\ UNCHANGED <<accounted, valid, walked>>

Visit(p) ==
    /\ walk # NoWalk /\ p \in Top.todo
    /\ IF walk.visited + 1 > MaxEntries THEN Fails("limit")
       ELSE IF walk.mode = "scan" THEN ScanEntry(p) ELSE RemoveEntry(p)
    /\ UNCHANGED <<maxFiles, before, edited>>

\* The end of a nested directory.
Ascend ==
    /\ walk # NoWalk /\ Top.todo = {} /\ Len(walk.stack) > 1
    /\ walk' = [walk EXCEPT !.stack = Below]
    /\ UNCHANGED <<tree, maxFiles, accounted, valid, walked, before, edited>>

\* resynchronize_output takes over the count of a scan that came through, if
\* validate_scanned_usage accepts it.
ScanEnds ==
    /\ walk.mode = "scan" /\ Top.todo = {} /\ Len(walk.stack) = 1
    /\ IF Limited => walk.files <= maxFiles
       THEN /\ accounted' = walk.files /\ valid' = TRUE /\ edited' = FALSE
            /\ Ended(walk.call, walk.failed)
       ELSE /\ valid' = FALSE /\ UNCHANGED <<accounted, edited>>
            /\ Ended(walk.call, IF walk.failed = "no" THEN "quota" ELSE walk.failed)
    /\ UNCHANGED <<tree, maxFiles, before>>

RemovalEnds ==
    /\ walk.mode = "remove" /\ Top.todo = {} /\ Len(walk.stack) = 1
    /\ walk' = WalkOf(tree, "scan", walk.call, "no")
    /\ UNCHANGED <<tree, maxFiles, accounted, valid, walked, before, edited>>

\* Listing, opening or removing an entry fails.
IoError == walk # NoWalk /\ Fails("io") /\ UNCHANGED <<maxFiles, before, edited>>

-----------------------------------------------------------------------------
(* Calls, under the mutex of the file system.                              *)

StartWalk(mode, call) ==
    /\ walk = NoWalk
    /\ walk' = WalkOf(tree, mode, call, "no")
    /\ before' = tree
    /\ UNCHANGED <<tree, maxFiles, accounted, valid, walked, edited>>

PrepareForRun == StartWalk("scan", "prepare")
ClearOutputFiles == StartWalk("remove", "clear")

\* Where a file can be made.
Free == {p \in TreePaths \ DOMAIN tree : IsDir(tree, Parent(p))}

\* After an error the directory is scanned.
Reconcile(t) ==
    /\ tree' = t /\ walk' = WalkOf(t, "scan", "create", "no")
    /\ UNCHANGED accounted

\* validate_mutation and apply_mutation, for the number of files; when an error
\* comes up the file may be there, with some of its bytes.
Create(files) ==
    /\ walk = NoWalk /\ valid
    /\ Limited => accounted + 1 <= maxFiles
    /\ \/ \E p \in files : /\ tree' = With(tree, p, "file")
                           /\ accounted' = IF Limited THEN accounted + 1 ELSE accounted
                           /\ UNCHANGED walk
       \/ \E p \in files : Reconcile(With(tree, p, "file"))
       \/ Reconcile(tree)
    /\ walked' = NotWalked /\ before' = <<>>
    /\ UNCHANGED <<maxFiles, valid, edited>>

\* open_at with CREATE takes one component.  It asks for the entry through links,
\* and cap-std makes a file through a link to nothing, at any place in the root.
OpenAt(n) ==
    CASE <<n>> \notin DOMAIN tree   -> Create({<<n>>})
      [] IsLink(tree, <<n>>)        -> Create(Free)
      [] OTHER                      -> FALSE

Unsafe == {"", ".", "..", "a\\b"}

\* normalize_path: the components below the root, or none.
NormalizePath(path) ==
    LET leading == {i \in DOMAIN path : \A j \in 1 .. i : path[j] = ""}
        rooted == SubSeq(path, Cardinality(leading) + 1, Len(path))
    IN  IF /\ Len(rooted) > 1 /\ rooted[1] = Root
           /\ \A i \in 2 .. Len(rooted) : rooted[i] \notin Unsafe
        THEN Tail(rooted) ELSE <<>>

\* write_output_path makes no directories: without the parent it fails, after
\* the checks.  cap-std follows a link in the middle of a path, within the root.
WriteOutputPath(path) ==
    LET key == NormalizePath(path)
        prefixes == {SubSeq(key, 1, i) : i \in 1 .. Len(key) - 1}
    IN  /\ key # <<>>
        /\ CASE \E d \in prefixes : IsLink(tree, d)                                  -> Create(Free)
             [] key \in Free                                                         -> Create({key})
             [] \E d \in prefixes : d \notin DOMAIN tree /\ IsDir(tree, Parent(d)) -> Create({})
             [] OTHER                                                                -> FALSE

\* Other processes, between the calls.
HostEdit ==
    /\ walk = NoWalk
    /\ \E p \in TreePaths :
         \/ /\ p \notin DOMAIN tree /\ IsDir(tree, Parent(p))
            /\ \E kind \in EntryKinds : tree' = With(tree, p, kind)
         \/ p \in DOMAIN tree /\ Children(tree, p) = {} /\ tree' = WithoutEntry(tree, p)
    /\ edited' = TRUE
    /\ walked' = NotWalked /\ before' = <<>>
    /\ UNCHANGED <<maxFiles, accounted, valid, walk>>

-----------------------------------------------------------------------------
\* with_output_dir, on an empty directory; what else is there a host adds.
TreeInit ==
    /\ tree = <<>> /\ before = <<>>
    /\ maxFiles \in FileLimits \cup {Unlimited}
    /\ accounted = 0 /\ valid = TRUE /\ edited = FALSE
    /\ walk = NoWalk /\ walked = NotWalked

TreeNext ==
    \/ PrepareForRun \/ ClearOutputFiles
    \/ \E p \in TreePaths : Visit(p)
    \/ Ascend \/ ScanEnds \/ RemovalEnds \/ IoError
    \/ \E n \in EntryNames : OpenAt(n)
    \/ \E path \in GuestPaths : WriteOutputPath(path)
    \/ HostEdit

TreeSpec == TreeInit /\ [][TreeNext]_treeVars
===============================================================================
