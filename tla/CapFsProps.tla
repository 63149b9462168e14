------------------------------ MODULE CapFsProps ------------------------------
(* What the capability file system promises.                               *)
EXTENDS CapFs

(* The shape of the state: handles of the tables are u32 ids above the     *)
(* preopens, sizes are ones the host file system can hold.                 *)
TypeOK ==
    /\ disk \in [Names -> Sizes]
    /\ unsupported \in BOOLEAN
    /\ outputUsage \in [bytes : Nat, files : Nat]
    /\ accountingValid \in BOOLEAN
    /\ openFiles \in [Handles -> FileEntry \cup {None}]
    /\ streams \in [Handles -> StreamState \cup {None}]
    /\ dirStreams \in [Handles -> DirStreamState \cup {None}]
    /\ nextHandle \in MinHandle .. MaxHandle
    /\ running \in BOOLEAN
    /\ edited \in BOOLEAN

(* The incremental accounting of validate_mutation and apply_mutation      *)
(* agrees with a full scan of the directory: after every partial write,    *)
(* failed creation and interrupted clear the usage is exact, or the        *)
(* accounting is marked invalid, as long as no host edit is pending.       *)
AccountingExact ==
    accountingValid /\ ~edited => outputUsage = ActualUsage(disk)

(* "a guest cannot bypass the limit" (README): without pending host edits  *)
(* the directory itself, not just its accounting, is within every limit,   *)
(* after faults in the middle of a write or a creation too.                *)
QuotaHolds == ~edited => WithinLimits(disk)

(* Whatever other host processes do to the directory, the accounted usage   *)
(* stays within the limits while it counts as valid: no guest call raises  *)
(* it past them.                                                           *)
UsageWithinLimits ==
    accountingValid /\ Limited =>
      outputUsage.bytes <= MaxTotalSize /\ outputUsage.files <= MaxFileCount

(* While the usage is in doubt no guest call or host bridge changes the    *)
(* output directory; only a clear or another host process does.            *)
FailClosed ==
    [][~accountingValid /\ disk' # disk => ClearOutputFiles \/ HostEdit]_vars

\* No number is live in two tables, and each was handed out before.
NumbersSound ==
    \A h \in Handles :
      /\ openFiles[h] # None => streams[h] = None
      /\ openFiles[h] # None => dirStreams[h] = None
      /\ streams[h] # None => dirStreams[h] = None
      /\ (openFiles[h] # None \/ streams[h] # None \/ dirStreams[h] # None)
           => h < nextHandle

OneDescriptor ==
    \A g, h \in Handles : openFiles[g] # None /\ openFiles[g] = openFiles[h] => g = h

(* Descriptors, streams and directory streams share one number space, and  *)
(* a file has at most one descriptor, so the map iteration of              *)
(* find_file_in_dir has one possible answer.                               *)
HandlesSound == NumbersSound /\ OneDescriptor

(* A stream always hangs on an open descriptor whose get_flags grant its   *)
(* direction: across close_file and run boundaries none dangles.           *)
StreamsAttached ==
    \A s \in Handles : streams[s] # None =>
      (IF streams[s].isWrite THEN "write" ELSE "read") \in GetFlags(streams[s].file)

(* During a run a number that named something and was closed is never      *)
(* handed out again, so a stale guest handle stays a bad descriptor.       *)
NoHandleReuseInRun ==
    [][running /\ running' =>
         /\ nextHandle <= nextHandle'
         /\ \A h \in Handles :
              h < nextHandle /\ openFiles[h] = None /\ streams[h] = None /\ dirStreams[h] = None
                => openFiles'[h] = None /\ streams'[h] = None /\ dirStreams'[h] = None]_vars

(* The comment of GuestSandbox::run: open guest file handles are reset     *)
(* before each execution.                                                  *)
RunStartsWithoutHandles ==
    [][~running /\ running' => \A h \in Handles : openFiles'[h] = None]_vars
===============================================================================
