-------------------------------- MODULE CapFs --------------------------------
(***************************************************************************)
(* The capability file system of the sandbox (cap_fs.rs): a read-only      *)
(* input preopen, a writable output preopen with quotas, and the handle    *)
(* tables for descriptors, byte streams and directory streams.  Every      *)
(* operation runs under one mutex, so each is one step.                    *)
(*                                                                         *)
(* File contents are abstracted to sizes; paths to names.  Calls that fail *)
(* before they change anything are stuttering steps and are left out.      *)
(*                                                                         *)
(* An operator whose comment starts with "Defect" is not part of the       *)
(* specification: it is a plausible bug in the operator that follows it,   *)
(* kept to confirm that the properties would notice.                       *)
(***************************************************************************)
EXTENDS Integers, FiniteSets

CONSTANTS
    Names,          \* file names of both directories
    Preopens,       \* the configured preopens, a subset of {"input", "output"}
    InputSize,      \* the host's input files: size, or Absent
    OutDirPerms,    \* DirPerms of the output preopen
    OutFilePerms,   \* FilePerms of the output preopen
    Limited,        \* FALSE for FilesystemLimits::unlimited()
    MaxFileSize, MaxTotalSize, MaxFileCount,    \* FilesystemLimits
    MaxOpenFiles,   \* CapFs::MAX_OPEN_FILES
    MaxHandle,      \* u32::MAX, the handle that is never handed out
    MaxSize,        \* the largest size the host file system can represent
    MaxU64,         \* u64::MAX, where offset arithmetic overflows
    Offsets, Lens,  \* offsets and buffer lengths the guest passes
    HostBusy,       \* TRUE if host processes edit the output during a run
    None

Absent == -1
FirstPreopenFd == 3
MinHandle == FirstPreopenFd + Cardinality(Preopens)
Handles   == MinHandle .. (MaxHandle - 1)
Sizes     == Absent .. MaxSize
Min(a, b) == IF a <= b THEN a ELSE b
Max(a, b) == IF a >= b THEN a ELSE b

FileEntry   == [name : Names, dir : Preopens]
StreamState == [file : Handles, offset : 0 .. MaxU64,
                isWrite : BOOLEAN, append : BOOLEAN]
DirStreamState == [entries : SUBSET Names]

ASSUME CapFsAssumption ==
    /\ IsFiniteSet(Names)
    /\ Preopens \subseteq {"input", "output"}
    /\ MaxHandle \in Nat /\ MinHandle <= MaxHandle
    /\ MaxSize \in Nat /\ MaxU64 \in Nat /\ MaxSize <= MaxU64
    /\ InputSize \in [Names -> Sizes]
    /\ MaxFileSize \in Nat /\ MaxTotalSize \in 0 .. MaxU64
    /\ MaxFileCount \in Nat
    /\ MaxOpenFiles \in Nat
    /\ Offsets \subseteq 0 .. MaxU64 /\ Lens \subseteq 0 .. MaxU64
    /\ Limited \in BOOLEAN /\ HostBusy \in BOOLEAN
    /\ None \notin FileEntry /\ None \notin StreamState /\ None \notin DirStreamState

VARIABLES
    disk,             \* the output directory: size of each file, or Absent
    unsupported,      \* the output holds an entry no scan accepts
    outputUsage,      \* the accounted logical bytes and files
    accountingValid,  \* accounting_valid
    openFiles,        \* open_files
    streams,          \* streams
    dirStreams,       \* dir_streams: the entries not yet returned
    nextHandle,       \* next_handle
    running,          \* the guest is executing
    edited            \* a host edit has not been reconciled yet

usageVars  == <<outputUsage, accountingValid, edited>>
diskVars   == <<disk, unsupported>>
handleVars == <<openFiles, streams, dirStreams, nextHandle>>
vars == <<diskVars, usageVars, handleVars, running>>

-----------------------------------------------------------------------------
(* Permissions and the directory contents an operation looks at.           *)

DirPerms(dir)  == IF dir = "input" THEN {"read"} ELSE OutDirPerms
FilePerms(dir) == IF dir = "input" THEN {"read"} ELSE OutFilePerms
Size(dir, n)   == IF dir = "input" THEN InputSize[n] ELSE disk[n]
Exists(dir, n) == Size(dir, n) # Absent
Listing(dir)   == {n \in Names : Exists(dir, n)}

-----------------------------------------------------------------------------
(* Quota accounting.                                                       *)

\* The logical bytes of a directory, one element per byte, and its files.
Bytes(d) == {b \in Names \X (1 .. MaxSize) : b[2] <= d[b[1]]}
Files(d) == {n \in Names : d[n] # Absent}

\* What scan_output_dir adds up; an unlimited file system adds up nothing.
ActualUsage(d) ==
    IF Limited THEN [bytes |-> Cardinality(Bytes(d)), files |-> Cardinality(Files(d))]
               ELSE [bytes |-> 0, files |-> 0]

\* validate_scanned_usage, with the per-file check of the scan.
WithinLimits(d) ==
    Limited => /\ \A n \in Names : d[n] <= MaxFileSize
               /\ Cardinality(Bytes(d)) <= MaxTotalSize
               /\ Cardinality(Files(d)) <= MaxFileCount

\* resynchronize_output over the directory d, where u says whether d holds an
\* unsupported entry.  The scan can fail: an I/O error, such an entry, or a
\* directory over the limits.
Resynchronize(d, u) ==
    \/ /\ ~u
       /\ WithinLimits(d)
       /\ outputUsage' = ActualUsage(d)
       /\ accountingValid' = TRUE
       /\ edited' = FALSE
    \/ /\ "output" \in Preopens
       /\ accountingValid' = FALSE
       /\ UNCHANGED <<outputUsage, edited>>

\* Defect: the total is not checked, only each file.
ValidMutationPerFile(old, new, creates) ==
    /\ accountingValid
    /\ Limited =>
         /\ new <= MaxFileSize
         /\ old <= outputUsage.bytes
         /\ outputUsage.files + (IF creates THEN 1 ELSE 0) <= MaxFileCount

\* Defect: the check of the file count ignores the file about to be created.
ValidMutationCountsOpen(old, new, creates) ==
    /\ accountingValid
    /\ Limited =>
         /\ new <= MaxFileSize
         /\ old <= outputUsage.bytes
         /\ outputUsage.bytes - old + new <= MaxTotalSize
         /\ outputUsage.files <= MaxFileCount

\* validate_mutation accepts replacing a file of size old by one of size new.
ValidMutation(old, new, creates) ==
    /\ accountingValid
    /\ Limited =>
         /\ new <= MaxFileSize
         /\ old <= outputUsage.bytes
         /\ outputUsage.bytes - old + new <= MaxTotalSize
         /\ outputUsage.files + (IF creates THEN 1 ELSE 0) <= MaxFileCount

\* apply_mutation: an underflow invalidates the accounting.
ApplyMutation(old, new, creates) ==
    /\ UNCHANGED edited
    /\ IF ~Limited
         THEN UNCHANGED <<outputUsage, accountingValid>>
         ELSE \/ /\ old <= outputUsage.bytes
                 /\ outputUsage.bytes - old + new <= MaxU64
                 /\ outputUsage' = [bytes |-> outputUsage.bytes - old + new,
                                    files |-> outputUsage.files + (IF creates THEN 1 ELSE 0)]
                 /\ UNCHANGED accountingValid
              \/ /\ \/ old > outputUsage.bytes
                    \/ outputUsage.bytes - old + new > MaxU64
                 /\ accountingValid' = FALSE
                 /\ UNCHANGED outputUsage

-----------------------------------------------------------------------------
(* Handles.                                                                *)

\* Defect: next_handle is not advanced.
AllocHandleStuck(h) ==
    /\ nextHandle < MaxHandle
    /\ h = nextHandle
    /\ UNCHANGED nextHandle

\* Defect: the first free number is handed out, closed ones included.
AllocHandleRecycled(h) ==
    /\ openFiles[h] = None /\ streams[h] = None /\ dirStreams[h] = None
    /\ h <= nextHandle
    /\ nextHandle' = Max(nextHandle, h + 1)

\* alloc_handle hands out h, and fails once next_handle has reached u32::MAX.
AllocHandle(h) ==
    /\ nextHandle < MaxHandle
    /\ h = nextHandle
    /\ nextHandle' = nextHandle + 1

\* Defect: the lookup compares paths that were never normalised.
FindFileInDirRaw(dir, n) == {}

\* find_file_in_dir, as the set of descriptors it may return.
FindFileInDir(dir, n) == {h \in Handles : openFiles[h] = [name |-> n, dir |-> dir]}

OpenFds == {h \in Handles : openFiles[h] # None}

\* get_flags of a file, the only answer a guest has on what it may do with one.
GetFlags(h) == IF openFiles[h] = None THEN {} ELSE FilePerms(openFiles[h].dir)

\* reset_output_handles: only descriptors of input files survive, and numbering
\* restarts after the largest of them.
ResetOutputHandles ==
    /\ openFiles' = [h \in Handles |->
                        IF openFiles[h] # None /\ openFiles[h].dir # "output"
                        THEN openFiles[h] ELSE None]
    /\ streams' = [h \in Handles |-> None]
    /\ dirStreams' = [h \in Handles |-> None]
    /\ nextHandle' \in MinHandle .. MaxHandle
    /\ \A h \in Handles : openFiles'[h] # None => h < nextHandle'
    /\ nextHandle' # MinHandle => openFiles'[nextHandle' - 1] # None

-----------------------------------------------------------------------------
(* Guest operations.                                                       *)

\* Defect: the truncation forgets ensure_accounting_valid.
TruncateOpenedUnchecked(n) ==
    /\ disk[n] # Absent
    /\ disk' = [disk EXCEPT ![n] = 0]
    /\ ApplyMutation(disk[n], 0, FALSE)
    /\ UNCHANGED handleVars

\* open_at on a file that already has a descriptor: TRUNCATE empties it in
\* place and the descriptor is returned again.  Only the output grants MUTATE.
TruncateOpened(n) ==
    /\ accountingValid
    /\ disk[n] # Absent
    /\ \/ /\ disk' = [disk EXCEPT ![n] = 0]
          /\ ApplyMutation(disk[n], 0, FALSE)
       \/ /\ UNCHANGED disk
          /\ Resynchronize(disk, unsupported)
    /\ UNCHANGED handleVars

\* The descriptor open_at inserts last; the handle space may be exhausted then.
InsertDescriptor(dir, n) ==
    \/ \E h \in Handles :
         /\ AllocHandle(h)
         /\ openFiles' = [openFiles EXCEPT ![h] = [name |-> n, dir |-> dir]]
    \/ /\ nextHandle = MaxHandle
       /\ UNCHANGED <<openFiles, nextHandle>>

\* open_at on a file without a descriptor.
OpenFresh(dir, n, create, truncate) ==
    LET old     == IF Exists(dir, n) THEN Size(dir, n) ELSE 0
        creates == ~Exists(dir, n)
    IN  /\ creates => create
        /\ Cardinality(OpenFds) < MaxOpenFiles
        /\ dir = "output" => ValidMutation(old, IF truncate THEN 0 ELSE old, creates)
        /\ UNCHANGED <<streams, dirStreams>>
        /\ \/ /\ ~creates /\ ~truncate
              /\ InsertDescriptor(dir, n)
              /\ UNCHANGED <<disk, usageVars>>
           \/ /\ creates \/ truncate
              /\ disk' = [disk EXCEPT ![n] = 0]
              /\ ApplyMutation(old, 0, creates)
              /\ InsertDescriptor(dir, n)
           \/ /\ creates \/ truncate
              /\ UNCHANGED <<disk, openFiles, nextHandle>>
              /\ Resynchronize(disk, unsupported)

OpenAt(dir, n, create, truncate) ==
    /\ running
    /\ create \/ truncate => "mutate" \in DirPerms(dir)
    /\ \/ /\ FindFileInDir(dir, n) # {}
          /\ truncate
          /\ TruncateOpened(n)
       \/ /\ FindFileInDir(dir, n) = {}
          /\ OpenFresh(dir, n, create, truncate)
    /\ UNCHANGED <<unsupported, running>>

\* Defect: the streams of a closed descriptor stay.
CloseFileOnly(h) ==
    /\ running
    /\ openFiles[h] # None
    /\ openFiles' = [openFiles EXCEPT ![h] = None]
    /\ UNCHANGED <<diskVars, usageVars, streams, dirStreams, nextHandle, running>>

CloseFile(h) ==
    /\ running
    /\ openFiles[h] # None
    /\ openFiles' = [openFiles EXCEPT ![h] = None]
    /\ streams' = [s \in Handles |->
                      IF streams[s] # None /\ streams[s].file = h
                      THEN None ELSE streams[s]]
    /\ UNCHANGED <<diskVars, usageVars, dirStreams, nextHandle, running>>

\* The checks of write_file that precede the write of a non-empty buffer.
CanWrite(h, offset, len) ==
    /\ openFiles[h] # None
    /\ "write" \in FilePerms(openFiles[h].dir)
    /\ disk[openFiles[h].name] # Absent
    /\ offset + len <= MaxU64
    /\ LET size == disk[openFiles[h].name]
       IN  ValidMutation(size, Max(size, offset + len), FALSE)

\* write_all stores the whole buffer.
CompleteWrite(h, offset, len) ==
    LET n    == openFiles[h].name
        size == Max(disk[n], offset + len)
    IN  /\ CanWrite(h, offset, len)
        /\ offset + len <= MaxSize
        /\ disk' = [disk EXCEPT ![n] = size]
        /\ ApplyMutation(disk[n], size, FALSE)

\* Defect: a failed write returns without resynchronize_output.
BrokenWriteUnscanned(h, offset, len) ==
    LET n == openFiles[h].name
    IN  /\ CanWrite(h, offset, len)
        /\ offset <= MaxSize
        /\ \E k \in 1 .. (len - 1) :
             /\ offset + k <= MaxSize
             /\ disk' = [disk EXCEPT ![n] = Max(disk[n], offset + k)]
        /\ UNCHANGED usageVars

\* write_all fails after k of the len bytes, and the usage is rescanned.
BrokenWrite(h, offset, len) ==
    LET n == openFiles[h].name
    IN  /\ CanWrite(h, offset, len)
        /\ offset <= MaxSize
        /\ \E k \in 0 .. (len - 1) :
             /\ offset + k <= MaxSize
             /\ disk' = IF k = 0 THEN disk
                        ELSE [disk EXCEPT ![n] = Max(disk[n], offset + k)]
             /\ Resynchronize(disk', unsupported)

WriteFile(h, offset, len) ==
    /\ running
    /\ len > 0
    /\ CompleteWrite(h, offset, len) \/ BrokenWrite(h, offset, len)
    /\ UNCHANGED <<unsupported, handleVars, running>>

CreateStream(h, offset, isWrite, append) ==
    /\ running
    /\ openFiles[h] # None
    /\ (IF isWrite THEN "write" ELSE "read") \in FilePerms(openFiles[h].dir)
    /\ append => isWrite /\ offset = 0
    /\ \E s \in Handles :
         /\ AllocHandle(s)
         /\ streams' = [streams EXCEPT ![s] =
                          [file |-> h, offset |-> offset,
                           isWrite |-> isWrite, append |-> append]]
    /\ UNCHANGED <<diskVars, usageVars, openFiles, dirStreams, running>>

\* Stream::write over stream_write.  Any error closes the stream, the ones
\* found before the write included; an empty buffer writes nothing.
StreamWrite(s, len) ==
    /\ running
    /\ streams[s] # None
    /\ streams[s].isWrite
    /\ LET st     == streams[s]
           f      == openFiles[st.file]
           offset == IF st.append /\ f # None THEN disk[f.name] ELSE st.offset
       IN  \/ /\ f # None /\ disk[f.name] # Absent
              /\ \/ len = 0 /\ UNCHANGED <<disk, usageVars>>
                 \/ len > 0 /\ CompleteWrite(st.file, offset, len)
              /\ streams' = [streams EXCEPT ![s].offset = offset + len]
           \/ /\ f # None /\ disk[f.name] # Absent
              /\ BrokenWrite(st.file, offset, len)
              /\ streams' = [streams EXCEPT ![s] = None]
           \/ /\ streams' = [streams EXCEPT ![s] = None]
              /\ UNCHANGED <<disk, usageVars>>
    /\ UNCHANGED <<unsupported, openFiles, dirStreams, nextHandle, running>>

\* Defect: the offset advances by the length asked for, not the bytes read.
StreamReadByLength(s, len) ==
    /\ running
    /\ streams[s] # None
    /\ ~streams[s].isWrite
    /\ openFiles[streams[s].file] # None
    /\ streams' = [streams EXCEPT ![s].offset = @ + len]
    /\ UNCHANGED <<diskVars, usageVars, openFiles, dirStreams, nextHandle, running>>

\* Stream::read over stream_read: k bytes arrive, a short read included.
StreamRead(s, len) ==
    /\ running
    /\ streams[s] # None
    /\ ~streams[s].isWrite
    /\ openFiles[streams[s].file] # None
    /\ LET f    == openFiles[streams[s].file]
           size == Size(f.dir, f.name)
       IN  \E k \in 1 .. Min(len, size - streams[s].offset) :
             streams' = [streams EXCEPT ![s].offset = @ + k]
    /\ UNCHANGED <<diskVars, usageVars, openFiles, dirStreams, nextHandle, running>>

CloseStream(s) ==
    /\ running
    /\ streams[s] # None
    /\ streams' = [streams EXCEPT ![s] = None]
    /\ UNCHANGED <<diskVars, usageVars, openFiles, dirStreams, nextHandle, running>>

CreateDirStream(dir) ==
    /\ running
    /\ "read" \in DirPerms(dir)
    /\ \E s \in Handles :
         /\ AllocHandle(s)
         /\ dirStreams' = [dirStreams EXCEPT ![s] = [entries |-> Listing(dir)]]
    /\ UNCHANGED <<diskVars, usageVars, openFiles, streams, running>>

ReadDirEntry(s) ==
    /\ running
    /\ dirStreams[s] # None
    /\ \E n \in dirStreams[s].entries :
         dirStreams' = [dirStreams EXCEPT ![s].entries = @ \ {n}]
    /\ UNCHANGED <<diskVars, usageVars, openFiles, streams, nextHandle, running>>

CloseDirStream(s) ==
    /\ running
    /\ dirStreams[s] # None
    /\ dirStreams' = [dirStreams EXCEPT ![s] = None]
    /\ UNCHANGED <<diskVars, usageVars, openFiles, streams, nextHandle, running>>

-----------------------------------------------------------------------------
(* Host operations.                                                        *)

\* write_output_path: replace a file, from a host function or between runs.
\* Creating truncates first, so a broken write leaves a prefix of the new data.
WriteOutputPath(n, len) ==
    LET old     == IF disk[n] # Absent THEN disk[n] ELSE 0
        creates == disk[n] = Absent
    IN  /\ "output" \in Preopens
        /\ "mutate" \in OutDirPerms /\ "write" \in OutFilePerms
        /\ ValidMutation(old, len, creates)
        /\ \/ /\ len <= MaxSize
              /\ disk' = [disk EXCEPT ![n] = len]
              /\ ApplyMutation(old, len, creates)
           \/ /\ \/ UNCHANGED disk
                 \/ \E k \in 0 .. Min(len - 1, MaxSize) :
                      disk' = [disk EXCEPT ![n] = k]
              /\ Resynchronize(disk', unsupported)
        /\ UNCHANGED <<unsupported, handleVars, running>>

\* A run starts with prepare_for_run; if it fails the guest is not entered.
PrepareForRun ==
    /\ ~running
    /\ IF "output" \in Preopens THEN ResetOutputHandles ELSE UNCHANGED handleVars
    /\ Resynchronize(disk, unsupported)
    /\ running' = accountingValid'
    /\ UNCHANGED diskVars

\* The guest returns, traps, panics or is killed.
FinishRun ==
    /\ running
    /\ running' = FALSE
    /\ UNCHANGED <<diskVars, usageVars, handleVars>>

\* clear_output_files, the last step of Sandbox::restore.  The removal can fail
\* part of the way through; either way the usage is rescanned.
ClearOutputFiles ==
    /\ ~running
    /\ "output" \in Preopens
    /\ ResetOutputHandles
    /\ \E kept \in SUBSET Files(disk) :
         disk' = [n \in Names |-> IF n \in kept THEN disk[n] ELSE Absent]
    /\ unsupported' \in {unsupported, FALSE}
    /\ Resynchronize(disk', unsupported')
    /\ UNCHANGED running

\* Other host processes edit the output directory, one entry at a time.
HostEdit ==
    /\ HostBusy \/ ~running
    /\ "output" \in Preopens
    /\ \E n \in Names, size \in Sizes : disk' = [disk EXCEPT ![n] = size]
    /\ unsupported' \in BOOLEAN
    /\ edited' = TRUE
    /\ UNCHANGED <<outputUsage, accountingValid, handleVars, running>>

-----------------------------------------------------------------------------
\* with_temp_output and with_output_dir succeed only if the first scan does.
Init ==
    /\ disk \in [Names -> Sizes]
    /\ WithinLimits(disk)
    /\ "output" \notin Preopens => Files(disk) = {}
    /\ unsupported = FALSE
    /\ outputUsage = ActualUsage(disk)
    /\ accountingValid = TRUE
    /\ openFiles = [h \in Handles |-> None]
    /\ streams = [h \in Handles |-> None]
    /\ dirStreams = [h \in Handles |-> None]
    /\ nextHandle = MinHandle
    /\ running = FALSE
    /\ edited = FALSE

Guest ==
    \/ \E dir \in Preopens, n \in Names, create, truncate \in BOOLEAN :
         OpenAt(dir, n, create, truncate)
    \/ \E dir \in Preopens : CreateDirStream(dir)
    \/ \E h \in Handles :
         \/ CloseFile(h)
         \/ \E offset \in Offsets, len \in Lens : WriteFile(h, offset, len)
         \/ \E offset \in Offsets, isWrite, append \in BOOLEAN :
              CreateStream(h, offset, isWrite, append)
         \/ \E len \in Lens : StreamWrite(h, len)
         \/ \E len \in Lens : StreamRead(h, len)
         \/ CloseStream(h)
         \/ ReadDirEntry(h)
         \/ CloseDirStream(h)

Host ==
    \/ \E n \in Names, len \in Lens : WriteOutputPath(n, len)
    \/ PrepareForRun
    \/ FinishRun
    \/ ClearOutputFiles
    \/ HostEdit

Next == Guest \/ Host

Spec == Init /\ [][Next]_vars
=============================================================================
