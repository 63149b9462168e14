----------------------------- MODULE CapFsProofs -----------------------------
(***************************************************************************)
(* Theorems about the capability file system, for every set of names,      *)
(* every limit and every handle space.                                     *)
(***************************************************************************)
EXTENDS CapFsProps, FiniteSetTheorems, TLAPS

Count(s) == IF s = Absent THEN 0 ELSE s
-----------------------------------------------------------------------------
(* The preopens are finitely many.                                         *)
LEMMA PreopenCount == Cardinality(Preopens) \in Nat
<1>1. IsFiniteSet({"input"}) /\ IsFiniteSet({"input"} \cup {"output"})
  BY FS_Singleton, FS_AddElement
<1>2. Preopens \subseteq {"input"} \cup {"output"}
  BY CapFsAssumption
<1> QED
  BY <1>1, <1>2, FS_Subset, FS_CardinalityType

(* Lemmas about the size of a directory.                                   *)

(* The bytes and the files of a directory are finitely many.               *)
LEMMA DirectoryFinite ==
    ASSUME NEW d \in [Names -> Sizes]
    PROVE  /\ IsFiniteSet(Bytes(d)) /\ Cardinality(Bytes(d)) \in Nat
           /\ IsFiniteSet(Files(d)) /\ Cardinality(Files(d)) \in Nat
<1>1. IsFiniteSet(Names) /\ MaxSize \in Nat
  BY CapFsAssumption
<1>2. IsFiniteSet(1 .. MaxSize)
  BY <1>1, FS_Interval
<1>3. IsFiniteSet(Names \X (1 .. MaxSize))
  BY <1>1, <1>2, FS_Product
<1>4. IsFiniteSet(Bytes(d))
  BY <1>3, FS_Subset DEF Bytes
<1>5. IsFiniteSet(Files(d))
  BY <1>1, FS_Subset DEF Files
<1> QED
  BY <1>4, <1>5, FS_CardinalityType

(* A column of bytes holds as many elements as the file has bytes.         *)
LEMMA ColumnSize ==
    ASSUME NEW n, NEW s \in Sizes
    PROVE  /\ IsFiniteSet({n} \X (1 .. s))
           /\ Cardinality({n} \X (1 .. s)) = Count(s)
<1>1. s \in Int /\ s >= Absent
  BY CapFsAssumption DEF Sizes, Absent
<1>2. IsFiniteSet({n}) /\ Cardinality({n}) = 1
  BY FS_Singleton
<1>3. /\ IsFiniteSet(1 .. s)
      /\ Cardinality(1 .. s) = IF 1 > s THEN 0 ELSE s - 1 + 1
  BY <1>1, FS_Interval
<1>4. Cardinality(1 .. s) = Count(s) /\ Count(s) \in Nat
  BY <1>1, <1>3 DEF Count, Absent
<1>5. /\ IsFiniteSet({n} \X (1 .. s))
      /\ Cardinality({n} \X (1 .. s)) = Cardinality({n}) * Cardinality(1 .. s)
  BY <1>2, <1>3, FS_Product
<1> QED
  BY <1>2, <1>4, <1>5

(* Giving one file a new size moves the total by the difference, which is  *)
(* the arithmetic of validate_mutation and apply_mutation.                 *)
LEMMA ResizeBytes ==
    ASSUME NEW d \in [Names -> Sizes], NEW n \in Names, NEW s \in Sizes
    PROVE  /\ Cardinality(Bytes([d EXCEPT ![n] = s]))
                = Cardinality(Bytes(d)) - Count(d[n]) + Count(s)
           /\ Count(d[n]) <= Cardinality(Bytes(d))
<1> DEFINE e    == [d EXCEPT ![n] = s]
           rest == {b \in Bytes(d) : b[1] # n}
<1>1. e \in [Names -> Sizes]
  OBVIOUS
<1>2. IsFiniteSet(rest) /\ Cardinality(rest) \in Nat
  BY DirectoryFinite, FS_Subset, FS_CardinalityType
<1>3. Bytes(d) = rest \cup ({n} \X (1 .. d[n]))
  BY CapFsAssumption DEF Bytes, Sizes, Absent
<1>4. Bytes(e) = rest \cup ({n} \X (1 .. s))
  BY CapFsAssumption DEF Bytes, Sizes, Absent
<1>5. ASSUME NEW t \in Sizes
      PROVE  Cardinality(rest \cup ({n} \X (1 .. t))) = Cardinality(rest) + Count(t)
  <2>1. \A b \in {n} \X (1 .. t) : b[1] = n
    OBVIOUS
  <2>2. Cardinality(rest \cap ({n} \X (1 .. t))) = 0
    BY <2>1, FS_EmptySet
  <2>3. /\ IsFiniteSet({n} \X (1 .. t))
        /\ Cardinality({n} \X (1 .. t)) = Count(t)
    BY ColumnSize
  <2>4. Count(t) \in Nat
    BY CapFsAssumption DEF Count, Sizes, Absent
  <2>5. Cardinality(rest \cup ({n} \X (1 .. t)))
          = Cardinality(rest) + Cardinality({n} \X (1 .. t))
              - Cardinality(rest \cap ({n} \X (1 .. t)))
    BY <1>2, <2>3, FS_Union
  <2> HIDE DEF rest
  <2> QED
    BY <1>2, <2>2, <2>3, <2>4, <2>5
<1>6. Count(s) \in Nat /\ Count(d[n]) \in Nat
  BY CapFsAssumption DEF Count, Sizes, Absent
<1>7. /\ Cardinality(Bytes(d)) = Cardinality(rest) + Count(d[n])
      /\ Cardinality(Bytes(e)) = Cardinality(rest) + Count(s)
  BY <1>3, <1>4, <1>5
<1> HIDE DEF rest
<1> QED
  BY <1>2, <1>6, <1>7

(* Storing a file adds one to the count exactly if it was absent.          *)
LEMMA StoreFiles ==
    ASSUME NEW d \in [Names -> Sizes], NEW n \in Names, NEW s \in Sizes, s # Absent
    PROVE  Cardinality(Files([d EXCEPT ![n] = s]))
             = Cardinality(Files(d)) + (IF d[n] = Absent THEN 1 ELSE 0)
<1>1. Files([d EXCEPT ![n] = s]) = Files(d) \cup {n}
  BY DEF Files
<1>2. n \in Files(d) <=> d[n] # Absent
  BY DEF Files
<1>3. IsFiniteSet(Files(d)) /\ Cardinality(Files(d)) \in Nat
  BY DirectoryFinite
<1>4. Cardinality(Files(d) \cup {n})
        = IF n \in Files(d) THEN Cardinality(Files(d)) ELSE Cardinality(Files(d)) + 1
  BY <1>3, FS_AddElement
<1>5. CASE d[n] = Absent
  BY <1>1, <1>2, <1>3, <1>4, <1>5
<1>6. CASE d[n] # Absent
  <2>1. Files([d EXCEPT ![n] = s]) = Files(d)
    BY <1>1, <1>2, <1>6
  <2>2. Cardinality(Files(d)) = Cardinality(Files(d)) + 0
    BY <1>3
  <2> QED
    BY <2>1, <2>2, <1>6
<1> QED
  BY <1>5, <1>6

(* A directory whose files are no larger is within the limits as well: a   *)
(* broken write or an interrupted clear leaves such a directory.           *)
LEMMA SmallerWithinLimits ==
    ASSUME NEW d \in [Names -> Sizes], NEW e \in [Names -> Sizes],
           \A n \in Names : e[n] <= d[n],
           WithinLimits(d)
    PROVE  WithinLimits(e)
<1>1. Bytes(e) \subseteq Bytes(d)
  BY CapFsAssumption DEF Bytes, Sizes, Absent
<1>2. Files(e) \subseteq Files(d)
  BY CapFsAssumption DEF Files, Sizes, Absent
<1>3. /\ Cardinality(Bytes(e)) <= Cardinality(Bytes(d))
      /\ Cardinality(Files(e)) <= Cardinality(Files(d))
  BY <1>1, <1>2, DirectoryFinite, FS_Subset
<1>4. \A n \in Names : e[n] \in Int /\ d[n] \in Int
  BY CapFsAssumption DEF Sizes, Absent
<1> QED
  BY <1>3, <1>4, DirectoryFinite, CapFsAssumption DEF WithinLimits
-----------------------------------------------------------------------------
(* Type correctness.                                                       *)

(* A rescan leaves a well-typed usage.                                     *)
LEMMA ResynchronizeType ==
    ASSUME TypeOK, NEW d \in [Names -> Sizes], NEW u, Resynchronize(d, u)
    PROVE  /\ outputUsage' \in [bytes : Nat, files : Nat]
           /\ accountingValid' \in BOOLEAN
           /\ edited' \in BOOLEAN
<1>1. ActualUsage(d) \in [bytes : Nat, files : Nat]
  BY DirectoryFinite DEF ActualUsage
<1> QED
  BY <1>1 DEF Resynchronize, TypeOK

(* So does the incremental update, which never underflows.                 *)
LEMMA ApplyMutationType ==
    ASSUME TypeOK, NEW old \in Nat, NEW new \in Nat, NEW creates \in BOOLEAN,
           ApplyMutation(old, new, creates)
    PROVE  /\ outputUsage' \in [bytes : Nat, files : Nat]
           /\ accountingValid' \in BOOLEAN
           /\ edited' \in BOOLEAN
<1>1. outputUsage \in [bytes : Nat, files : Nat]
  BY DEF TypeOK
<1>2. outputUsage.bytes \in Nat /\ outputUsage.files \in Nat
  BY <1>1
<1>3. CASE UNCHANGED <<outputUsage, accountingValid, edited>>
  BY <1>3 DEF TypeOK
<1>4. CASE /\ old <= outputUsage.bytes
           /\ outputUsage' = [bytes |-> outputUsage.bytes - old + new,
                              files |-> outputUsage.files + (IF creates THEN 1 ELSE 0)]
           /\ UNCHANGED <<accountingValid, edited>>
  <2>1. /\ outputUsage.bytes - old + new \in Nat
        /\ outputUsage.files + (IF creates THEN 1 ELSE 0) \in Nat
    BY <1>2, <1>4
  <2> QED
    BY <1>4, <2>1 DEF TypeOK
<1>5. CASE accountingValid' = FALSE /\ UNCHANGED <<outputUsage, edited>>
  BY <1>5 DEF TypeOK
<1> QED
  BY <1>3, <1>4, <1>5 DEF ApplyMutation

(* The restarted handle tables are well typed.                             *)
LEMMA ResetType ==
    ASSUME TypeOK, ResetOutputHandles
    PROVE  /\ openFiles' \in [Handles -> FileEntry \cup {None}]
           /\ streams' \in [Handles -> StreamState \cup {None}]
           /\ dirStreams' \in [Handles -> DirStreamState \cup {None}]
           /\ nextHandle' \in MinHandle .. MaxHandle
BY DEF ResetOutputHandles, TypeOK

(* A handed out handle keeps next_handle in u32.                           *)
LEMMA AllocHandleType ==
    ASSUME TypeOK, NEW h, AllocHandle(h)
    PROVE  h \in Handles /\ nextHandle' \in MinHandle .. MaxHandle
<1>1. MinHandle \in Int /\ MaxHandle \in Nat
  BY PreopenCount, CapFsAssumption DEF MinHandle, FirstPreopenFd
<1> QED
  BY <1>1 DEF AllocHandle, TypeOK, Handles

(* The sizes and the handle bounds are integers.                           *)
LEMMA Numbers ==
    /\ MinHandle \in Nat /\ MaxHandle \in Nat /\ MinHandle <= MaxHandle
    /\ MaxSize \in Nat /\ MaxU64 \in Nat /\ MaxSize <= MaxU64
    /\ Sizes = Absent .. MaxSize /\ Absent = -1
    /\ Handles \subseteq Nat
BY PreopenCount, CapFsAssumption DEF MinHandle, FirstPreopenFd, Sizes, Absent, Handles

(* The three outcomes of write_file keep the output and the usage typed.   *)
LEMMA WriteType ==
    ASSUME TypeOK, NEW h \in Handles, NEW offset \in Nat, NEW len \in Nat,
           CompleteWrite(h, offset, len) \/ BrokenWrite(h, offset, len)
    PROVE  /\ disk' \in [Names -> Sizes]
           /\ outputUsage' \in [bytes : Nat, files : Nat]
           /\ accountingValid' \in BOOLEAN
           /\ edited' \in BOOLEAN
<1> DEFINE n == openFiles[h].name
<1>1. openFiles[h] \in FileEntry /\ disk[n] # Absent
  BY DEF CompleteWrite, BrokenWrite, CanWrite, TypeOK
<1>2. n \in Names /\ disk[n] \in 0 .. MaxSize /\ disk[n] \in Nat
  BY <1>1, Numbers DEF FileEntry, TypeOK
<1>3. ASSUME NEW k \in Nat, offset + k <= MaxSize
      PROVE  Max(disk[n], offset + k) \in Sizes \cap Nat
  BY <1>2, <1>3, Numbers DEF Max
<1>4. CASE CompleteWrite(h, offset, len)
  <2>1. /\ disk' = [disk EXCEPT ![n] = Max(disk[n], offset + len)]
        /\ offset + len <= MaxSize
        /\ ApplyMutation(disk[n], Max(disk[n], offset + len), FALSE)
    BY <1>4 DEF CompleteWrite
  <2>2. Max(disk[n], offset + len) \in Sizes \cap Nat
    BY <1>3, <2>1
  <2>3. disk' \in [Names -> Sizes]
    BY <2>1, <2>2 DEF TypeOK
  <2> HIDE DEF n
  <2> QED
    BY <1>2, <2>1, <2>2, <2>3, ApplyMutationType
<1>5. CASE BrokenWrite(h, offset, len)
  <2>1. PICK k \in 0 .. (len - 1) :
          /\ offset + k <= MaxSize
          /\ disk' = IF k = 0 THEN disk
                     ELSE [disk EXCEPT ![n] = Max(disk[n], offset + k)]
          /\ Resynchronize(disk', unsupported)
    BY <1>5 DEF BrokenWrite
  <2>2. Max(disk[n], offset + k) \in Sizes
    BY <1>3, <2>1
  <2>3. disk' \in [Names -> Sizes]
    BY <2>1, <2>2 DEF TypeOK
  <2> QED
    BY <2>1, <2>3, ResynchronizeType
<1> QED
  BY <1>4, <1>5

(* Inserting a descriptor keeps the table typed.                           *)
LEMMA InsertType ==
    ASSUME TypeOK, NEW dir \in Preopens, NEW n \in Names, InsertDescriptor(dir, n)
    PROVE  /\ openFiles' \in [Handles -> FileEntry \cup {None}]
           /\ nextHandle' \in MinHandle .. MaxHandle
<1>1. [name |-> n, dir |-> dir] \in FileEntry
  BY DEF FileEntry
<1> QED
  BY <1>1, AllocHandleType DEF InsertDescriptor, TypeOK

(* open_at leaves the disk, the usage and the tables typed.                 *)
LEMMA OpenAtType ==
    ASSUME TypeOK, NEW dir \in Preopens, NEW n \in Names,
           NEW create \in BOOLEAN, NEW truncate \in BOOLEAN,
           OpenAt(dir, n, create, truncate)
    PROVE  TypeOK'
<1>1. 0 \in Sizes /\ disk[n] \in Sizes /\ [disk EXCEPT ![n] = 0] \in [Names -> Sizes]
  BY Numbers DEF TypeOK
<1>2. CASE TruncateOpened(n)
  <2>1. disk[n] \in Nat
    BY <1>1, <1>2, Numbers DEF TruncateOpened
  <2>2. disk' \in [Names -> Sizes]
    BY <1>1, <1>2 DEF TruncateOpened, TypeOK
  <2>3. /\ outputUsage' \in [bytes : Nat, files : Nat]
        /\ accountingValid' \in BOOLEAN
        /\ edited' \in BOOLEAN
    <3>1. CASE ApplyMutation(disk[n], 0, FALSE)
      BY <2>1, <3>1, ApplyMutationType
    <3>2. CASE Resynchronize(disk, unsupported)
      BY <3>2, ResynchronizeType DEF TypeOK
    <3> QED
      BY <1>2, <3>1, <3>2 DEF TruncateOpened
  <2> QED
    BY <1>2, <2>2, <2>3 DEF OpenAt, TruncateOpened, TypeOK, handleVars
<1>3. CASE OpenFresh(dir, n, create, truncate)
  <2> DEFINE old     == IF Exists(dir, n) THEN Size(dir, n) ELSE 0
             creates == ~Exists(dir, n)
  <2>1. old \in Nat /\ creates \in BOOLEAN
    BY <1>1, Numbers, CapFsAssumption DEF Exists, Size
  <2> HIDE DEF old, creates
  <2>2. /\ disk' \in [Names -> Sizes]
        /\ outputUsage' \in [bytes : Nat, files : Nat]
        /\ accountingValid' \in BOOLEAN
        /\ edited' \in BOOLEAN
        /\ InsertDescriptor(dir, n) \/ UNCHANGED <<openFiles, nextHandle>>
    <3>1. CASE UNCHANGED <<disk, usageVars>> /\ InsertDescriptor(dir, n)
      BY <3>1 DEF usageVars, TypeOK
    <3>2. CASE /\ disk' = [disk EXCEPT ![n] = 0]
               /\ ApplyMutation(old, 0, creates)
               /\ InsertDescriptor(dir, n)
      BY <1>1, <2>1, <3>2, ApplyMutationType
    <3>3. CASE /\ UNCHANGED <<disk, openFiles, nextHandle>>
               /\ Resynchronize(disk, unsupported)
      BY <3>3, ResynchronizeType DEF TypeOK
    <3> QED
      BY <1>3, <3>1, <3>2, <3>3 DEF OpenFresh, old, creates
  <2>3. /\ openFiles' \in [Handles -> FileEntry \cup {None}]
        /\ nextHandle' \in MinHandle .. MaxHandle
    BY <2>2, InsertType DEF TypeOK
  <2> QED
    BY <1>3, <2>2, <2>3 DEF OpenAt, OpenFresh, TypeOK
<1> QED
  BY <1>2, <1>3 DEF OpenAt

(* So do the byte stream operations; a stream offset never passes u64::MAX. *)
LEMMA StreamType ==
    ASSUME TypeOK, NEW h \in Handles,
           \/ CloseFile(h)
           \/ \E offset \in Offsets, isWrite, append \in BOOLEAN :
                CreateStream(h, offset, isWrite, append)
           \/ \E len \in Lens : StreamWrite(h, len)
           \/ \E len \in Lens : StreamRead(h, len)
           \/ CloseStream(h)
    PROVE  TypeOK'
<1>1. CASE CloseFile(h)
  BY <1>1 DEF CloseFile, TypeOK, diskVars, usageVars
<1>2. CASE CloseStream(h)
  BY <1>2 DEF CloseStream, TypeOK, diskVars, usageVars
<1>3. ASSUME NEW offset \in Offsets, NEW isWrite \in BOOLEAN, NEW append \in BOOLEAN,
             CreateStream(h, offset, isWrite, append)
      PROVE  TypeOK'
  <2>1. [file |-> h, offset |-> offset, isWrite |-> isWrite, append |-> append]
          \in StreamState
    BY CapFsAssumption DEF StreamState
  <2> QED
    BY <1>3, <2>1, AllocHandleType DEF CreateStream, TypeOK, diskVars, usageVars
<1>4. ASSUME NEW len \in Lens, StreamWrite(h, len)
      PROVE  TypeOK'
  <2> DEFINE st     == streams[h]
             f      == openFiles[st.file]
             offset == IF st.append /\ f # None THEN disk[f.name] ELSE st.offset
  <2>1. st \in StreamState /\ len \in Nat
    <3>1. streams[h] # None
      BY <1>4 DEF StreamWrite
    <3>2. len \in Nat
      BY CapFsAssumption, Numbers
    <3> QED
      BY <3>1, <3>2 DEF TypeOK
  <2>2. st.file \in Handles /\ st.offset \in 0 .. MaxU64
    BY <2>1 DEF StreamState
  <2>3. ASSUME f # None, disk[f.name] # Absent
        PROVE  offset \in Nat /\ offset <= MaxU64
    <3>1. f \in FileEntry
      BY <2>2, <2>3 DEF TypeOK
    <3>2. disk[f.name] \in Sizes
      BY <3>1 DEF FileEntry, TypeOK
    <3> QED
      BY <2>2, <2>3, <3>2, Numbers
  <2> HIDE DEF st, f, offset
  <2>4. \/ /\ f # None /\ disk[f.name] # Absent
           /\ \/ len = 0 /\ UNCHANGED <<disk, usageVars>>
              \/ len > 0 /\ CompleteWrite(st.file, offset, len)
           /\ streams' = [streams EXCEPT ![h].offset = offset + len]
        \/ /\ f # None /\ disk[f.name] # Absent
           /\ BrokenWrite(st.file, offset, len)
           /\ streams' = [streams EXCEPT ![h] = None]
        \/ /\ streams' = [streams EXCEPT ![h] = None]
           /\ UNCHANGED <<disk, usageVars>>
    BY <1>4 DEF StreamWrite, st, f, offset
  <2>5. /\ disk' \in [Names -> Sizes]
        /\ outputUsage' \in [bytes : Nat, files : Nat]
        /\ accountingValid' \in BOOLEAN
        /\ edited' \in BOOLEAN
    <3>1. CASE UNCHANGED <<disk, usageVars>>
      BY <3>1 DEF usageVars, TypeOK
    <3>2. CASE /\ f # None /\ disk[f.name] # Absent
               /\ CompleteWrite(st.file, offset, len) \/ BrokenWrite(st.file, offset, len)
      BY <2>1, <2>2, <2>3, <3>2, WriteType
    <3> QED
      BY <2>4, <3>1, <3>2
  <2>6. streams' \in [Handles -> StreamState \cup {None}]
    <3>1. CASE streams' = [streams EXCEPT ![h] = None]
      BY <3>1 DEF TypeOK
    <3>2. CASE /\ f # None /\ disk[f.name] # Absent
               /\ \/ len = 0
                  \/ len > 0 /\ CompleteWrite(st.file, offset, len)
               /\ streams' = [streams EXCEPT ![h].offset = offset + len]
      <4>1. offset + len \in 0 .. MaxU64
        <5>1. offset \in Nat /\ offset <= MaxU64
          BY <2>3, <3>2
        <5>2. CASE len = 0
          BY <5>1, <5>2, Numbers
        <5>3. CASE CompleteWrite(st.file, offset, len)
          <6>1. offset + len <= MaxU64
            BY <5>3 DEF CompleteWrite, CanWrite
          <6> QED
            BY <2>1, <5>1, <6>1, Numbers
        <5> QED
          BY <3>2, <5>2, <5>3
      <4>2. [st EXCEPT !.offset = offset + len] \in StreamState
        BY <2>1, <4>1 DEF StreamState
      <4>3. streams' = [streams EXCEPT ![h] = [st EXCEPT !.offset = offset + len]]
        BY <3>2 DEF st
      <4> QED
        BY <4>2, <4>3 DEF TypeOK
    <3> QED
      BY <2>4, <3>1, <3>2
  <2> QED
    BY <1>4, <2>5, <2>6 DEF StreamWrite, TypeOK
<1>5. ASSUME NEW len \in Lens, StreamRead(h, len)
      PROVE  TypeOK'
  <2> DEFINE f    == openFiles[streams[h].file]
             size == Size(f.dir, f.name)
  <2>1. streams[h] \in StreamState /\ len \in Nat
    BY <1>5, CapFsAssumption, Numbers DEF StreamRead, TypeOK
  <2>2. streams[h].file \in Handles /\ streams[h].offset \in 0 .. MaxU64
    BY <2>1 DEF StreamState
  <2>3. f \in FileEntry
    BY <1>5, <2>2 DEF StreamRead, TypeOK
  <2>4. size \in Int /\ size <= MaxU64
    BY <2>3, Numbers, CapFsAssumption DEF FileEntry, Size, TypeOK
  <2> HIDE DEF size
  <2>5. PICK k \in 1 .. Min(len, size - streams[h].offset) :
          streams' = [streams EXCEPT ![h].offset = @ + k]
    BY <1>5 DEF StreamRead, size
  <2>6. streams[h].offset + k \in 0 .. MaxU64
    BY <2>1, <2>2, <2>4, Numbers DEF Min
  <2>7. [streams[h] EXCEPT !.offset = streams[h].offset + k] \in StreamState
    BY <2>1, <2>6 DEF StreamState
  <2>8. streams' \in [Handles -> StreamState \cup {None}]
    BY <2>5, <2>7 DEF TypeOK
  <2> QED
    BY <1>5, <2>8 DEF StreamRead, TypeOK, diskVars, usageVars
<1> QED
  BY <1>1, <1>2, <1>3, <1>4, <1>5

(* So do the directory stream operations.                                   *)
LEMMA DirStreamType ==
    ASSUME TypeOK,
           \/ \E dir \in Preopens : CreateDirStream(dir)
           \/ \E h \in Handles : ReadDirEntry(h) \/ CloseDirStream(h)
    PROVE  TypeOK'
<1>1. ASSUME NEW dir \in Preopens, CreateDirStream(dir)
      PROVE  TypeOK'
  <2>1. [entries |-> Listing(dir)] \in DirStreamState
    BY DEF Listing, DirStreamState
  <2> QED
    BY <1>1, <2>1, AllocHandleType DEF CreateDirStream, TypeOK, diskVars, usageVars
<1>2. ASSUME NEW h \in Handles, ReadDirEntry(h)
      PROVE  TypeOK'
  <2>1. dirStreams[h] \in DirStreamState
    BY <1>2 DEF ReadDirEntry, TypeOK
  <2>2. PICK n \in dirStreams[h].entries :
          dirStreams' = [dirStreams EXCEPT ![h].entries = @ \ {n}]
    BY <1>2 DEF ReadDirEntry
  <2>3. [dirStreams[h] EXCEPT !.entries = dirStreams[h].entries \ {n}] \in DirStreamState
    BY <2>1 DEF DirStreamState
  <2>4. dirStreams' \in [Handles -> DirStreamState \cup {None}]
    BY <2>2, <2>3 DEF TypeOK
  <2> QED
    BY <1>2, <2>4 DEF ReadDirEntry, TypeOK, diskVars, usageVars
<1>3. ASSUME NEW h \in Handles, CloseDirStream(h)
      PROVE  TypeOK'
  BY <1>3 DEF CloseDirStream, TypeOK, diskVars, usageVars
<1> QED
  BY <1>1, <1>2, <1>3

(* So do the host bridge, the run boundaries, the clear and host edits.     *)
LEMMA HostType ==
    ASSUME TypeOK, Host
    PROVE  TypeOK'
<1>1. ASSUME NEW n \in Names, NEW len \in Lens, WriteOutputPath(n, len)
      PROVE  TypeOK'
  <2> DEFINE old     == IF disk[n] # Absent THEN disk[n] ELSE 0
             creates == disk[n] = Absent
  <2>1. old \in Nat /\ len \in Nat /\ creates \in BOOLEAN
    BY Numbers, CapFsAssumption DEF TypeOK
  <2> HIDE DEF old, creates
  <2>2. CASE /\ len <= MaxSize
             /\ disk' = [disk EXCEPT ![n] = len]
             /\ ApplyMutation(old, len, creates)
    <3>1. len \in Sizes
      BY <2>1, <2>2, Numbers
    <3>2. disk' \in [Names -> Sizes]
      BY <2>2, <3>1 DEF TypeOK
    <3> QED
      BY <1>1, <2>1, <2>2, <3>2, ApplyMutationType DEF WriteOutputPath, TypeOK, handleVars
  <2>3. CASE /\ \/ UNCHANGED disk
                \/ \E k \in 0 .. Min(len - 1, MaxSize) :
                     disk' = [disk EXCEPT ![n] = k]
             /\ Resynchronize(disk', unsupported)
    <3>1. \A k \in 0 .. Min(len - 1, MaxSize) : k \in Sizes
      BY <2>1, Numbers DEF Min
    <3>2. disk' \in [Names -> Sizes]
      BY <2>3, <3>1 DEF TypeOK
    <3> QED
      BY <1>1, <2>3, <3>2, ResynchronizeType DEF WriteOutputPath, TypeOK, handleVars
  <2> QED
    BY <1>1, <2>2, <2>3 DEF WriteOutputPath, old, creates
<1>2. CASE PrepareForRun
  <2>1. /\ outputUsage' \in [bytes : Nat, files : Nat]
        /\ accountingValid' \in BOOLEAN
        /\ edited' \in BOOLEAN
    BY <1>2, ResynchronizeType DEF PrepareForRun, TypeOK
  <2>2. /\ openFiles' \in [Handles -> FileEntry \cup {None}]
        /\ streams' \in [Handles -> StreamState \cup {None}]
        /\ dirStreams' \in [Handles -> DirStreamState \cup {None}]
        /\ nextHandle' \in MinHandle .. MaxHandle
    BY <1>2, ResetType DEF PrepareForRun, TypeOK, handleVars
  <2> QED
    BY <1>2, <2>1, <2>2 DEF PrepareForRun, TypeOK, diskVars
<1>3. CASE FinishRun
  BY <1>3 DEF FinishRun, TypeOK, diskVars, usageVars, handleVars
<1>4. CASE ClearOutputFiles
  <2>1. disk' \in [Names -> Sizes]
    BY <1>4, Numbers DEF ClearOutputFiles, TypeOK
  <2>2. unsupported' \in BOOLEAN
    BY <1>4 DEF ClearOutputFiles, TypeOK
  <2> QED
    BY <1>4, <2>1, <2>2, ResetType, ResynchronizeType DEF ClearOutputFiles, TypeOK
<1>5. CASE HostEdit
  BY <1>5 DEF HostEdit, TypeOK, handleVars
<1> QED
  BY <1>1, <1>2, <1>3, <1>4, <1>5 DEF Host

(* The constructors build a typed file system.                              *)
LEMMA InitType == Init => TypeOK
<1> SUFFICES ASSUME Init PROVE TypeOK
  OBVIOUS
<1>1. outputUsage \in [bytes : Nat, files : Nat]
  BY DirectoryFinite DEF Init, ActualUsage
<1>2. nextHandle \in MinHandle .. MaxHandle
  BY Numbers DEF Init
<1> QED
  BY <1>1, <1>2 DEF Init, TypeOK

(* Every step keeps the types.                                              *)
LEMMA NextType == TypeOK /\ [Next]_vars => TypeOK'
<1> SUFFICES ASSUME TypeOK, [Next]_vars PROVE TypeOK'
  OBVIOUS
<1>1. CASE Guest
  <2>1. ASSUME NEW h \in Handles, NEW offset \in Offsets, NEW len \in Lens,
               WriteFile(h, offset, len)
        PROVE  TypeOK'
    <3>1. offset \in Nat /\ len \in Nat
      BY CapFsAssumption, Numbers
    <3> QED
      BY <2>1, <3>1, WriteType DEF WriteFile, TypeOK, handleVars
  <2> QED
    BY <1>1, <2>1, OpenAtType, StreamType, DirStreamType DEF Guest
<1>2. CASE Host
  BY <1>2, HostType
<1>3. CASE UNCHANGED vars
  BY <1>3 DEF vars, diskVars, usageVars, handleVars, TypeOK
<1> QED
  BY <1>1, <1>2, <1>3 DEF Next

(* The state stays well typed: no operation makes a size, an offset or a   *)
(* handle leave its machine type.                                          *)
THEOREM TypeCorrect == Spec => []TypeOK
BY InitType, NextType, PTL DEF Spec
-----------------------------------------------------------------------------
(* Quota accounting.  The invariant is inductive with the type: the usage  *)
(* is exact while it is valid and no host edit is pending, so a mutation   *)
(* that validate_mutation accepts leaves a directory within the limits.    *)

QuotaInv == AccountingExact /\ QuotaHolds /\ UsageWithinLimits

(* A rescan re-establishes the invariant over the directory it scans.      *)
LEMMA ResynchronizeQuota ==
    ASSUME TypeOK, disk' \in [Names -> Sizes], NEW u,
           Resynchronize(disk', u),
           ~edited => WithinLimits(disk')
    PROVE  QuotaInv'
<1>1. CASE /\ WithinLimits(disk')
           /\ outputUsage' = ActualUsage(disk')
           /\ accountingValid' = TRUE
           /\ edited' = FALSE
  BY <1>1 DEF QuotaInv, AccountingExact, QuotaHolds, UsageWithinLimits,
              ActualUsage, WithinLimits
<1>2. CASE accountingValid' = FALSE /\ UNCHANGED edited
  BY <1>2 DEF QuotaInv, AccountingExact, QuotaHolds, UsageWithinLimits
<1> QED
  BY <1>1, <1>2 DEF Resynchronize

(* A mutation that validate_mutation accepts keeps the limits.             *)
LEMMA AcceptedFits ==
    ASSUME TypeOK, QuotaInv, ~edited,
           NEW n \in Names, NEW s \in Sizes, s # Absent,
           NEW creates \in BOOLEAN, creates <=> disk[n] = Absent,
           ValidMutation(Count(disk[n]), s, creates)
    PROVE  WithinLimits([disk EXCEPT ![n] = s])
<1> SUFFICES ASSUME Limited PROVE WithinLimits([disk EXCEPT ![n] = s])
  BY DEF WithinLimits
<1> DEFINE e == [disk EXCEPT ![n] = s]
<1>1. disk \in [Names -> Sizes] /\ e \in [Names -> Sizes]
  BY DEF TypeOK
<1>2. outputUsage = ActualUsage(disk) /\ WithinLimits(disk)
  BY DEF QuotaInv, AccountingExact, QuotaHolds, ValidMutation
<1>3. outputUsage.bytes = Cardinality(Bytes(disk)) /\ outputUsage.files = Cardinality(Files(disk))
  BY <1>2 DEF ActualUsage
<1>4. Count(s) = s
  BY DEF Count
<1>5. /\ s <= MaxFileSize
      /\ outputUsage.bytes - Count(disk[n]) + s <= MaxTotalSize
      /\ outputUsage.files + (IF creates THEN 1 ELSE 0) <= MaxFileCount
  BY DEF ValidMutation
<1>6. Cardinality(Bytes(e)) <= MaxTotalSize
  <2>1. Cardinality(Bytes(e)) = Cardinality(Bytes(disk)) - Count(disk[n]) + Count(s)
    BY <1>1, ResizeBytes
  <2> QED
    BY <1>3, <1>4, <1>5, <2>1
<1>7. Cardinality(Files(e)) <= MaxFileCount
  <2>1. Cardinality(Files(e)) = Cardinality(Files(disk)) + (IF disk[n] = Absent THEN 1 ELSE 0)
    BY <1>1, StoreFiles
  <2> QED
    BY <1>3, <1>5, <2>1
<1>8. \A m \in Names : e[m] <= MaxFileSize
  BY <1>1, <1>2, <1>5 DEF WithinLimits
<1> QED
  BY <1>6, <1>7, <1>8 DEF WithinLimits

(* apply_mutation keeps an exact usage exact: it cannot underflow.         *)
LEMMA AppliedExact ==
    ASSUME TypeOK, QuotaInv, accountingValid,
           NEW n \in Names, NEW s \in Sizes, s # Absent,
           NEW creates \in BOOLEAN, creates <=> disk[n] = Absent,
           disk' = [disk EXCEPT ![n] = s],
           ApplyMutation(Count(disk[n]), s, creates)
    PROVE  AccountingExact'
<1> SUFFICES ASSUME accountingValid', ~edited' PROVE outputUsage' = ActualUsage(disk')
  BY DEF AccountingExact
<1>1. ~edited /\ outputUsage = ActualUsage(disk)
  BY DEF ApplyMutation, QuotaInv, AccountingExact
<1>2. CASE ~Limited
  BY <1>1, <1>2 DEF ApplyMutation, ActualUsage
<1>3. CASE Limited
  <2>1. disk \in [Names -> Sizes] /\ Count(s) = s
    BY DEF TypeOK, Count
  <2>2. Cardinality(Bytes(disk')) = Cardinality(Bytes(disk)) - Count(disk[n]) + s
    BY <2>1, ResizeBytes
  <2>3. Cardinality(Files(disk'))
          = Cardinality(Files(disk)) + (IF disk[n] = Absent THEN 1 ELSE 0)
    BY <2>1, StoreFiles
  <2>4. outputUsage' = [bytes |-> outputUsage.bytes - Count(disk[n]) + s,
                        files |-> outputUsage.files + (IF creates THEN 1 ELSE 0)]
    BY <1>3 DEF ApplyMutation
  <2>5. outputUsage.bytes = Cardinality(Bytes(disk)) /\ outputUsage.files = Cardinality(Files(disk))
    BY <1>1, <1>3 DEF ActualUsage
  <2> QED
    BY <1>3, <2>2, <2>3, <2>4, <2>5 DEF ActualUsage
<1> QED
  BY <1>2, <1>3

(* An accepted and applied mutation keeps the whole invariant.             *)
LEMMA MutationQuota ==
    ASSUME TypeOK, QuotaInv,
           NEW n \in Names, NEW s \in Sizes, s # Absent,
           NEW creates \in BOOLEAN, creates <=> disk[n] = Absent,
           ValidMutation(Count(disk[n]), s, creates),
           disk' = [disk EXCEPT ![n] = s],
           ApplyMutation(Count(disk[n]), s, creates)
    PROVE  QuotaInv'
<1>1. AccountingExact'
  BY AppliedExact DEF ValidMutation
<1>2. QuotaHolds'
  BY AcceptedFits DEF QuotaHolds, ApplyMutation
<1>3. UsageWithinLimits'
  BY DEF UsageWithinLimits, ApplyMutation, ValidMutation
<1> QED
  BY <1>1, <1>2, <1>3 DEF QuotaInv

(* Writing, complete or broken, keeps the invariant.                       *)
LEMMA WriteQuota ==
    ASSUME TypeOK, QuotaInv,
           NEW h \in Handles, NEW offset \in Nat, NEW len \in Nat,
           CompleteWrite(h, offset, len) \/ BrokenWrite(h, offset, len)
    PROVE  QuotaInv'
<1> DEFINE n    == openFiles[h].name
           full == Max(disk[n], offset + len)
<1>1. openFiles[h] \in FileEntry /\ disk[n] # Absent
  BY DEF CompleteWrite, BrokenWrite, CanWrite, TypeOK
<1>2. n \in Names /\ disk[n] \in 0 .. MaxSize /\ disk[n] \in Nat
  BY <1>1, Numbers DEF FileEntry, TypeOK
<1>3. Count(disk[n]) = disk[n]
  BY <1>1 DEF Count
<1>4. ValidMutation(disk[n], full, FALSE)
  BY DEF CompleteWrite, BrokenWrite, CanWrite
<1>5. CASE CompleteWrite(h, offset, len)
  <2>1. /\ disk' = [disk EXCEPT ![n] = full]
        /\ ApplyMutation(disk[n], full, FALSE)
        /\ offset + len <= MaxSize
    BY <1>5 DEF CompleteWrite
  <2>2. full \in Sizes /\ full # Absent
    BY <1>2, <2>1, Numbers DEF Max
  <2> HIDE DEF n, full
  <2> QED
    BY <1>1, <1>2, <1>3, <1>4, <2>1, <2>2, MutationQuota
<1>6. CASE BrokenWrite(h, offset, len)
  <2>1. PICK k \in 0 .. (len - 1) :
          /\ offset + k <= MaxSize
          /\ disk' = IF k = 0 THEN disk
                     ELSE [disk EXCEPT ![n] = Max(disk[n], offset + k)]
          /\ Resynchronize(disk', unsupported)
    BY <1>6 DEF BrokenWrite
  <2> DEFINE part == Max(disk[n], offset + k)
  <2>2. part \in Sizes /\ part # Absent /\ part <= full /\ disk[n] <= part
    <3>1. offset + k \in Nat /\ offset + k <= offset + len /\ offset + k <= MaxSize
      BY <2>1
    <3>2. disk[n] \in Nat /\ disk[n] <= MaxSize
      BY <1>2, Numbers
    <3>3. part \in Nat /\ part <= MaxSize /\ part <= full /\ disk[n] <= part
      BY <3>1, <3>2 DEF Max
    <3> HIDE DEF part, full
    <3> QED
      BY <3>3, Numbers
  <2>3. disk \in [Names -> Sizes] /\ disk' \in [Names -> Sizes]
    BY <2>1, <2>2 DEF TypeOK
  <2>4. ASSUME ~edited
        PROVE  WithinLimits(disk')
    <3>1. CASE k = 0
      BY <2>1, <2>4, <3>1 DEF QuotaInv, QuotaHolds
    <3>2. CASE k # 0
      <4>1. disk' = [disk EXCEPT ![n] = part]
        BY <2>1, <3>2
      <4>2. ValidMutation(disk[n], part, FALSE)
        BY <1>2, <1>4, <2>2, CapFsAssumption, Numbers DEF ValidMutation, TypeOK, Max
      <4> HIDE DEF n, full, part
      <4> QED
        BY <1>1, <1>2, <1>3, <2>2, <2>4, <4>1, <4>2, AcceptedFits
    <3> QED
      BY <3>1, <3>2
  <2> QED
    BY <2>1, <2>3, <2>4, ResynchronizeQuota
<1> QED
  BY <1>5, <1>6

(* Opening, creating and truncating keep the invariant.                    *)
LEMMA OpenAtQuota ==
    ASSUME TypeOK, QuotaInv, NEW dir \in Preopens, NEW n \in Names,
           NEW create \in BOOLEAN, NEW truncate \in BOOLEAN,
           OpenAt(dir, n, create, truncate)
    PROVE  QuotaInv'
<1>1. /\ disk \in [Names -> Sizes] /\ 0 \in Sizes /\ 0 # Absent /\ Count(0) = 0
      /\ [disk EXCEPT ![n] = 0] \in [Names -> Sizes]
  BY Numbers DEF TypeOK, Count
<1>2. ASSUME UNCHANGED disk, Resynchronize(disk, unsupported)
      PROVE  QuotaInv'
  BY <1>1, <1>2, ResynchronizeQuota DEF QuotaInv, QuotaHolds
<1>3. CASE TruncateOpened(n)
  <2>1. CASE disk' = [disk EXCEPT ![n] = 0] /\ ApplyMutation(disk[n], 0, FALSE)
    <3>1. /\ accountingValid /\ Count(disk[n]) = disk[n] /\ disk[n] \in Nat
          /\ ~ (disk[n] = Absent)
      BY <1>1, <1>3, Numbers DEF TruncateOpened, Count
    <3>2. AccountingExact'
      BY <1>1, <2>1, <3>1, AppliedExact
    <3>3. \A m \in Names : disk'[m] <= disk[m]
      BY <1>1, <2>1, <3>1, Numbers
    <3>4. QuotaHolds'
      BY <1>1, <2>1, <3>3, SmallerWithinLimits DEF QuotaInv, QuotaHolds, ApplyMutation
    <3>5. UsageWithinLimits'
      BY <2>1, <3>1, CapFsAssumption, Numbers
      DEF QuotaInv, UsageWithinLimits, ApplyMutation, TypeOK
    <3> QED
      BY <3>2, <3>4, <3>5 DEF QuotaInv
  <2> QED
    BY <1>2, <1>3, <2>1 DEF TruncateOpened
<1>4. CASE OpenFresh(dir, n, create, truncate)
  <2>1. CASE UNCHANGED <<disk, usageVars>>
    BY <2>1 DEF QuotaInv, AccountingExact, QuotaHolds, UsageWithinLimits, usageVars
  <2> DEFINE old     == IF Exists(dir, n) THEN Size(dir, n) ELSE 0
             creates == ~Exists(dir, n)
  <2>2. CASE /\ creates \/ truncate
             /\ disk' = [disk EXCEPT ![n] = 0]
             /\ ApplyMutation(old, 0, creates)
    <3>1. dir = "output"
      BY <1>4, <2>2, CapFsAssumption DEF OpenAt, OpenFresh, DirPerms
    <3>2. /\ old = Count(disk[n]) /\ (creates <=> disk[n] = Absent)
          /\ creates \in BOOLEAN
      BY <3>1 DEF Exists, Size, Count
    <3>3. ValidMutation(old, 0, creates)
      BY <1>4, <2>2, <3>1 DEF OpenFresh
    <3> HIDE DEF old, creates
    <3> QED
      BY <1>1, <2>2, <3>2, <3>3, MutationQuota
  <2> QED
    BY <1>2, <1>4, <2>1, <2>2 DEF OpenFresh
<1> QED
  BY <1>3, <1>4 DEF OpenAt

(* The host bridge, run boundaries, clears and host edits keep it as well. *)
LEMMA HostQuota ==
    ASSUME TypeOK, QuotaInv, Host
    PROVE  QuotaInv'
<1>1. TypeOK'
  BY HostType
<1>2. disk \in [Names -> Sizes] /\ disk' \in [Names -> Sizes]
  BY <1>1 DEF TypeOK
<1>3. ASSUME NEW n \in Names, NEW len \in Lens, WriteOutputPath(n, len)
      PROVE  QuotaInv'
  <2> DEFINE old     == IF disk[n] # Absent THEN disk[n] ELSE 0
             creates == disk[n] = Absent
  <2>1. /\ old = Count(disk[n]) /\ creates \in BOOLEAN /\ len \in Nat
        /\ ValidMutation(old, len, creates)
    BY <1>3, CapFsAssumption, Numbers DEF Count, WriteOutputPath
  <2>2. CASE /\ len <= MaxSize
             /\ disk' = [disk EXCEPT ![n] = len]
             /\ ApplyMutation(old, len, creates)
    <3>1. len \in Sizes /\ len # Absent
      BY <2>1, <2>2, Numbers
    <3> HIDE DEF old
    <3> QED
      BY <2>1, <2>2, <3>1, MutationQuota
  <2>3. CASE UNCHANGED disk /\ Resynchronize(disk', unsupported)
    BY <1>2, <2>3, ResynchronizeQuota DEF QuotaInv, QuotaHolds
  <2>4. ASSUME NEW k \in 0 .. Min(len - 1, MaxSize),
               disk' = [disk EXCEPT ![n] = k],
               Resynchronize(disk', unsupported)
        PROVE  QuotaInv'
    <3>1. k \in Nat /\ k <= MaxSize /\ k <= len
      BY <2>1, <2>4, Numbers DEF Min
    <3>2. k \in Sizes /\ k # Absent
      BY <3>1, Numbers
    <3>3. ValidMutation(old, k, creates)
      <4>1. old \in Nat
        BY <1>2, Numbers
      <4> HIDE DEF old
      <4> QED
        BY <2>1, <3>1, <4>1, CapFsAssumption, Numbers DEF ValidMutation, TypeOK
    <3>4. ~edited => WithinLimits(disk')
      <4> HIDE DEF old
      <4> QED
        BY <2>1, <2>4, <3>2, <3>3, AcceptedFits
    <3> QED
      BY <1>2, <2>4, <3>4, ResynchronizeQuota
  <2> QED
    BY <1>3, <2>2, <2>3, <2>4 DEF WriteOutputPath
<1>4. CASE PrepareForRun
  <2>1. disk' = disk /\ Resynchronize(disk', unsupported)
    BY <1>4 DEF PrepareForRun, diskVars
  <2> QED
    BY <1>2, <2>1, ResynchronizeQuota DEF QuotaInv, QuotaHolds
<1>5. CASE FinishRun
  BY <1>5 DEF FinishRun, QuotaInv, AccountingExact, QuotaHolds, UsageWithinLimits,
              diskVars, usageVars
<1>6. CASE ClearOutputFiles
  <2>1. Resynchronize(disk', unsupported')
    BY <1>6 DEF ClearOutputFiles
  <2>2. \A n \in Names : disk'[n] <= disk[n]
    BY <1>2, <1>6, Numbers DEF ClearOutputFiles
  <2>3. ~edited => WithinLimits(disk')
    BY <1>2, <2>2, SmallerWithinLimits DEF QuotaInv, QuotaHolds
  <2> QED
    BY <1>2, <2>1, <2>3, ResynchronizeQuota
<1>7. CASE HostEdit
  BY <1>7 DEF HostEdit, QuotaInv, AccountingExact, QuotaHolds, UsageWithinLimits
<1> QED
  BY <1>3, <1>4, <1>5, <1>6, <1>7 DEF Host

(* The first scan of with_output_dir establishes it.                        *)
LEMMA InitQuota == Init => QuotaInv
BY DEF Init, QuotaInv, AccountingExact, QuotaHolds, UsageWithinLimits,
       ActualUsage, WithinLimits

(* Every step keeps it; streams write through write_file.                  *)
LEMMA NextQuota == TypeOK /\ QuotaInv /\ [Next]_vars => QuotaInv'
<1> SUFFICES ASSUME TypeOK, QuotaInv, [Next]_vars PROVE QuotaInv'
  OBVIOUS
<1>1. CASE UNCHANGED <<disk, usageVars>>
  BY <1>1 DEF QuotaInv, AccountingExact, QuotaHolds, UsageWithinLimits, usageVars
<1>2. CASE Guest
  <2>1. ASSUME NEW h \in Handles, NEW offset \in Offsets, NEW len \in Lens,
               WriteFile(h, offset, len)
        PROVE  QuotaInv'
    <3>1. offset \in Nat /\ len \in Nat
      BY CapFsAssumption, Numbers
    <3> QED
      BY <2>1, <3>1, WriteQuota DEF WriteFile
  <2>2. ASSUME NEW h \in Handles, NEW len \in Lens, StreamWrite(h, len)
        PROVE  QuotaInv'
    <3> DEFINE st     == streams[h]
               f      == openFiles[st.file]
               offset == IF st.append /\ f # None THEN disk[f.name] ELSE st.offset
    <3>1. streams[h] # None
      BY <2>2 DEF StreamWrite
    <3>2. st \in StreamState /\ len \in Nat
      BY <3>1, CapFsAssumption, Numbers DEF TypeOK
    <3>3. st.file \in Handles /\ st.offset \in Nat
      BY <3>2, Numbers DEF StreamState
    <3>4. ASSUME f # None, disk[f.name] # Absent
          PROVE  offset \in Nat
      <4>1. f \in FileEntry
        BY <3>3, <3>4 DEF TypeOK
      <4>2. disk[f.name] \in Sizes
        BY <4>1 DEF FileEntry, TypeOK
      <4> QED
        BY <3>3, <3>4, <4>2, Numbers
    <3>5. \/ UNCHANGED <<disk, usageVars>>
          \/ /\ f # None /\ disk[f.name] # Absent
             /\ CompleteWrite(st.file, offset, len) \/ BrokenWrite(st.file, offset, len)
      BY <2>2 DEF StreamWrite
    <3> HIDE DEF st, f, offset
    <3> QED
      BY <1>1, <3>2, <3>3, <3>4, <3>5, WriteQuota
  <2>3. ASSUME NEW h \in Handles,
               \/ CloseFile(h) \/ CloseStream(h) \/ ReadDirEntry(h) \/ CloseDirStream(h)
               \/ \E dir \in Preopens : CreateDirStream(dir)
               \/ \E offset \in Offsets, isWrite, append \in BOOLEAN :
                    CreateStream(h, offset, isWrite, append)
               \/ \E len \in Lens : StreamRead(h, len)
        PROVE  QuotaInv'
    <3>1. UNCHANGED <<disk, usageVars>>
      BY <2>3 DEF CloseFile, CloseStream, ReadDirEntry, CloseDirStream, CreateDirStream,
                  CreateStream, StreamRead, diskVars
    <3> QED
      BY <1>1, <3>1
  <2>4. ASSUME NEW dir \in Preopens, CreateDirStream(dir)
        PROVE  QuotaInv'
    BY <1>1, <2>4 DEF CreateDirStream, diskVars
  <2> QED
    BY <1>2, <2>1, <2>2, <2>3, <2>4, OpenAtQuota DEF Guest
<1>3. CASE Host
  BY <1>3, HostQuota
<1>4. CASE UNCHANGED vars
  BY <1>1, <1>4 DEF vars, diskVars
<1> QED
  BY <1>2, <1>3, <1>4 DEF Next

(* The quota guarantee: as long as no host edit is pending, the output     *)
(* directory is within every configured limit, whatever the guest does and *)
(* whichever write, creation, scan or removal fails half way.              *)
THEOREM QuotaCorrect == Spec => []QuotaHolds
<1>1. Spec => [](TypeOK /\ QuotaInv)
  BY InitType, NextType, InitQuota, NextQuota, PTL DEF Spec
<1>2. QuotaInv => QuotaHolds
  BY DEF QuotaInv
<1> QED
  BY <1>1, <1>2, PTL

(* Under the same condition the incremental accounting is exact.           *)
THEOREM AccountingCorrect == Spec => []AccountingExact
<1>1. Spec => [](TypeOK /\ QuotaInv)
  BY InitType, NextType, InitQuota, NextQuota, PTL DEF Spec
<1>2. QuotaInv => AccountingExact
  BY DEF QuotaInv
<1> QED
  BY <1>1, <1>2, PTL

(* And whatever other processes do to the directory, the accounted usage   *)
(* never passes the limits.                                                *)
THEOREM UsageBounded == Spec => []UsageWithinLimits
<1>1. Spec => [](TypeOK /\ QuotaInv)
  BY InitType, NextType, InitQuota, NextQuota, PTL DEF Spec
<1>2. QuotaInv => UsageWithinLimits
  BY DEF QuotaInv
<1> QED
  BY <1>1, <1>2, PTL
-----------------------------------------------------------------------------
(* Every step that writes to the output as the guest or through the host   *)
(* bridge passes validate_mutation first, and that refuses doubtful usage. *)
LEMMA FailClosedStep ==
    ASSUME Next, ~accountingValid, disk' # disk
    PROVE  ClearOutputFiles \/ HostEdit
<1>1. ASSUME NEW h, NEW offset, NEW len,
             CompleteWrite(h, offset, len) \/ BrokenWrite(h, offset, len)
      PROVE  FALSE
  BY <1>1 DEF CompleteWrite, BrokenWrite, CanWrite, ValidMutation
<1>2. ASSUME NEW dir \in Preopens, NEW n \in Names,
             NEW create \in BOOLEAN, NEW truncate \in BOOLEAN,
             OpenAt(dir, n, create, truncate)
      PROVE  FALSE
  <2>1. CASE TruncateOpened(n)
    BY <2>1 DEF TruncateOpened
  <2>2. CASE OpenFresh(dir, n, create, truncate)
    <3>1. dir = "output"
      BY <1>2, <2>2, CapFsAssumption DEF OpenAt, OpenFresh, DirPerms
    <3> QED
      BY <2>2, <3>1 DEF OpenFresh, ValidMutation
  <2> QED
    BY <1>2, <2>1, <2>2 DEF OpenAt
<1>3. ASSUME NEW h \in Handles, NEW len \in Lens, StreamWrite(h, len)
      PROVE  FALSE
  BY <1>1, <1>3 DEF StreamWrite
<1>4. ASSUME NEW h \in Handles, NEW offset \in Offsets, NEW len \in Lens,
             WriteFile(h, offset, len)
      PROVE  FALSE
  BY <1>1, <1>4 DEF WriteFile
<1>5. ~Guest
  <2> SUFFICES ASSUME Guest PROVE FALSE
    OBVIOUS
  <2> QED
    BY <1>2, <1>3, <1>4 DEF Guest, CreateDirStream, CloseFile, CreateStream, StreamRead,
                            CloseStream, ReadDirEntry, CloseDirStream, diskVars
<1>6. ASSUME NEW n \in Names, NEW len \in Lens, WriteOutputPath(n, len)
      PROVE  FALSE
  BY <1>6 DEF WriteOutputPath, ValidMutation
<1> QED
  BY <1>5, <1>6 DEF Next, Host, PrepareForRun, FinishRun, diskVars

(* Invalid accounting fails closed: until a clear or a rescan makes the    *)
(* usage valid again, neither the guest nor the host bridge can change the *)
(* output directory.                                                       *)
THEOREM FailClosedCorrect == Spec => FailClosed
<1>1. [Next]_vars => [~accountingValid /\ disk' # disk => ClearOutputFiles \/ HostEdit]_vars
  BY FailClosedStep
<1> QED
  BY <1>1, PTL DEF Spec, FailClosed

-----------------------------------------------------------------------------
(* The handle tables: their invariants are inductive together with the     *)
(* type.  Freshness of next_handle keeps the tables disjoint, the check of *)
(* find_file_in_dir keeps descriptors unique, and close_file and the reset *)
(* take the streams of a descriptor with it.                               *)

HandleInv == NumbersSound /\ OneDescriptor /\ StreamsAttached

(* A number that alloc_handle hands out is free in every table.            *)
LEMMA FreshHandle ==
    ASSUME TypeOK, HandleInv, NEW h \in Handles, AllocHandle(h)
    PROVE  /\ openFiles[h] = None /\ streams[h] = None /\ dirStreams[h] = None
           /\ nextHandle' = nextHandle + 1 /\ nextHandle \in Nat
           /\ \A g \in Handles : g < nextHandle => g < nextHandle'
           /\ h < nextHandle'
<1>1. nextHandle \in Nat /\ ~(h < nextHandle) /\ h \in Nat
  BY Numbers DEF AllocHandle, TypeOK
<1>2. \A g \in Handles : g \in Nat
  BY Numbers
<1> QED
  BY <1>1, <1>2 DEF HandleInv, NumbersSound, AllocHandle

(* Writing a field of a record of the tables yields a record, never None.  *)
LEMMA NotNone ==
    /\ \A f \in FileEntry : f # None
    /\ \A s \in StreamState : s # None
    /\ \A d \in DirStreamState : d # None
BY CapFsAssumption

(* Operations that leave every table alone.                                *)
LEMMA HandlesUnchanged ==
    ASSUME HandleInv, UNCHANGED handleVars
    PROVE  HandleInv'
BY DEF HandleInv, NumbersSound, OneDescriptor, StreamsAttached, GetFlags, handleVars

(* reset_output_handles drops every stream with the output's descriptors.  *)
LEMMA ResetHandles ==
    ASSUME HandleInv, ResetOutputHandles
    PROVE  HandleInv'
<1>1. \A h \in Handles : streams'[h] = None /\ dirStreams'[h] = None
  BY DEF ResetOutputHandles
<1>2. NumbersSound'
  BY <1>1 DEF NumbersSound, ResetOutputHandles
<1>3. OneDescriptor'
  BY DEF HandleInv, OneDescriptor, ResetOutputHandles
<1>4. StreamsAttached'
  BY <1>1 DEF StreamsAttached, GetFlags
<1> QED
  BY <1>2, <1>3, <1>4 DEF HandleInv

(* open_at inserts a descriptor only for a file that has none.             *)
LEMMA InsertHandles ==
    ASSUME TypeOK, HandleInv, NEW dir \in Preopens, NEW n \in Names,
           FindFileInDir(dir, n) = {}, InsertDescriptor(dir, n),
           UNCHANGED <<streams, dirStreams>>
    PROVE  HandleInv'
<1>1. CASE UNCHANGED <<openFiles, nextHandle>>
  BY <1>1, HandlesUnchanged DEF handleVars
<1>2. ASSUME NEW h \in Handles, AllocHandle(h),
             openFiles' = [openFiles EXCEPT ![h] = [name |-> n, dir |-> dir]]
      PROVE  HandleInv'
  <2> DEFINE file == [name |-> n, dir |-> dir]
  <2>1. /\ openFiles[h] = None /\ streams[h] = None /\ dirStreams[h] = None
        /\ \A g \in Handles : g < nextHandle => g < nextHandle'
        /\ h < nextHandle'
    BY <1>2, FreshHandle
  <2>2. /\ openFiles'[h] = file
        /\ \A g \in Handles : g # h => openFiles'[g] = openFiles[g]
    BY <1>2 DEF TypeOK
  <2>3. \A g \in Handles : openFiles[g] # file
    BY DEF FindFileInDir
  <2> HIDE DEF file
  <2>4. NumbersSound'
    BY <2>1, <2>2 DEF HandleInv, NumbersSound
  <2>5. OneDescriptor'
    BY <2>2, <2>3 DEF HandleInv, OneDescriptor
  <2>6. StreamsAttached'
    <3> SUFFICES ASSUME NEW s \in Handles, streams[s] # None
                 PROVE  /\ openFiles'[streams[s].file] # None
                        /\ (IF streams[s].isWrite THEN "write" ELSE "read")
                             \in FilePerms(openFiles'[streams[s].file].dir)
      BY DEF StreamsAttached, GetFlags, FilePerms
    <3>1. streams[s].file \in Handles
      BY DEF TypeOK, StreamState
    <3>2. openFiles[streams[s].file] # None
      BY DEF HandleInv, StreamsAttached, GetFlags
    <3>3. openFiles'[streams[s].file] = openFiles[streams[s].file]
      BY <2>1, <2>2, <3>1, <3>2
    <3> QED
      BY <3>2, <3>3 DEF HandleInv, StreamsAttached, GetFlags
  <2> QED
    BY <2>4, <2>5, <2>6 DEF HandleInv
<1> QED
  BY <1>1, <1>2 DEF InsertDescriptor

(* close_file takes the streams of the descriptor with it.                 *)
LEMMA CloseHandles ==
    ASSUME TypeOK, HandleInv, NEW h \in Handles, CloseFile(h)
    PROVE  HandleInv'
<1>1. \A g \in Handles : openFiles'[g] = IF g = h THEN None ELSE openFiles[g]
  BY DEF CloseFile, TypeOK
<1>2. \A s \in Handles :
        streams'[s] # None => streams'[s] = streams[s] /\ streams[s].file # h
  BY DEF CloseFile
<1>3. UNCHANGED <<dirStreams, nextHandle>>
  BY DEF CloseFile
<1>4. NumbersSound'
  BY <1>1, <1>2, <1>3 DEF HandleInv, NumbersSound
<1>5. OneDescriptor'
  BY <1>1 DEF HandleInv, OneDescriptor
<1>6. StreamsAttached'
  <2> SUFFICES ASSUME NEW s \in Handles, streams'[s] # None
               PROVE  /\ openFiles'[streams'[s].file] # None
                      /\ (IF streams'[s].isWrite THEN "write" ELSE "read")
                           \in FilePerms(openFiles'[streams'[s].file].dir)
    BY DEF StreamsAttached, GetFlags, FilePerms
  <2>1. streams'[s] = streams[s] /\ streams[s].file # h /\ streams[s].file \in Handles
    BY <1>2 DEF TypeOK, StreamState
  <2>2. openFiles'[streams[s].file] = openFiles[streams[s].file]
    BY <1>1, <2>1
  <2> QED
    BY <2>1, <2>2 DEF HandleInv, StreamsAttached, GetFlags
<1> QED
  BY <1>4, <1>5, <1>6 DEF HandleInv

(* A change of the streams that keeps each one on its descriptor, or drops *)
(* it, or adds one on an open descriptor that grants its direction.        *)
LEMMA StreamHandles ==
    ASSUME TypeOK, HandleInv, NEW s \in Handles, NEW x,
           streams' = [streams EXCEPT ![s] = x],
           UNCHANGED <<openFiles, dirStreams>>,
           \/ streams[s] # None /\ UNCHANGED nextHandle
           \/ AllocHandle(s),
           x # None => /\ openFiles[x.file] # None
                       /\ (IF x.isWrite THEN "write" ELSE "read")
                            \in FilePerms(openFiles[x.file].dir)
    PROVE  HandleInv'
<1>1. \A g \in Handles : streams'[g] = IF g = s THEN x ELSE streams[g]
  BY DEF TypeOK
<1>2. /\ openFiles[s] = None /\ dirStreams[s] = None
      /\ \A g \in Handles : g < nextHandle => g < nextHandle'
      /\ s < nextHandle'
  BY FreshHandle DEF HandleInv, NumbersSound
<1>3. NumbersSound'
  BY <1>1, <1>2 DEF HandleInv, NumbersSound
<1>4. OneDescriptor'
  BY DEF HandleInv, OneDescriptor
<1>5. StreamsAttached'
  BY <1>1 DEF HandleInv, StreamsAttached, GetFlags, FilePerms
<1> QED
  BY <1>3, <1>4, <1>5 DEF HandleInv

(* The same for directory streams, which hang on nothing.                  *)
LEMMA DirStreamHandles ==
    ASSUME TypeOK, HandleInv, NEW s \in Handles, NEW x,
           dirStreams' = [dirStreams EXCEPT ![s] = x],
           UNCHANGED <<openFiles, streams>>,
           \/ dirStreams[s] # None /\ UNCHANGED nextHandle
           \/ AllocHandle(s)
    PROVE  HandleInv'
<1>1. \A g \in Handles : dirStreams'[g] = IF g = s THEN x ELSE dirStreams[g]
  BY DEF TypeOK
<1>2. /\ openFiles[s] = None /\ streams[s] = None
      /\ \A g \in Handles : g < nextHandle => g < nextHandle'
      /\ s < nextHandle'
  BY FreshHandle DEF HandleInv, NumbersSound
<1>3. NumbersSound'
  BY <1>1, <1>2 DEF HandleInv, NumbersSound
<1>4. OneDescriptor' /\ StreamsAttached'
  BY DEF HandleInv, OneDescriptor, StreamsAttached, GetFlags, FilePerms
<1> QED
  BY <1>3, <1>4 DEF HandleInv

(* A stream keeps its descriptor and its direction when its offset moves.  *)
LEMMA MovedStream ==
    ASSUME TypeOK, HandleInv, NEW s \in Handles, NEW k, streams[s] # None,
           streams' = [streams EXCEPT ![s].offset = k],
           UNCHANGED <<openFiles, dirStreams, nextHandle>>
    PROVE  HandleInv'
<1> DEFINE x == [streams[s] EXCEPT !.offset = k]
<1>1. streams' = [streams EXCEPT ![s] = x]
  OBVIOUS
<1>2. streams[s] \in StreamState
  BY DEF TypeOK
<1>3. x.file = streams[s].file /\ x.isWrite = streams[s].isWrite
  BY <1>2 DEF StreamState
<1>4. /\ openFiles[x.file] # None
      /\ (IF x.isWrite THEN "write" ELSE "read") \in FilePerms(openFiles[x.file].dir)
  BY <1>3 DEF HandleInv, StreamsAttached, GetFlags
<1> HIDE DEF x
<1> QED
  BY <1>1, <1>4, StreamHandles

(* Each guest step keeps the tables sound.                                 *)
LEMMA GuestHandles ==
    ASSUME TypeOK, HandleInv, Guest
    PROVE  HandleInv'
<1>1. ASSUME NEW dir \in Preopens, NEW n \in Names,
             NEW create \in BOOLEAN, NEW truncate \in BOOLEAN,
             OpenAt(dir, n, create, truncate)
      PROVE  HandleInv'
  <2>1. CASE TruncateOpened(n)
    BY <2>1, HandlesUnchanged DEF TruncateOpened
  <2>2. CASE FindFileInDir(dir, n) = {} /\ OpenFresh(dir, n, create, truncate)
    <3>1. CASE InsertDescriptor(dir, n) /\ UNCHANGED <<streams, dirStreams>>
      BY <2>2, <3>1, InsertHandles
    <3>2. CASE UNCHANGED handleVars
      BY <3>2, HandlesUnchanged
    <3> QED
      BY <2>2, <3>1, <3>2 DEF OpenFresh, handleVars
  <2> QED
    BY <1>1, <2>1, <2>2 DEF OpenAt
<1>2. ASSUME NEW dir \in Preopens, CreateDirStream(dir)
      PROVE  HandleInv'
  BY <1>2, DirStreamHandles DEF CreateDirStream
<1>3. ASSUME NEW h \in Handles, CloseFile(h)
      PROVE  HandleInv'
  BY <1>3, CloseHandles
<1>4. ASSUME NEW h \in Handles, NEW offset \in Offsets, NEW len \in Lens,
             WriteFile(h, offset, len)
      PROVE  HandleInv'
  BY <1>4, HandlesUnchanged DEF WriteFile
<1>5. ASSUME NEW h \in Handles, NEW offset \in Offsets, NEW isWrite \in BOOLEAN,
             NEW append \in BOOLEAN, CreateStream(h, offset, isWrite, append)
      PROVE  HandleInv'
  <2>1. PICK s \in Handles :
          /\ AllocHandle(s)
          /\ streams' = [streams EXCEPT ![s] =
                           [file |-> h, offset |-> offset,
                            isWrite |-> isWrite, append |-> append]]
    BY <1>5 DEF CreateStream
  <2> DEFINE x == [file |-> h, offset |-> offset, isWrite |-> isWrite, append |-> append]
  <2>2. /\ openFiles[x.file] # None
        /\ (IF x.isWrite THEN "write" ELSE "read") \in FilePerms(openFiles[x.file].dir)
        /\ UNCHANGED <<openFiles, dirStreams>>
    BY <1>5 DEF CreateStream
  <2> HIDE DEF x
  <2> QED
    BY <2>1, <2>2, StreamHandles DEF x
<1>6. ASSUME NEW s \in Handles, NEW len \in Lens, StreamWrite(s, len)
      PROVE  HandleInv'
  <2>1. streams[s] # None /\ UNCHANGED <<openFiles, dirStreams, nextHandle>>
    BY <1>6 DEF StreamWrite
  <2>2. \/ streams' = [streams EXCEPT ![s] = None]
        \/ \E k : streams' = [streams EXCEPT ![s].offset = k]
    BY <1>6 DEF StreamWrite
  <2> QED
    BY <2>1, <2>2, MovedStream, StreamHandles
<1>7. ASSUME NEW s \in Handles, NEW len \in Lens, StreamRead(s, len)
      PROVE  HandleInv'
  <2>1. streams[s] # None /\ UNCHANGED <<openFiles, dirStreams, nextHandle>>
    BY <1>7 DEF StreamRead
  <2>2. PICK k : streams' = [streams EXCEPT ![s].offset = @ + k]
    BY <1>7 DEF StreamRead
  <2>3. streams' = [streams EXCEPT ![s].offset = streams[s].offset + k]
    BY <2>2
  <2> QED
    BY <2>1, <2>3, MovedStream
<1>8. ASSUME NEW s \in Handles, CloseStream(s)
      PROVE  HandleInv'
  BY <1>8, StreamHandles DEF CloseStream
<1>9. ASSUME NEW s \in Handles, ReadDirEntry(s) \/ CloseDirStream(s)
      PROVE  HandleInv'
  <2>1. /\ dirStreams[s] # None
        /\ UNCHANGED <<openFiles, streams, nextHandle>>
        /\ \E x : dirStreams' = [dirStreams EXCEPT ![s] = x]
    BY <1>9 DEF ReadDirEntry, CloseDirStream
  <2> QED
    BY <2>1, DirStreamHandles
<1> QED
  BY <1>1, <1>2, <1>3, <1>4, <1>5, <1>6, <1>7, <1>8, <1>9 DEF Guest

(* No table holds anything at first.                                       *)
LEMMA InitHandles == Init => HandleInv
BY DEF Init, HandleInv, NumbersSound, OneDescriptor, StreamsAttached, GetFlags

(* Neither guest nor host steps break the tables.                          *)
LEMMA NextHandles == TypeOK /\ HandleInv /\ [Next]_vars => HandleInv'
<1> SUFFICES ASSUME TypeOK, HandleInv, [Next]_vars PROVE HandleInv'
  OBVIOUS
<1>1. CASE Guest
  BY <1>1, GuestHandles
<1>2. CASE Host
  <2>1. UNCHANGED handleVars \/ ResetOutputHandles
    BY <1>2 DEF Host, WriteOutputPath, PrepareForRun, FinishRun, ClearOutputFiles, HostEdit
  <2> QED
    BY <2>1, HandlesUnchanged, ResetHandles
<1>3. CASE UNCHANGED vars
  BY <1>3, HandlesUnchanged DEF vars
<1> QED
  BY <1>1, <1>2, <1>3 DEF Next

(* The three tables never share a number, no live number is ahead of       *)
(* next_handle, so alloc_handle never replaces a live entry, and open_at   *)
(* and the reset keep at most one descriptor for each file.                *)
THEOREM HandlesCorrect == Spec => []HandlesSound
<1>1. Spec => [](TypeOK /\ HandleInv)
  BY InitType, NextType, InitHandles, NextHandles, PTL DEF Spec
<1>2. HandleInv => HandlesSound
  BY DEF HandleInv, HandlesSound
<1> QED
  BY <1>1, <1>2, PTL

(* No stream outlives its descriptor or exceeds its permissions.           *)
THEOREM StreamsCorrect == Spec => []StreamsAttached
<1>1. Spec => [](TypeOK /\ HandleInv)
  BY InitType, NextType, InitHandles, NextHandles, PTL DEF Spec
<1>2. HandleInv => StreamsAttached
  BY DEF HandleInv
<1> QED
  BY <1>1, <1>2, PTL

-----------------------------------------------------------------------------
(* Numbers are not recycled within a run.                                  *)

(* A step inside a run assigns a table entry only at next_handle or at a   *)
(* number that is live already.                                            *)
LEMMA NoReuseStep ==
    ASSUME TypeOK, HandleInv, Next, running, running',
           NEW h \in Handles, h < nextHandle,
           openFiles[h] = None, streams[h] = None, dirStreams[h] = None
    PROVE  openFiles'[h] = None /\ streams'[h] = None /\ dirStreams'[h] = None
<1>1. ~AllocHandle(h)
  BY Numbers DEF AllocHandle, TypeOK
<1>2. CASE UNCHANGED handleVars
  BY <1>2 DEF handleVars
<1>3. CASE Host
  BY <1>2, <1>3 DEF Host, WriteOutputPath, PrepareForRun, FinishRun, ClearOutputFiles, HostEdit
<1>4. CASE Guest
  <2>1. ASSUME NEW dir \in Preopens, NEW n \in Names,
               NEW create \in BOOLEAN, NEW truncate \in BOOLEAN,
               OpenAt(dir, n, create, truncate)
        PROVE  openFiles'[h] = None /\ streams'[h] = None /\ dirStreams'[h] = None
    <3>1. \/ UNCHANGED handleVars
          \/ InsertDescriptor(dir, n) /\ UNCHANGED <<streams, dirStreams>>
      BY <2>1 DEF OpenAt, TruncateOpened, OpenFresh, handleVars
    <3>2. ASSUME InsertDescriptor(dir, n)
          PROVE  openFiles'[h] = None
      BY <1>1, <3>2 DEF InsertDescriptor, TypeOK
    <3> QED
      BY <1>2, <3>1, <3>2
  <2>2. ASSUME NEW g \in Handles, AllocHandle(g)
        PROVE  g # h
    BY <1>1, <2>2
  <2>3. ASSUME NEW dir \in Preopens, CreateDirStream(dir)
        PROVE  openFiles'[h] = None /\ streams'[h] = None /\ dirStreams'[h] = None
    BY <2>2, <2>3 DEF CreateDirStream, TypeOK
  <2>4. ASSUME NEW g \in Handles, CloseFile(g)
        PROVE  openFiles'[h] = None /\ streams'[h] = None /\ dirStreams'[h] = None
    BY <2>4 DEF CloseFile, TypeOK
  <2>5. ASSUME NEW g \in Handles, NEW offset \in Offsets, NEW len \in Lens,
               WriteFile(g, offset, len)
        PROVE  openFiles'[h] = None /\ streams'[h] = None /\ dirStreams'[h] = None
    BY <1>2, <2>5 DEF WriteFile
  <2>6. ASSUME NEW g \in Handles, NEW offset \in Offsets, NEW isWrite \in BOOLEAN,
               NEW append \in BOOLEAN, CreateStream(g, offset, isWrite, append)
        PROVE  openFiles'[h] = None /\ streams'[h] = None /\ dirStreams'[h] = None
    BY <2>2, <2>6 DEF CreateStream, TypeOK
  <2>7. ASSUME NEW g \in Handles,
               \/ CloseStream(g)
               \/ \E len \in Lens : StreamWrite(g, len) \/ StreamRead(g, len)
        PROVE  openFiles'[h] = None /\ streams'[h] = None /\ dirStreams'[h] = None
    <3>1. /\ streams[g] # None
          /\ UNCHANGED <<openFiles, dirStreams>>
          /\ \E x : streams' = [streams EXCEPT ![g] = x]
      BY <2>7 DEF StreamWrite, StreamRead, CloseStream
    <3> QED
      BY <3>1 DEF TypeOK
  <2>8. ASSUME NEW g \in Handles, ReadDirEntry(g) \/ CloseDirStream(g)
        PROVE  openFiles'[h] = None /\ streams'[h] = None /\ dirStreams'[h] = None
    <3>1. /\ dirStreams[g] # None
          /\ UNCHANGED <<openFiles, streams>>
          /\ \E x : dirStreams' = [dirStreams EXCEPT ![g] = x]
      BY <2>8 DEF ReadDirEntry, CloseDirStream
    <3> QED
      BY <3>1 DEF TypeOK
  <2> QED
    BY <1>2, <1>4, <2>1, <2>3, <2>4, <2>5, <2>6, <2>7, <2>8 DEF Guest
<1> QED
  BY <1>3, <1>4 DEF Next

(* Only alloc_handle and the reset touch next_handle.                      *)
LEMMA NextHandleGrows ==
    ASSUME TypeOK, Next, running, running'
    PROVE  nextHandle <= nextHandle'
<1>1. nextHandle \in Nat
  BY Numbers DEF TypeOK
<1>2. CASE UNCHANGED nextHandle
  BY <1>1, <1>2
<1>3. ASSUME NEW h, AllocHandle(h)
      PROVE  nextHandle <= nextHandle'
  BY <1>1, <1>3 DEF AllocHandle
<1>4. CASE Host
  BY <1>2, <1>4 DEF Host, WriteOutputPath, PrepareForRun, FinishRun, ClearOutputFiles,
                    HostEdit, handleVars
<1>5. CASE Guest
  <2>1. ASSUME NEW dir \in Preopens, NEW n \in Names,
               NEW create \in BOOLEAN, NEW truncate \in BOOLEAN,
               OpenAt(dir, n, create, truncate)
        PROVE  nextHandle <= nextHandle'
    BY <1>2, <1>3, <2>1 DEF OpenAt, TruncateOpened, OpenFresh, InsertDescriptor, handleVars
  <2>2. ASSUME NEW dir \in Preopens, CreateDirStream(dir)
        PROVE  nextHandle <= nextHandle'
    BY <1>3, <2>2 DEF CreateDirStream
  <2>3. ASSUME NEW h \in Handles, NEW offset \in Offsets, NEW isWrite \in BOOLEAN,
               NEW append \in BOOLEAN, CreateStream(h, offset, isWrite, append)
        PROVE  nextHandle <= nextHandle'
    BY <1>3, <2>3 DEF CreateStream
  <2> QED
    BY <1>2, <1>5, <2>1, <2>2, <2>3
    DEF Guest, CloseFile, WriteFile, StreamWrite, StreamRead, CloseStream, ReadDirEntry,
        CloseDirStream, handleVars
<1> QED
  BY <1>4, <1>5 DEF Next

(* Within a run no closed number is handed out again: a handle the guest   *)
(* kept past its close stays a bad descriptor until the run ends.          *)
THEOREM NoReuse == Spec => NoHandleReuseInRun
<1> DEFINE Kept ==
      running /\ running' =>
        /\ nextHandle <= nextHandle'
        /\ \A h \in Handles :
             h < nextHandle /\ openFiles[h] = None /\ streams[h] = None /\ dirStreams[h] = None
               => openFiles'[h] = None /\ streams'[h] = None /\ dirStreams'[h] = None
<1>1. Spec => [](TypeOK /\ HandleInv)
  BY InitType, NextType, InitHandles, NextHandles, PTL DEF Spec
<1>2. TypeOK /\ HandleInv /\ [Next]_vars => [Kept]_vars
  BY NoReuseStep, NextHandleGrows
<1>3. NoHandleReuseInRun <=> [][Kept]_vars
  BY DEF NoHandleReuseInRun
<1> HIDE DEF Kept
<1> QED
  BY <1>1, <1>2, <1>3, PTL DEF Spec
==============================================================================
