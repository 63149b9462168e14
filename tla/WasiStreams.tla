------------------------------ MODULE WasiStreams ------------------------------
(***************************************************************************)
(* Byte streams of the Wasm backend (io.rs, stream.rs, buffer.rs): the     *)
(* guest reads an incoming body, standard input and files, writes an       *)
(* outgoing body and files, and splices one into the other.  A stream over *)
(* a file is a number in the table of CapFs.  Bytes have serial numbers.   *)
(*                                                                         *)
(* The guest thread makes one call at a time and every call holds the      *)
(* locks of its streams, so a call is one step; a blocking call is a step  *)
(* that waits for readable and write_ready (how it waits is in WasiSync).  *)
(* Definitions marked "Defect" are plausible bugs and not part of the      *)
(* specification.                                                          *)
(***************************************************************************)
EXTENDS Naturals, Sequences, FiniteSets

CONSTANTS
    Response,     \* the bytes of the incoming body
    Files,
    Handles,      \* the stream resources the guest keeps
    MaxId,        \* bound: numbers the table hands out in a run
    MaxBuffer,    \* MAX_BUFFER_BYTES
    BufferPermit, \* BUFFER_WRITE_PERMIT_BYTES
    FilePermit,   \* FILESYSTEM_WRITE_PERMIT_BYTES
    MaxAlloc,     \* MAX_ALLOC_BYTES
    MaxFile,      \* the quota, as the longest file a write may leave
    Lens,         \* lengths the guest asks for
    Offsets,      \* where it opens streams
    MaxOffered    \* bound: bytes the guest makes up and offers

ASSUME StreamsAssumption ==
    /\ Response \in Seq(Nat) /\ Lens \subseteq Nat /\ Offsets \subseteq Nat
    /\ {MaxId, MaxAlloc, MaxFile, MaxOffered} \subseteq Nat
    /\ {MaxBuffer, BufferPermit, FilePermit} \subseteq Nat \ {0}

VARIABLES
    inputs,   \* the Buffers the guest reads: the response body and stdin
    body,     \* the Buffer of an outgoing body, and whether its handler took it
    files,    \* contents
    streams,  \* CapFs::streams
    nextId,   \* CapFs::next_handle
    handles,  \* the guest's stream resources: number, file, direction, claim on the number
    offered,  \* history: every byte offered to the outgoing body
    made      \* history: bytes the guest made up

fileVars == <<files, streams, nextId, handles>>
streamsVars == <<inputs, body, fileVars, offered, made>>

None == [mode |-> "none"]
Inputs == {"response", "stdin"}
Zero == 0
Ids == 1 .. MaxId
Least(a, b) == IF a <= b THEN a ELSE b
First(s, n) == SubSeq(s, 1, Least(n, Len(s)))
Rest(s, n) == SubSeq(s, n + 1, Len(s))

Readers == Inputs \cup {h \in Handles : handles[h].mode = "read"}
Writers == {"body"} \cup {h \in Handles : handles[h].mode \in {"write", "append"}}

\* has_stream, with the direction it has now.
HasReader(h) == streams[handles[h].id].mode = "read"
HasWriter(table, h) == table[handles[h].id].mode \in {"write", "append"}

-----------------------------------------------------------------------------
(* Reading.                                                                *)

Closed == [ok |-> FALSE, data |-> <<>>]
Data(bytes) == [ok |-> TRUE, data |-> bytes]

\* Buffer::read.
BufferRead(b, len) ==
    IF b.data = <<>> /\ b.closed THEN {Closed} ELSE {Data(First(b.data, len))}

\* stream_read: an error, the end of the file or nothing to return is Closed.
FileRead(h, len) ==
    LET st == streams[handles[h].id]
        left == Rest(files[st.file], st.offset)
    IN  {Closed} \cup
        (IF HasReader(h) THEN {Data(First(left, k)) : k \in 1 .. Least(len, Len(left))} ELSE {})

\* Stream::read, as the answers it may give.
ReadOf(i, len) == IF i \in Inputs THEN BufferRead(inputs[i], len) ELSE FileRead(i, len)

\* Defect: the end of a closed buffer is not an event.
ReadableIfData(i) ==
    IF i \in Inputs THEN inputs[i].data # <<>> ELSE HasReader(i)

\* Stream::readable.  A file is readable at its end, and never once it is closed.
Readable(i) ==
    IF i \in Inputs THEN inputs[i].closed \/ inputs[i].data # <<>> ELSE HasReader(i)

\* What a read of n bytes leaves behind.
InputsAfter(i, n) ==
    IF i \in Inputs THEN [inputs EXCEPT ![i].data = Rest(@, n)] ELSE inputs
StreamsAfter(i, n) ==
    IF i \in Inputs \/ n = 0 THEN streams ELSE [streams EXCEPT ![handles[i].id].offset = @ + n]

-----------------------------------------------------------------------------
(* Writing.                                                                *)

\* Stream::check_write: the permit, none when the stream is closed.
CheckWrite(o) ==
    IF o = "body"
    THEN IF body.closed THEN {}
         ELSE {IF Len(body.data) < MaxBuffer THEN BufferPermit ELSE 0}
    ELSE IF HasWriter(streams, o) THEN {FilePermit} ELSE {}

\* Stream::write_ready.
WriteReady(o) ==
    IF o = "body"
    THEN body.closed \/ Len(body.data) < MaxBuffer
    ELSE streams[handles[o].id] = None \/ HasWriter(streams, o)

Overwrite(content, offset, data) ==
    LET end == offset + Len(data) IN
    IF data = <<>> THEN content
    ELSE [i \in 1 .. (IF end > Len(content) THEN end ELSE Len(content)) |->
            IF i > offset /\ i <= end THEN data[i - offset]
            ELSE IF i <= Len(content) THEN content[i] ELSE Zero]

\* Defect: the part that did not fit is dropped from the front.
BodyWriteDropsOld(data) ==
    LET all == body.data \o data IN
    /\ ~body.closed
    /\ body' = [body EXCEPT !.data = Rest(all, IF Len(all) > MaxBuffer THEN Len(all) - MaxBuffer ELSE 0)]
    /\ offered' = offered \o data

\* Buffer::write cuts what does not fit and says Ok.
BodyWrite(data) ==
    /\ ~body.closed
    /\ body' = [body EXCEPT !.data = First(@ \o data, MaxBuffer)]
    /\ offered' = offered \o data

\* stream_write: an append looks the end of the file up.
Offset(st) == IF st.mode = "append" THEN Len(files[st.file]) ELSE st.offset

FileWrite(h, data, table) ==
    LET st == table[handles[h].id]
        end == Offset(st) + Len(data)
    IN  /\ HasWriter(table, h)
        /\ data = <<>> \/ end <= MaxFile
        /\ files' = [files EXCEPT ![st.file] = Overwrite(@, Offset(st), data)]
        /\ streams' = [table EXCEPT ![handles[h].id].offset = end]

\* The write is refused or breaks off after k bytes; Stream::write closes the stream.
FileWriteFails(h, data, table) ==
    LET st == table[handles[h].id] IN
    /\ HasWriter(table, h)
    /\ \E k \in 0 .. Len(data) :
         /\ Offset(st) + k <= MaxFile /\ (k < Len(data) \/ k = 0)
         /\ files' = [files EXCEPT ![st.file] = Overwrite(@, Offset(st), First(data, k))]
    /\ streams' = [table EXCEPT ![handles[h].id] = None]

\* Stream::write on an output that is open; a closed one changes nothing.
WriteTo(o, data, table) ==
    \/ /\ o = "body" /\ BodyWrite(data)
       /\ streams' = table
       /\ UNCHANGED files
    \/ /\ o # "body" /\ (FileWrite(o, data, table) \/ FileWriteFails(o, data, table))
       /\ UNCHANGED <<body, offered>>

-----------------------------------------------------------------------------
(* Calls of the guest.                                                     *)

\* read and skip; the blocking ones wait until the stream is readable.
Read(i, len) ==
    /\ i \in Readers
    /\ \E answer \in ReadOf(i, len) :
         /\ answer.ok
         /\ inputs' = InputsAfter(i, Len(answer.data))
         /\ streams' = StreamsAfter(i, Len(answer.data))
    /\ UNCHANGED <<body, files, nextId, handles, offered, made>>

\* write, and blocking_write_and_flush once the stream is ready.
Write(o, len) ==
    /\ o \in Writers
    /\ made + len <= MaxOffered
    /\ WriteTo(o, [i \in 1 .. len |-> Len(Response) + made + i], streams)
    /\ made' = made + len
    /\ UNCHANGED <<inputs, nextId, handles>>

\* Stream::close.
Close(o) ==
    IF o = "body"
    THEN body' = [body EXCEPT !.closed = TRUE] /\ UNCHANGED streams
    ELSE streams' = [streams EXCEPT ![handles[o].id] = None] /\ UNCHANGED body

\* write_zeroes writes zeroes, or closes the stream when they are too many.
WriteZeroes(o, len) ==
    /\ o \in Writers
    /\ IF len > MaxAlloc
       THEN Close(o) /\ UNCHANGED <<files, offered, made>>
       ELSE /\ made + len <= MaxOffered
            /\ WriteTo(o, [i \in 1 .. len |-> Zero], streams)
            /\ made' = made + len
    /\ UNCHANGED <<inputs, nextId, handles>>

\* Defect: the source is read before the destination is asked.
SpliceReadsFirst(o, i, len) ==
    /\ o \in Writers /\ i \in Readers
    /\ \E answer \in ReadOf(i, len) :
         LET n == Len(answer.data)
             after == StreamsAfter(i, n)
         IN  /\ answer.ok
             /\ inputs' = InputsAfter(i, n)
             /\ IF CheckWrite(o) = {}
                THEN streams' = after /\ UNCHANGED <<body, files, offered>>
                ELSE WriteTo(o, answer.data, after)
    /\ UNCHANGED <<nextId, handles, made>>

\* splice: as many bytes as the permit of the destination, read and then written.
Splice(o, i, len) ==
    /\ o \in Writers /\ i \in Readers
    /\ \E permit \in CheckWrite(o) : \E answer \in ReadOf(i, Least(permit, len)) :
         LET n == Len(answer.data) IN
         /\ answer.ok
         /\ inputs' = InputsAfter(i, n)
         /\ WriteTo(o, answer.data, StreamsAfter(i, n))
    /\ UNCHANGED <<nextId, handles, made>>

\* The claim of a new resource on its number: "own", or "shared" with a resource that
\* the guest kept from an earlier run.
ClaimOf(id) ==
    IF \E h \in Handles : handles[h] # None /\ handles[h].id = id THEN "shared" ELSE "own"

\* read_via_stream, write_via_stream, append_via_stream: the next number.
\* Descriptors and directory streams take numbers in between.
OpenStream(h, f, mode, offset) ==
    /\ handles[h] = None
    /\ \E id \in nextId .. MaxId :
         /\ handles' = [handles EXCEPT ![h] =
                          [id |-> id, file |-> f, mode |-> mode, claim |-> ClaimOf(id)]]
         /\ streams' = [streams EXCEPT ![id] = [file |-> f, mode |-> mode, offset |-> offset]]
         /\ nextId' = id + 1
    /\ UNCHANGED <<inputs, body, files, offered, made>>

\* The guest drops the resource; the host is not told.
DropStream(h) ==
    /\ handles[h] # None
    /\ handles' = [handles EXCEPT ![h] = None]
    /\ UNCHANGED <<inputs, body, files, streams, nextId, offered, made>>

\* prepare_for_run with an output preopen forgets the streams and restarts the numbers
\* (without one it does nothing here).  Resources that the guest kept stay as they are.
NextRun ==
    /\ streams' = [id \in Ids |-> None]
    /\ nextId' = 1
    /\ handles' = [h \in Handles |->
                     IF handles[h] = None THEN None ELSE [handles[h] EXCEPT !.claim = "kept"]]
    /\ UNCHANGED <<inputs, body, files, offered, made>>

-----------------------------------------------------------------------------
(* The outgoing body.                                                      *)

\* outgoing-body.finish, or the handler for a body nobody took.
FinishBody ==
    /\ ~body.finished
    /\ body' = [body EXCEPT !.closed = TRUE, !.finished = TRUE]
    /\ UNCHANGED <<inputs, fileVars, offered, made>>

\* take_data: what the handler sends, frame by frame.
TakeBody ==
    /\ body.finished /\ body.sent = <<>>
    /\ body' = [body EXCEPT !.data = <<>>, !.sent = body.data]
    /\ UNCHANGED <<inputs, fileVars, offered, made>>

-----------------------------------------------------------------------------
\* get_stdin is a Buffer nobody writes or closes; an incoming body is a Buffer
\* that was filled and closed before the guest had it.
StreamsInit ==
    /\ inputs = [i \in Inputs |-> IF i = "stdin" THEN [data |-> <<>>, closed |-> FALSE]
                                  ELSE [data |-> First(Response, MaxBuffer), closed |-> TRUE]]
    /\ body = [data |-> <<>>, closed |-> FALSE, finished |-> FALSE, sent |-> <<>>]
    /\ files = [f \in Files |-> <<>>]
    /\ streams = [id \in Ids |-> None] /\ nextId = 1
    /\ handles = [h \in Handles |-> None]
    /\ offered = <<>> /\ made = 0

StreamsNext ==
    \/ \E i \in Readers, len \in Lens : Read(i, len)
    \/ \E o \in Writers, len \in Lens : Write(o, len) \/ WriteZeroes(o, len)
    \/ \E o \in Writers, i \in Readers, len \in Lens : Splice(o, i, len)
    \/ \E h \in Handles, f \in Files, mode \in {"read", "write", "append"} :
          \E offset \in IF mode = "append" THEN {0} ELSE Offsets : OpenStream(h, f, mode, offset)
    \/ \E h \in Handles : DropStream(h)
    \/ NextRun \/ FinishBody \/ TakeBody

StreamsSpec == StreamsInit /\ [][StreamsNext]_streamsVars
=============================================================================
