------------------------------ MODULE DataProofs ------------------------------
(***************************************************************************)
(* The byte streams and the headers of the Wasm backend, and the allowlist *)
(* of its requests, keep what they promise, for buffers, limits, lists and *)
(* paths of any length.                                                    *)
(***************************************************************************)
EXTENDS DataProps, NetworkProps,
        FiniteSetTheorems, SequenceTheorems, WellFoundedInduction, TLAPS

-----------------------------------------------------------------------------
(* Sequences.                                                              *)

\* What First and Rest return.
LEMMA FirstRest ==
    ASSUME NEW S, NEW s \in Seq(S), NEW n \in Nat
    PROVE  /\ First(s, n) \in Seq(S) /\ Rest(s, n) \in Seq(S)
           /\ Len(First(s, n)) = Least(n, Len(s))
           /\ \A i \in 1 .. Least(n, Len(s)) : First(s, n)[i] = s[i]
<1>1. Least(n, Len(s)) \in 0 .. Len(s)
  BY DEF Least
<1>2. SubSeq(s, 1, Least(n, Len(s))) \in Seq(S)
      /\ SubSeq(s, n + 1, Len(s)) \in Seq(S)
  BY <1>1
<1>3. Len(First(s, n)) = Least(n, Len(s))
  BY <1>1, SubSeqProperties DEF First
<1>4. \A i \in 1 .. Least(n, Len(s)) : First(s, n)[i] = s[i]
  BY <1>1, SubSeqProperties DEF First
<1> QED BY <1>2, <1>3, <1>4 DEF First, Rest

\* A sequence within the limit is kept whole.
LEMMA FirstWhole ==
    ASSUME NEW S, NEW s \in Seq(S), NEW n \in Nat, Len(s) <= n
    PROVE  First(s, n) = s
<1>1. Least(n, Len(s)) = Len(s)
  BY DEF Least
<1> QED BY <1>1, SubSeqFull DEF First

\* Cutting after each of two writes is cutting after both.
LEMMA FirstConcat ==
    ASSUME NEW S, NEW s \in Seq(S), NEW t \in Seq(S), NEW n \in Nat
    PROVE  First(First(s, n) \o t, n) = First(s \o t, n)
<1>1. CASE Len(s) <= n
  BY <1>1, FirstWhole
<1>2. CASE Len(s) > n
  <2> DEFINE u == First(s, n)
  <2>1. u \in Seq(S) /\ Len(u) = n /\ \A i \in 1 .. n : u[i] = s[i]
    BY <1>2, FirstRest DEF Least
  <2>2. /\ u \o t \in Seq(S) /\ s \o t \in Seq(S)
        /\ Len(u \o t) >= n /\ Len(s \o t) >= n
        /\ Len(u \o t) \in Nat /\ Len(s \o t) \in Nat
        /\ \A i \in 1 .. n : (u \o t)[i] = u[i] /\ (s \o t)[i] = s[i]
    BY <1>2, <2>1
  <2> HIDE DEF u
  <2>3. /\ First(u \o t, n) \in Seq(S) /\ First(s \o t, n) \in Seq(S)
        /\ Len(First(u \o t, n)) = n /\ Len(First(s \o t, n)) = n
        /\ \A i \in 1 .. n : First(u \o t, n)[i] = (u \o t)[i] /\ First(s \o t, n)[i] = (s \o t)[i]
    BY <2>2, FirstRest DEF Least
  <2>4. First(u \o t, n) = First(s \o t, n)
    BY <2>1, <2>2, <2>3, SeqEqual
  <2> QED BY <2>4 DEF u
<1> QED BY <1>1, <1>2

-----------------------------------------------------------------------------
(* The shape of the state of the streams.                                  *)

FileStream == [file : Files, mode : {"read", "write", "append"}, offset : Nat]
Resource == [id : Ids, file : Files, mode : {"read", "write", "append"},
             claim : {"own", "shared", "kept"}]

\* Type invariant.
StreamsTypeOK ==
    /\ inputs \in [Inputs -> [data : Seq(Nat), closed : BOOLEAN]]
    /\ body \in [data : Seq(Nat), closed : BOOLEAN, finished : BOOLEAN, sent : Seq(Nat)]
    /\ files \in [Files -> Seq(Nat)]
    /\ streams \in [Ids -> {None} \cup FileStream]
    /\ handles \in [Handles -> {None} \cup Resource]
    /\ nextId \in Nat \ {0}
    /\ offered \in Seq(Nat) /\ made \in Nat

\* A resource that owns its number shares it with no other and names the stream it was
\* opened for, as it was or closed by a write that failed.
Own(h) == handles[h] # None /\ handles[h].claim = "own"

OwnStream ==
    \A h \in Handles : Own(h) =>
      LET st == streams[handles[h].id] IN
      /\ handles[h].id < nextId
      /\ \/ st # None /\ st.mode = handles[h].mode /\ st.file = handles[h].file
         \/ st = None /\ handles[h].mode # "read"
      /\ \A g \in Handles \ {h} : handles[g] # None => handles[g].id # handles[h].id

\* Two tables have the same streams, whatever their offsets.
Alike(t, u) ==
    \A id \in Ids :
      /\ t[id] = None <=> u[id] = None
      /\ t[id] # None => u[id].mode = t[id].mode /\ u[id].file = t[id].file

\* A finished body is closed, and nothing was sent of one that is open.
Finished ==
    /\ body.finished => body.closed
    /\ body.sent # <<>> => body.finished

StreamsInv ==
    /\ StreamsTypeOK /\ OwnStream /\ Finished
    /\ Content = First(offered, MaxBuffer)

\* Overwriting a file leaves a file, with the data where it was written.
LEMMA Overwrites ==
    ASSUME NEW content \in Seq(Nat), NEW offset \in Nat, NEW data \in Seq(Nat)
    PROVE  /\ Overwrite(content, offset, data) \in Seq(Nat)
           /\ SubSeq(Overwrite(content, offset, data), offset + 1, offset + Len(data)) = data
<1> DEFINE end == offset + Len(data)
           m == IF end > Len(content) THEN end ELSE Len(content)
           new == Overwrite(content, offset, data)
<1>1. CASE data = <<>>
  BY <1>1, SubSeqEmpty DEF Overwrite
<1>2. CASE data # <<>>
  <2>1. end \in Nat /\ m \in Nat /\ end <= m /\ Len(data) \in Nat
    OBVIOUS
  <2>2. new = [i \in 1 .. m |-> IF i > offset /\ i <= end THEN data[i - offset]
                              ELSE IF i <= Len(content) THEN content[i] ELSE Zero]
    BY <1>2 DEF Overwrite
  <2>3. ASSUME NEW i \in 1 .. m
        PROVE  (IF i > offset /\ i <= end THEN data[i - offset]
                ELSE IF i <= Len(content) THEN content[i] ELSE Zero) \in Nat
    BY <2>1 DEF Zero
  <2> HIDE DEF m
  <2>4. new \in Seq(Nat) /\ Len(new) = m
    BY <2>1, <2>2, <2>3, IsASeq
  <2>5. \A i \in 1 .. Len(data) : new[offset + i] = data[i]
    BY <2>1, <2>2
  <2> HIDE DEF new
  <2>6. CASE Len(data) > 0
    <3>1. /\ SubSeq(new, offset + 1, end) \in Seq(Nat)
          /\ Len(SubSeq(new, offset + 1, end)) = Len(data)
          /\ \A i \in 1 .. Len(data) : SubSeq(new, offset + 1, end)[i] = new[offset + i]
      BY <2>1, <2>4, <2>6, SubSeqProperties
    <3>2. SubSeq(new, offset + 1, end) = data
      BY <3>1, <2>5, SeqEqual
    <3> QED BY <3>2, <2>4 DEF new
  <2> QED BY <1>2, <2>6
<1> QED BY <1>1, <1>2

\* What a read returns is part of what there was, and what it leaves is in order.
LEMMA ReadTypes ==
    ASSUME StreamsInv, NEW i \in Readers, NEW len \in Nat, NEW answer \in ReadOf(i, len), answer.ok
    PROVE  /\ answer.data \in Seq(Nat)
           /\ i \in Inputs \/ HasReader(i)
           /\ i \in Inputs => answer.data = First(inputs[i].data, len)
           /\ inputs' = InputsAfter(i, Len(answer.data)) =>
                inputs' \in [Inputs -> [data : Seq(Nat), closed : BOOLEAN]]
<1>1. CASE i \in Inputs
  <2>1. inputs[i].data \in Seq(Nat)
    BY <1>1 DEF StreamsInv, StreamsTypeOK
  <2>2. answer.data = First(inputs[i].data, len)
    BY <1>1 DEF ReadOf, BufferRead, Closed, Data
  <2>3. Rest(inputs[i].data, Len(answer.data)) \in Seq(Nat) /\ answer.data \in Seq(Nat)
    BY <2>1, <2>2, FirstRest
  <2>4. [inputs[i] EXCEPT !.data = Rest(inputs[i].data, Len(answer.data))]
          \in [data : Seq(Nat), closed : BOOLEAN]
    BY <1>1, <2>3 DEF StreamsInv, StreamsTypeOK
  <2>5. [inputs EXCEPT ![i] = [inputs[i] EXCEPT !.data = Rest(inputs[i].data, Len(answer.data))]]
          \in [Inputs -> [data : Seq(Nat), closed : BOOLEAN]]
    BY <1>1, <2>4 DEF StreamsInv, StreamsTypeOK
  <2>6. InputsAfter(i, Len(answer.data))
          = [inputs EXCEPT ![i] = [inputs[i] EXCEPT !.data = Rest(inputs[i].data, Len(answer.data))]]
    BY <1>1 DEF InputsAfter
  <2> QED BY <1>1, <2>2, <2>3, <2>5, <2>6
<1>2. CASE i \notin Inputs
  <2>1. i \in Handles /\ handles[i].mode = "read"
    BY <1>2 DEF Readers
  <2>2. handles[i] \in Resource
    BY <2>1 DEF None, StreamsInv, StreamsTypeOK
  <2> DEFINE st == streams[handles[i].id]
             left == Rest(files[st.file], st.offset)
  <2>3. HasReader(i) /\ \E k \in 1 .. Least(len, Len(left)) : answer = Data(First(left, k))
    BY <1>2 DEF ReadOf, FileRead, Closed
  <2>4. st \in FileStream
    BY <2>2, <2>3 DEF HasReader, None, Resource, StreamsInv, StreamsTypeOK
  <2>5. left \in Seq(Nat)
    BY <2>4, FirstRest DEF FileStream, StreamsInv, StreamsTypeOK
  <2>6. answer.data \in Seq(Nat)
    BY <2>3, <2>5, FirstRest DEF Data
  <2> QED BY <1>2, <2>3, <2>6 DEF InputsAfter, StreamsInv, StreamsTypeOK
<1> QED BY <1>1, <1>2

\* The table of streams after a read: the offset of the one that was read.
LEMMA TableAfterRead ==
    ASSUME StreamsInv, NEW i \in Readers, NEW n \in Nat, i \in Inputs \/ HasReader(i)
    PROVE  /\ StreamsAfter(i, n) \in [Ids -> {None} \cup FileStream]
           /\ Alike(streams, StreamsAfter(i, n))
<1>1. CASE i \in Inputs \/ n = 0
  BY <1>1 DEF StreamsAfter, Alike, StreamsInv, StreamsTypeOK
<1>2. CASE ~(i \in Inputs \/ n = 0)
  <2>1. i \in Handles /\ handles[i].mode = "read"
    BY <1>2 DEF Readers
  <2>2. handles[i] \in Resource /\ handles[i] # None
    BY <2>1 DEF None, StreamsInv, StreamsTypeOK
  <2> DEFINE id == handles[i].id
             st == streams[id]
  <2>3. id \in Ids /\ st # None /\ st \in FileStream
    BY <1>2, <2>1, <2>2 DEF HasReader, None, Resource, StreamsInv, StreamsTypeOK
  <2>4. StreamsAfter(i, n) = [streams EXCEPT ![id] = [st EXCEPT !.offset = st.offset + n]]
    BY <1>2 DEF StreamsAfter
  <2>5. [st EXCEPT !.offset = st.offset + n] \in FileStream
        /\ [st EXCEPT !.offset = st.offset + n].mode = st.mode
        /\ [st EXCEPT !.offset = st.offset + n].file = st.file
        /\ [st EXCEPT !.offset = st.offset + n] # None
    BY <2>3 DEF FileStream, None
  <2> HIDE DEF st
  <2> QED BY <2>3, <2>4, <2>5 DEF st, Alike, StreamsInv, StreamsTypeOK
<1> QED BY <1>1, <1>2

\* Resources keep their streams while only offsets change.
LEMMA OwnKept ==
    ASSUME StreamsInv, NEW table \in [Ids -> {None} \cup FileStream],
           Alike(streams, table), streams' = table, UNCHANGED <<nextId, handles>>
    PROVE  OwnStream'
<1>1. ASSUME NEW h \in Handles, Own(h)
      PROVE  /\ streams[handles[h].id] = None <=> table[handles[h].id] = None
             /\ streams[handles[h].id] # None =>
                  /\ table[handles[h].id].mode = streams[handles[h].id].mode
                  /\ table[handles[h].id].file = streams[handles[h].id].file
  <2>1. handles[h].id \in Ids
    BY <1>1 DEF Own, StreamsInv, StreamsTypeOK, Resource
  <2> QED BY <2>1 DEF Alike
<1> QED BY <1>1 DEF StreamsInv, OwnStream, Own

\* A resource that loses its stream was one for writing, and none that owns its number
\* loses another's.
LEMMA OwnClosed ==
    ASSUME StreamsInv, NEW table \in [Ids -> {None} \cup FileStream],
           Alike(streams, table), UNCHANGED <<nextId, handles>>,
           NEW h \in Handles, handles[h] # None, handles[h].mode # "read",
           streams' = [table EXCEPT ![handles[h].id] = None]
    PROVE  OwnStream' /\ streams' \in [Ids -> {None} \cup FileStream]
<1>1. handles[h].id \in Ids
  BY DEF StreamsInv, StreamsTypeOK, Resource
<1>2. /\ streams'[handles[h].id] = None
      /\ \A id \in Ids \ {handles[h].id} : streams'[id] = table[id]
  BY <1>1
<1>3. ASSUME NEW g \in Handles, Own(g), g # h
      PROVE  handles[g].id \in Ids \ {handles[h].id}
  <2>1. handles[g].id \in Ids
    BY <1>3 DEF Own, StreamsInv, StreamsTypeOK, Resource
  <2>2. handles[g].id # handles[h].id
    BY <1>3 DEF StreamsInv, OwnStream
  <2> QED BY <2>1, <2>2
<1>4. streams' \in [Ids -> {None} \cup FileStream]
  BY <1>1
<1>5. ASSUME NEW g \in Handles, Own(g)
      PROVE  LET st == streams'[handles[g].id] IN
             \/ st # None /\ st.mode = handles[g].mode /\ st.file = handles[g].file
             \/ st = None /\ handles[g].mode # "read"
  <2>1. CASE g = h
    BY <1>2, <1>5, <2>1 DEF StreamsInv, OwnStream
  <2>2. CASE g # h
    BY <1>2, <1>3, <1>5, <2>2 DEF Alike, StreamsInv, OwnStream
  <2> QED BY <2>1, <2>2
<1> QED BY <1>4, <1>5 DEF StreamsInv, OwnStream, Own

\* A write to the body, or one that closes it, keeps what was offered.
LEMMA BodyKept ==
    ASSUME StreamsInv, NEW data \in Seq(Nat), BodyWrite(data)
    PROVE  /\ body' \in [data : Seq(Nat), closed : BOOLEAN, finished : BOOLEAN, sent : Seq(Nat)]
           /\ offered' \in Seq(Nat) /\ Finished'
           /\ Content' = First(offered', MaxBuffer)
           /\ Content' = First(Content \o data, MaxBuffer)
<1>1. /\ body.data \in Seq(Nat) /\ body.sent = <<>> /\ offered \in Seq(Nat)
      /\ MaxBuffer \in Nat
  BY StreamsAssumption DEF BodyWrite, StreamsInv, StreamsTypeOK, Finished
<1>2. /\ body' = [body EXCEPT !.data = First(body.data \o data, MaxBuffer)]
      /\ offered' = offered \o data
  BY DEF BodyWrite
<1>3. body.data = First(offered, MaxBuffer) /\ Content = body.data
  BY <1>1 DEF StreamsInv, Content
<1>4. First(body.data \o data, MaxBuffer) \in Seq(Nat)
  <2>1. body.data \o data \in Seq(Nat)
    BY <1>1
  <2> QED BY <1>1, <2>1, FirstRest
<1>5. /\ body'.data = First(body.data \o data, MaxBuffer) /\ body'.sent = <<>>
      /\ body'.finished = body.finished /\ body'.closed = body.closed
      /\ body' \in [data : Seq(Nat), closed : BOOLEAN, finished : BOOLEAN, sent : Seq(Nat)]
  BY <1>1, <1>2, <1>4 DEF StreamsInv, StreamsTypeOK
<1>6. Content' = First(body.data \o data, MaxBuffer)
  BY <1>4, <1>5 DEF Content
<1>7. First(body.data \o data, MaxBuffer) = First(offered \o data, MaxBuffer)
  BY <1>1, <1>3, FirstConcat
<1> QED BY <1>1, <1>2, <1>3, <1>5, <1>6, <1>7 DEF StreamsInv, Finished

\* A write to a file, whole or broken off, keeps the shape and every other stream.
LEMMA FileKept ==
    ASSUME StreamsInv, NEW table \in [Ids -> {None} \cup FileStream], Alike(streams, table),
           UNCHANGED <<nextId, handles>>,
           NEW h \in Handles, handles[h] # None, handles[h].mode # "read", NEW data \in Seq(Nat),
           FileWrite(h, data, table) \/ FileWriteFails(h, data, table)
    PROVE  /\ files' \in [Files -> Seq(Nat)]
           /\ streams' \in [Ids -> {None} \cup FileStream]
           /\ OwnStream'
<1> DEFINE id == handles[h].id
           st == table[id]
<1>1. id \in Ids
  BY DEF StreamsInv, StreamsTypeOK, Resource
<1>2. st \in FileStream
  BY <1>1 DEF FileWrite, FileWriteFails, HasWriter, None
<1>3. st.file \in Files /\ files[st.file] \in Seq(Nat) /\ Offset(st) \in Nat
  BY <1>2 DEF FileStream, Offset, StreamsInv, StreamsTypeOK
<1>4. ASSUME NEW bytes \in Seq(Nat)
      PROVE  [files EXCEPT ![st.file] = Overwrite(files[st.file], Offset(st), bytes)]
                \in [Files -> Seq(Nat)]
  BY <1>3, Overwrites DEF StreamsInv, StreamsTypeOK
<1>5. CASE FileWrite(h, data, table)
  <2> DEFINE end == Offset(st) + Len(data)
  <2>1. files' \in [Files -> Seq(Nat)]
    BY <1>4, <1>5 DEF FileWrite
  <2>2. streams' = [table EXCEPT ![id] = [st EXCEPT !.offset = end]] /\ end \in Nat
    BY <1>3, <1>5 DEF FileWrite
  <2>3. /\ [st EXCEPT !.offset = end] \in FileStream /\ [st EXCEPT !.offset = end] # None
        /\ st # None
        /\ [st EXCEPT !.offset = end].mode = st.mode /\ [st EXCEPT !.offset = end].file = st.file
    BY <1>2, <2>2 DEF FileStream, None
  <2> HIDE DEF end
  <2>4. streams' \in [Ids -> {None} \cup FileStream] /\ Alike(streams, streams')
    BY <1>1, <2>2, <2>3 DEF Alike
  <2> QED BY <2>1, <2>4, OwnKept
<1>6. CASE FileWriteFails(h, data, table)
  <2>1. ASSUME NEW k \in 0 .. Len(data) PROVE First(data, k) \in Seq(Nat)
    BY FirstRest
  <2>2. files' \in [Files -> Seq(Nat)]
    <3>1. PICK k \in 0 .. Len(data) :
             files' = [files EXCEPT ![st.file] = Overwrite(files[st.file], Offset(st), First(data, k))]
      BY <1>6 DEF FileWriteFails
    <3> QED BY <1>4, <2>1, <3>1
  <2> QED BY <1>6, <2>2, OwnClosed DEF FileWriteFails
<1> QED BY <1>5, <1>6

\* An output of the guest other than the body is a resource for writing.
LEMMA WriterIsResource ==
    ASSUME StreamsInv, NEW o \in Writers, o # "body"
    PROVE  o \in Handles /\ handles[o] # None /\ handles[o] \in Resource /\ handles[o].mode # "read"
  BY DEF Writers, None, StreamsInv, StreamsTypeOK

\* A write keeps the invariant, from a table that a read left.
LEMMA WriteKeeps ==
    ASSUME StreamsInv, NEW o \in Writers, NEW data \in Seq(Nat),
           NEW table \in [Ids -> {None} \cup FileStream], Alike(streams, table),
           WriteTo(o, data, table),
           inputs' \in [Inputs -> [data : Seq(Nat), closed : BOOLEAN]], made' \in Nat,
           UNCHANGED <<nextId, handles>>
    PROVE  StreamsInv'
<1>1. CASE o = "body"
  <2>1. BodyWrite(data) /\ streams' = table /\ UNCHANGED files
    BY <1>1 DEF WriteTo
  <2>2. OwnStream'
    BY <2>1, OwnKept
  <2> QED BY <2>1, <2>2, BodyKept DEF StreamsInv, StreamsTypeOK
<1>2. CASE o # "body"
  <2>1. (FileWrite(o, data, table) \/ FileWriteFails(o, data, table)) /\ UNCHANGED <<body, offered>>
    BY <1>2 DEF WriteTo
  <2>2. /\ files' \in [Files -> Seq(Nat)] /\ streams' \in [Ids -> {None} \cup FileStream]
        /\ OwnStream'
    BY <1>2, <2>1, WriterIsResource, FileKept
  <2> QED BY <2>1, <2>2 DEF StreamsInv, StreamsTypeOK, Finished, Content
<1> QED BY <1>1, <1>2

\* The table is like itself.
LEMMA AlikeSame == ASSUME StreamsInv
                   PROVE  streams \in [Ids -> {None} \cup FileStream] /\ Alike(streams, streams)
  BY DEF StreamsInv, StreamsTypeOK, Alike

\* Before the guest runs.
LEMMA StreamsBase == StreamsInit => StreamsInv
<1> SUFFICES ASSUME StreamsInit PROVE StreamsInv OBVIOUS
<1>1. First(Response, MaxBuffer) \in Seq(Nat) /\ MaxBuffer \in Nat
  BY StreamsAssumption, FirstRest
<1>2. inputs \in [Inputs -> [data : Seq(Nat), closed : BOOLEAN]]
  BY <1>1 DEF StreamsInit, Inputs
<1>3. First(<<>>, MaxBuffer) = <<>> /\ <<>> \in Seq(Nat)
  <2>1. <<>> \in Seq(Nat) /\ Len(<<>>) <= MaxBuffer
    BY <1>1
  <2> QED BY <1>1, <2>1, FirstWhole
<1>4. Content = <<>>
  BY DEF StreamsInit, Content
<1> QED BY <1>2, <1>3, <1>4 DEF StreamsInit, StreamsInv, StreamsTypeOK, OwnStream, Own, Finished, None

\* read and skip.
LEMMA ReadKeeps ==
    ASSUME StreamsInv, NEW i \in Readers, NEW len \in Lens, Read(i, len)
    PROVE  StreamsInv'
<1>1. len \in Nat
  BY StreamsAssumption
<1>2. PICK answer \in ReadOf(i, len) :
         /\ answer.ok
         /\ inputs' = InputsAfter(i, Len(answer.data))
         /\ streams' = StreamsAfter(i, Len(answer.data))
  BY DEF Read
<1>3. /\ answer.data \in Seq(Nat) /\ inputs' \in [Inputs -> [data : Seq(Nat), closed : BOOLEAN]]
      /\ i \in Inputs \/ HasReader(i)
  BY <1>1, <1>2, ReadTypes
<1>4. /\ StreamsAfter(i, Len(answer.data)) \in [Ids -> {None} \cup FileStream]
      /\ Alike(streams, StreamsAfter(i, Len(answer.data)))
  BY <1>3, TableAfterRead
<1>5. UNCHANGED <<body, files, nextId, handles, offered, made>>
  BY DEF Read
<1>6. OwnStream'
  BY <1>2, <1>4, <1>5, OwnKept
<1> QED BY <1>2, <1>3, <1>4, <1>5, <1>6 DEF StreamsInv, StreamsTypeOK, Finished, Content

\* splice.
LEMMA SpliceInv ==
    ASSUME StreamsInv, NEW o \in Writers, NEW i \in Readers, NEW len \in Lens, Splice(o, i, len)
    PROVE  StreamsInv'
<1>1. PICK permit \in CheckWrite(o) : \E answer \in ReadOf(i, Least(permit, len)) :
         /\ answer.ok
         /\ inputs' = InputsAfter(i, Len(answer.data))
         /\ WriteTo(o, answer.data, StreamsAfter(i, Len(answer.data)))
  BY DEF Splice
<1>2. Least(permit, len) \in Nat
  BY StreamsAssumption DEF CheckWrite, Least
<1>3. PICK answer \in ReadOf(i, Least(permit, len)) :
         /\ answer.ok
         /\ inputs' = InputsAfter(i, Len(answer.data))
         /\ WriteTo(o, answer.data, StreamsAfter(i, Len(answer.data)))
  BY <1>1
<1>4. /\ answer.data \in Seq(Nat) /\ inputs' \in [Inputs -> [data : Seq(Nat), closed : BOOLEAN]]
      /\ i \in Inputs \/ HasReader(i)
  BY <1>2, <1>3, ReadTypes
<1>5. /\ StreamsAfter(i, Len(answer.data)) \in [Ids -> {None} \cup FileStream]
      /\ Alike(streams, StreamsAfter(i, Len(answer.data)))
  BY <1>4, TableAfterRead
<1>6. UNCHANGED <<nextId, handles, made>> /\ made' \in Nat
  BY DEF Splice, StreamsInv, StreamsTypeOK
<1> QED BY <1>3, <1>4, <1>5, <1>6, WriteKeeps

\* write.
LEMMA WriteInv ==
    ASSUME StreamsInv, NEW o \in Writers, NEW len \in Lens, Write(o, len)
    PROVE  StreamsInv'
<1> DEFINE data == [i \in 1 .. len |-> Len(Response) + made + i]
<1>1. len \in Nat /\ made \in Nat /\ Len(Response) \in Nat
  BY StreamsAssumption DEF StreamsInv, StreamsTypeOK
<1>2. data \in Seq(Nat)
  BY <1>1, IsASeq
<1>3. /\ WriteTo(o, data, streams) /\ made' = made + len
      /\ UNCHANGED <<inputs, nextId, handles>>
  BY DEF Write
<1>4. inputs' \in [Inputs -> [data : Seq(Nat), closed : BOOLEAN]] /\ made' \in Nat
  BY <1>1, <1>3 DEF StreamsInv, StreamsTypeOK
<1> HIDE DEF data
<1> QED BY <1>2, <1>3, <1>4, AlikeSame, WriteKeeps

\* write_zeroes.
LEMMA WriteZeroesInv ==
    ASSUME StreamsInv, NEW o \in Writers, NEW len \in Lens, WriteZeroes(o, len)
    PROVE  StreamsInv'
<1> DEFINE data == [i \in 1 .. len |-> Zero]
<1>1. len \in Nat /\ made \in Nat /\ inputs \in [Inputs -> [data : Seq(Nat), closed : BOOLEAN]]
  BY StreamsAssumption DEF StreamsInv, StreamsTypeOK
<1>2. UNCHANGED <<inputs, nextId, handles>>
  BY DEF WriteZeroes
<1>3. CASE len > MaxAlloc
  <2>1. Close(o) /\ UNCHANGED <<files, offered, made>>
    BY <1>3 DEF WriteZeroes
  <2>2. CASE o = "body"
    <3>1. body' = [body EXCEPT !.closed = TRUE] /\ UNCHANGED streams
      BY <2>1, <2>2 DEF Close
    <3>2. OwnStream'
      BY <1>2, <3>1, AlikeSame, OwnKept
    <3>3. /\ body' \in [data : Seq(Nat), closed : BOOLEAN, finished : BOOLEAN, sent : Seq(Nat)]
          /\ body'.data = body.data /\ body'.sent = body.sent
          /\ body'.closed /\ body'.finished = body.finished
      BY <3>1 DEF StreamsInv, StreamsTypeOK
    <3> QED BY <1>2, <2>1, <3>1, <3>2, <3>3 DEF StreamsInv, StreamsTypeOK, Finished, Content
  <2>3. CASE o # "body"
    <3>1. streams' = [streams EXCEPT ![handles[o].id] = None] /\ UNCHANGED body
      BY <2>1, <2>3 DEF Close
    <3>2. OwnStream' /\ streams' \in [Ids -> {None} \cup FileStream]
      BY <1>2, <2>3, <3>1, AlikeSame, WriterIsResource, OwnClosed
    <3> QED BY <1>2, <2>1, <3>1, <3>2 DEF StreamsInv, StreamsTypeOK, Finished, Content
  <2> QED BY <2>2, <2>3
<1>4. CASE ~(len > MaxAlloc)
  <2>1. WriteTo(o, data, streams) /\ made' = made + len
    BY <1>4 DEF WriteZeroes
  <2>2. data \in Seq(Nat)
    BY <1>1, IsASeq DEF Zero
  <2>3. inputs' \in [Inputs -> [data : Seq(Nat), closed : BOOLEAN]] /\ made' \in Nat
    BY <1>1, <1>2, <2>1
  <2> HIDE DEF data
  <2> QED BY <1>2, <2>1, <2>2, <2>3, AlikeSame, WriteKeeps
<1> QED BY <1>3, <1>4

\* Opening a stream takes a number no resource has.
LEMMA OpenInv ==
    ASSUME StreamsInv, NEW h \in Handles, NEW fi \in Files, NEW mode \in {"read", "write", "append"},
           NEW offset \in Nat, OpenStream(h, fi, mode, offset)
    PROVE  StreamsInv'
<1>1. PICK id \in nextId .. MaxId :
         /\ handles' = [handles EXCEPT ![h] =
                          [id |-> id, file |-> fi, mode |-> mode, claim |-> ClaimOf(id)]]
         /\ streams' = [streams EXCEPT ![id] = [file |-> fi, mode |-> mode, offset |-> offset]]
         /\ nextId' = id + 1
  BY DEF OpenStream
<1> DEFINE resource == [id |-> id, file |-> fi, mode |-> mode, claim |-> ClaimOf(id)]
           stream == [file |-> fi, mode |-> mode, offset |-> offset]
<1>2. nextId \in Nat \ {0} /\ id \in Ids /\ id \in Nat /\ MaxId \in Nat
  BY StreamsAssumption DEF StreamsInv, StreamsTypeOK, Ids
<1>3. resource \in Resource /\ stream \in FileStream /\ stream # None /\ resource # None
  BY <1>2 DEF Resource, FileStream, ClaimOf, None
<1>4. streams' \in [Ids -> {None} \cup FileStream] /\ handles' \in [Handles -> {None} \cup Resource]
      /\ nextId' \in Nat \ {0}
  BY <1>1, <1>2, <1>3 DEF StreamsInv, StreamsTypeOK
<1>5. UNCHANGED <<inputs, body, files, offered, made>>
  BY DEF OpenStream
<1>6. /\ handles'[h] = resource /\ streams'[id] = stream
      /\ \A g \in Handles \ {h} : handles'[g] = handles[g]
      /\ \A j \in Ids \ {id} : streams'[j] = streams[j]
  BY <1>1, <1>2 DEF StreamsInv, StreamsTypeOK
<1>7. handles[h] = None /\ resource.id = id /\ resource.claim = ClaimOf(id)
      /\ resource.mode = stream.mode /\ resource.file = stream.file
  BY DEF OpenStream
<1> HIDE DEF resource, stream
<1>8. ASSUME NEW g \in Handles, g # h, Own(g)
      PROVE  handles[g].id \in Ids /\ handles[g].id < id
  <2>1. handles[g].id \in Ids
    BY <1>8 DEF Own, StreamsInv, StreamsTypeOK, Resource
  <2>2. handles[g].id < nextId
    BY <1>8 DEF StreamsInv, OwnStream
  <2> QED BY <1>2, <2>1, <2>2 DEF Ids
<1>9. ASSUME NEW g \in Handles, Own(g)'
      PROVE  LET st == streams'[handles'[g].id] IN
             /\ handles'[g].id < nextId'
             /\ \/ st # None /\ st.mode = handles'[g].mode /\ st.file = handles'[g].file
                \/ st = None /\ handles'[g].mode # "read"
             /\ \A k \in Handles \ {g} : handles'[k] # None => handles'[k].id # handles'[g].id
  <2>1. CASE g = h
    <3>1. ClaimOf(id) = "own"
      BY <1>6, <1>7, <1>9, <2>1 DEF Own
    <3>2. \A k \in Handles \ {h} : handles[k] # None => handles[k].id # id
      BY <3>1 DEF ClaimOf
    <3> QED BY <1>1, <1>2, <1>3, <1>6, <1>7, <2>1, <3>2
  <2>2. CASE g # h
    <3>1. handles'[g] = handles[g] /\ Own(g)
      BY <1>6, <1>9, <2>2 DEF Own
    <3>2. handles[g].id < id /\ handles[g].id \in Ids
      BY <1>8, <2>2, <3>1
    <3>3. streams'[handles[g].id] = streams[handles[g].id] /\ handles[g].id < id + 1
      BY <1>2, <1>6, <3>2 DEF Ids
    <3>4. \A k \in Handles \ {g} : handles'[k] # None => handles'[k].id # handles[g].id
      BY <1>2, <1>6, <1>7, <3>1, <3>2 DEF StreamsInv, OwnStream, Ids
    <3> QED BY <1>1, <3>1, <3>3, <3>4 DEF StreamsInv, OwnStream
  <2> QED BY <2>1, <2>2
<1>10. OwnStream'
  BY <1>9 DEF OwnStream
<1> QED BY <1>4, <1>5, <1>10 DEF StreamsInv, StreamsTypeOK, Finished, Content

\* Dropping a resource, and the run that forgets all streams but not the resources.
LEMMA ForgetInv ==
    ASSUME StreamsInv, (\E h \in Handles : DropStream(h)) \/ NextRun
    PROVE  StreamsInv'
<1>1. ASSUME NEW h \in Handles, DropStream(h) PROVE StreamsInv'
  BY <1>1 DEF DropStream, StreamsInv, StreamsTypeOK, OwnStream, Own, Finished, Content
<1>2. CASE NextRun
  <2>1. /\ streams' = [id \in Ids |-> None] /\ nextId' = 1
        /\ handles' = [h \in Handles |->
                         IF handles[h] = None THEN None ELSE [handles[h] EXCEPT !.claim = "kept"]]
        /\ UNCHANGED <<inputs, body, files, offered, made>>
    BY <1>2 DEF NextRun
  <2>2. ASSUME NEW h \in Handles
        PROVE  handles'[h] \in {None} \cup Resource /\ (handles'[h] # None => handles'[h].claim = "kept")
    <3>1. handles[h] = None \/ handles[h] \in Resource
      BY DEF StreamsInv, StreamsTypeOK
    <3>2. CASE handles[h] = None
      BY <2>1, <3>2
    <3>3. CASE handles[h] # None
      <4>1. handles'[h] = [handles[h] EXCEPT !.claim = "kept"]
        BY <2>1, <3>3
      <4> QED BY <3>1, <3>3, <4>1 DEF Resource
    <3> QED BY <3>2, <3>3
  <2>3. handles' \in [Handles -> {None} \cup Resource]
    BY <2>1, <2>2
  <2>4. OwnStream'
    BY <2>2 DEF OwnStream, Own
  <2> QED BY <2>1, <2>3, <2>4 DEF StreamsInv, StreamsTypeOK, Finished, Content
<1> QED BY <1>1, <1>2

\* Finishing and taking the outgoing body.
LEMMA BodyInv == ASSUME StreamsInv, FinishBody \/ TakeBody PROVE StreamsInv'
<1>1. CASE FinishBody
  <2>1. body' = [body EXCEPT !.closed = TRUE, !.finished = TRUE]
    BY <1>1 DEF FinishBody
  <2>2. /\ body' \in [data : Seq(Nat), closed : BOOLEAN, finished : BOOLEAN, sent : Seq(Nat)]
        /\ body'.data = body.data /\ body'.sent = body.sent /\ body'.closed /\ body'.finished
    BY <2>1 DEF StreamsInv, StreamsTypeOK
  <2>3. UNCHANGED <<inputs, files, streams, nextId, handles, offered, made>>
    BY <1>1 DEF FinishBody, fileVars
  <2> QED BY <2>2, <2>3 DEF StreamsInv, StreamsTypeOK, OwnStream, Own, Finished, Content
<1>2. CASE TakeBody
  <2>1. /\ body' = [body EXCEPT !.data = <<>>, !.sent = body.data]
        /\ body.finished /\ body.sent = <<>> /\ body.data \in Seq(Nat)
    BY <1>2 DEF TakeBody, StreamsInv, StreamsTypeOK
  <2>2. /\ body' \in [data : Seq(Nat), closed : BOOLEAN, finished : BOOLEAN, sent : Seq(Nat)]
        /\ body'.data = <<>> /\ body'.sent = body.data
        /\ body'.closed = body.closed /\ body'.finished = body.finished
    BY <2>1 DEF StreamsInv, StreamsTypeOK
  <2>3. Content' = Content
    BY <2>1, <2>2 DEF Content
  <2>4. UNCHANGED <<inputs, files, streams, nextId, handles, offered, made>>
    BY <1>2 DEF TakeBody, fileVars
  <2> QED BY <2>1, <2>2, <2>3, <2>4 DEF StreamsInv, StreamsTypeOK, OwnStream, Own, Finished
<1> QED BY <1>1, <1>2

\* Every call keeps the invariant.
LEMMA StreamsStep == StreamsInv /\ [StreamsNext]_streamsVars => StreamsInv'
<1> SUFFICES ASSUME StreamsInv, [StreamsNext]_streamsVars PROVE StreamsInv' OBVIOUS
<1>1. ASSUME NEW h \in Handles, NEW fi \in Files, NEW mode \in {"read", "write", "append"},
             NEW offset \in IF mode = "append" THEN {0} ELSE Offsets, OpenStream(h, fi, mode, offset)
      PROVE  StreamsInv'
  <2>1. offset \in Nat
    BY StreamsAssumption
  <2> QED BY <1>1, <2>1, OpenInv
<1>2. CASE UNCHANGED streamsVars
  BY <1>2 DEF streamsVars, fileVars, StreamsInv, StreamsTypeOK, OwnStream, Own, Finished, Content
<1> QED BY <1>1, <1>2, ReadKeeps, WriteInv, WriteZeroesInv, SpliceInv, ForgetInv, BodyInv DEF StreamsNext

\* The invariant holds after any calls.
THEOREM StreamsInvariant == StreamsSpec => []StreamsInv
<1> QED BY StreamsBase, StreamsStep, PTL DEF StreamsSpec

\* The shape of buffers, streams and resources after any calls.
THEOREM StreamsTypeCorrect == StreamsSpec => []StreamsTypeOK
<1>1. StreamsInv => StreamsTypeOK BY DEF StreamsInv
<1> QED BY <1>1, StreamsInvariant, PTL

-----------------------------------------------------------------------------
(* What the streams promise.                                               *)

\* The outgoing body is what was offered, from the front and without a hole, for
\* buffers of any size (buffer.rs:45 cuts what does not fit).
THEOREM NoHolesCorrect == StreamsSpec => []NoHoles
<1>1. StreamsInv => NoHoles
  <2> SUFFICES ASSUME StreamsInv PROVE NoHoles OBVIOUS
  <2>1. offered \in Seq(Nat) /\ MaxBuffer \in Nat /\ Content = First(offered, MaxBuffer)
    BY StreamsAssumption DEF StreamsInv, StreamsTypeOK
  <2>2. Len(Content) = Least(MaxBuffer, Len(offered))
    BY <2>1, FirstRest
  <2>3. First(offered, Len(Content)) = Content
    BY <2>1, <2>2 DEF First, Least
  <2> QED BY <2>2, <2>3 DEF NoHoles
<1> QED BY <1>1, StreamsInvariant, PTL

\* A read of a file says Closed or returns bytes.
LEMMA FileAnswers ==
    ASSUME StreamsInv, NEW i \in Readers, i \notin Inputs, NEW answer \in FileRead(i, 1), answer.ok
    PROVE  answer.data # <<>>
<1> DEFINE st == streams[handles[i].id]
           left == Rest(files[st.file], st.offset)
<1>1. HasReader(i) /\ \E k \in 1 .. Least(1, Len(left)) : answer = Data(First(left, k))
  BY DEF FileRead, Closed
<1>2. i \in Handles /\ handles[i].mode = "read"
  BY DEF Readers
<1>3. handles[i] \in Resource
  BY <1>2 DEF None, StreamsInv, StreamsTypeOK
<1>4. st \in FileStream
  BY <1>1, <1>3 DEF HasReader, None, Resource, StreamsInv, StreamsTypeOK
<1>5. left \in Seq(Nat)
  BY <1>4, FirstRest DEF FileStream, StreamsInv, StreamsTypeOK
<1>6. ASSUME NEW k \in 1 .. Least(1, Len(left)) PROVE First(left, k) # <<>>
  <2>1. k \in Nat /\ k >= 1 /\ k <= Len(left) /\ Len(First(left, k)) = Least(k, Len(left))
    BY <1>5, FirstRest DEF Least
  <2> QED BY <2>1 DEF Least
<1> QED BY <1>1, <1>6 DEF Data

\* What is ready answers, for every stream the guest can hold, and what would answer is
\* ready as long as no resource kept over a run boundary has its number (io.rs and
\* stream.rs compute the two apart).
THEOREM ReadyCorrect == StreamsSpec => []ReadyMeansAnswer
<1>1. StreamsInv => ReadyMeansAnswer
  <2> SUFFICES ASSUME StreamsInv PROVE ReadyMeansAnswer OBVIOUS
  <2>1. ASSUME NEW i \in Readers
        PROVE  (Readable(i) => Responds(i)) /\ (Responds(i) /\ Owned(i) => Readable(i))
    <3>1. CASE i \in Inputs
      <4>1. inputs[i].data \in Seq(Nat) /\ inputs[i].closed \in BOOLEAN
        BY <3>1 DEF StreamsInv, StreamsTypeOK
      <4>2. inputs[i].data # <<>> <=> First(inputs[i].data, 1) # <<>>
        <5>1. /\ First(inputs[i].data, 1) \in Seq(Nat)
              /\ Len(First(inputs[i].data, 1)) = Least(1, Len(inputs[i].data))
          BY <4>1, FirstRest
        <5>2. Len(inputs[i].data) = 0 <=> Least(1, Len(inputs[i].data)) = 0
          BY <4>1 DEF Least
        <5> QED BY <4>1, <5>1, <5>2, EmptySeq
      <4>3. CASE inputs[i].data = <<>> /\ inputs[i].closed
        BY <3>1, <4>3 DEF Readable, Responds, ReadOf, BufferRead, Closed
      <4>4. CASE ~(inputs[i].data = <<>> /\ inputs[i].closed)
        <5>1. ReadOf(i, 1) = {Data(First(inputs[i].data, 1))}
          BY <3>1, <4>4 DEF ReadOf, BufferRead
        <5>2. Responds(i) <=> \A answer \in {Data(First(inputs[i].data, 1))} :
                                answer.ok => answer.data # <<>>
          BY <5>1 DEF Responds
        <5>3. Responds(i) <=> First(inputs[i].data, 1) # <<>>
          BY <5>2 DEF Data
        <5> QED BY <3>1, <4>1, <4>2, <4>4, <5>3 DEF Readable
      <4> QED BY <4>3, <4>4
    <3>2. CASE i \notin Inputs
      <4>1. i \in Handles /\ handles[i].mode = "read" /\ handles[i] # None
        BY <3>2 DEF Readers, None
      <4>2. Responds(i)
        BY <3>2, FileAnswers DEF Responds, ReadOf
      <4>3. Owned(i) => HasReader(i)
        BY <4>1 DEF Owned, Own, HasReader, StreamsInv, OwnStream
      <4> QED BY <3>2, <4>2, <4>3 DEF Readable
    <3> QED BY <3>1, <3>2
  <2>2. ASSUME NEW o \in Writers
        PROVE  /\ WriteReady(o) => 0 \notin CheckWrite(o)
               /\ 0 \notin CheckWrite(o) /\ Owned(o) => WriteReady(o)
    <3>1. CASE o = "body"
      BY <3>1, StreamsAssumption DEF WriteReady, CheckWrite
    <3>2. CASE o # "body"
      <4>1. o \in Handles /\ handles[o] # None /\ handles[o].mode \in {"write", "append"}
        BY <3>2 DEF Writers, None
      <4>2. Owned(o) => streams[handles[o].id] = None \/ HasWriter(streams, o)
        BY <4>1 DEF Owned, Own, HasWriter, StreamsInv, OwnStream
      <4> QED BY <3>2, <4>2, StreamsAssumption DEF WriteReady, CheckWrite
    <3> QED BY <3>1, <3>2
  <2> QED BY <2>1, <2>2 DEF ReadyMeansAnswer
<1> QED BY <1>1, StreamsInvariant, PTL

\* A splice delivers what it takes out of a response.
LEMMA SpliceDelivers ==
    ASSUME StreamsInv, NEW o \in Writers, NEW i \in Inputs, NEW len \in Lens, Splice(o, i, len)
    PROVE  Delivered(o, First(inputs[i].data, Len(inputs[i].data) - Len(inputs'[i].data)))
<1>0. i \in Readers
  BY DEF Readers
<1>1. PICK permit \in CheckWrite(o) : \E answer \in ReadOf(i, Least(permit, len)) :
         /\ answer.ok
         /\ inputs' = InputsAfter(i, Len(answer.data))
         /\ WriteTo(o, answer.data, StreamsAfter(i, Len(answer.data)))
  BY DEF Splice
<1>2. Least(permit, len) \in Nat
  BY StreamsAssumption DEF CheckWrite, Least
<1>3. PICK answer \in ReadOf(i, Least(permit, len)) :
         /\ answer.ok
         /\ inputs' = InputsAfter(i, Len(answer.data))
         /\ WriteTo(o, answer.data, StreamsAfter(i, Len(answer.data)))
  BY <1>1
<1> DEFINE old == inputs[i].data
           data == answer.data
           n == Len(data)
<1>4. data \in Seq(Nat) /\ data = First(old, Least(permit, len)) /\ old \in Seq(Nat)
  BY <1>0, <1>2, <1>3, ReadTypes DEF StreamsInv, StreamsTypeOK
<1>5. n \in 0 .. Len(old) /\ n = Least(Least(permit, len), Len(old))
  BY <1>2, <1>4, FirstRest DEF Least
<1>6. inputs'[i].data = Rest(old, n)
  BY <1>3 DEF InputsAfter, StreamsInv, StreamsTypeOK
<1>7. Len(Rest(old, n)) = Len(old) - n
  BY <1>4, <1>5, SubSeqProperties DEF Rest
<1>8. First(old, Len(old) - Len(inputs'[i].data)) = data
  <2>1. Len(old) - Len(inputs'[i].data) = n
    BY <1>4, <1>5, <1>6, <1>7
  <2>2. Least(n, Len(old)) = n
    BY <1>4, <1>5 DEF Least
  <2>3. First(old, n) = SubSeq(old, 1, n)
    BY <2>2 DEF First
  <2>4. data = SubSeq(old, 1, n)
    BY <1>4, <1>5 DEF First
  <2> QED BY <2>1, <2>3, <2>4
<1>9. WriteTo(o, data, streams)
  BY <1>3 DEF StreamsAfter
<1> HIDE DEF data, n, old
<1>10. ASSUME o = "body" PROVE Delivered(o, data)
  <2>1. BodyWrite(data)
    BY <1>9, <1>10 DEF WriteTo
  <2>2. /\ body.data \in Seq(Nat) /\ body.sent = <<>> /\ body \in [data : Seq(Nat), closed : BOOLEAN, finished : BOOLEAN, sent : Seq(Nat)]
        /\ body' = [body EXCEPT !.data = First(body.data \o data, MaxBuffer)] /\ MaxBuffer \in Nat
    BY <2>1, StreamsAssumption DEF BodyWrite, StreamsInv, StreamsTypeOK, Finished
  <2>3. body.data \o data \in Seq(Nat)
    BY <1>4, <2>2
  <2>4. body'.data = First(body.data \o data, MaxBuffer) /\ body'.sent = <<>>
    BY <2>2
  <2>5. CASE Len(body.data \o data) <= MaxBuffer
    <3>1. body'.data = body.data \o data
      BY <2>2, <2>3, <2>4, <2>5, FirstWhole
    <3>2. Content' = body'.data
      BY <2>3, <2>4, <3>1, ConcatEmptySeq DEF Content
    <3>3. Content = body.data
      BY <2>2, ConcatEmptySeq DEF Content
    <3> QED BY <1>10, <3>1, <3>2, <3>3 DEF Delivered
  <2>6. CASE Len(body.data \o data) > MaxBuffer
    <3>1. Len(First(body.data \o data, MaxBuffer)) = MaxBuffer
      <4>1. Least(MaxBuffer, Len(body.data \o data)) = MaxBuffer
        BY <2>2, <2>3, <2>6 DEF Least
      <4> QED BY <2>2, <2>3, <4>1, FirstRest
    <3>2. Len(body'.data) = MaxBuffer
      BY <2>4, <3>1
    <3> QED BY <1>10, <3>2 DEF Delivered
  <2> QED BY <2>2, <2>3, <2>5, <2>6
<1>11. ASSUME o # "body" PROVE Delivered(o, data)
  <2> DEFINE id == handles[o].id
             st == streams[id]
             at == Offset(st)
  <2>1. o \in Handles /\ id \in Ids
    BY <1>11, WriterIsResource DEF Resource
  <2>2. (FileWrite(o, data, streams) \/ FileWriteFails(o, data, streams))
    BY <1>9, <1>11 DEF WriteTo
  <2>3. st \in FileStream
    BY <2>1, <2>2 DEF FileWrite, FileWriteFails, HasWriter, None, StreamsInv, StreamsTypeOK
  <2>4. st.file \in Files /\ files[st.file] \in Seq(Nat) /\ at \in Nat
    BY <2>3 DEF FileStream, Offset, StreamsInv, StreamsTypeOK
  <2>5. CASE FileWrite(o, data, streams)
    <3> DEFINE end == at + Len(data)
    <3>1. /\ files' = [files EXCEPT ![st.file] = Overwrite(files[st.file], at, data)]
          /\ streams' = [streams EXCEPT ![id] = [st EXCEPT !.offset = end]]
      BY <2>5 DEF FileWrite
    <3>2. [st EXCEPT !.offset = end].file = st.file /\ [st EXCEPT !.offset = end].offset = end
      BY <2>3 DEF FileStream
    <3>3. streams'[id] = [st EXCEPT !.offset = end]
      BY <2>1, <3>1 DEF StreamsInv, StreamsTypeOK
    <3>4. files'[st.file] = Overwrite(files[st.file], at, data)
      BY <2>4, <3>1 DEF StreamsInv, StreamsTypeOK
    <3>5. SubSeq(Overwrite(files[st.file], at, data), at + 1, end) = data
      BY <1>4, <2>4, Overwrites
    <3>6. end - Len(data) + 1 = at + 1
      BY <1>4, <2>4
    <3> DEFINE new == streams'[id]
    <3>7. new.file = st.file /\ new.offset = end
      BY <3>2, <3>3
    <3>8. SubSeq(files'[new.file], new.offset - Len(data) + 1, new.offset) = data
      BY <3>4, <3>5, <3>6, <3>7
    <3> HIDE DEF st, end, at
    <3> QED BY <1>11, <3>8 DEF Delivered
  <2>6. CASE FileWriteFails(o, data, streams)
    <3>1. streams'[id] = None
      BY <2>1, <2>6 DEF FileWriteFails, StreamsInv, StreamsTypeOK
    <3> QED BY <1>11, <3>1 DEF Delivered
  <2> QED BY <2>2, <2>5, <2>6
<1> QED BY <1>8, <1>10, <1>11 DEF old

\* What a splice takes out of a response or stdin is in the destination, or the
\* destination is full or closed (io.rs asks for its permit before it reads).
THEOREM SpliceKeepsCorrect == StreamsSpec => SpliceKeeps
<1>1. StreamsInv => \A o \in Writers, i \in Inputs, len \in Lens :
         inputs' # inputs /\ Splice(o, i, len) =>
           Delivered(o, First(inputs[i].data, Len(inputs[i].data) - Len(inputs'[i].data)))
  BY SpliceDelivers
<1> QED BY <1>1, StreamsInvariant, PTL DEF SpliceKeeps

-----------------------------------------------------------------------------
(* Induction.  The principles are stated of sets, so that they can be cited. *)

\* A set of numbers that is not empty has a least one: the intervals up to its members
\* are finite, and the proper subset order of finite sets is well founded.
LEMMA LeastNumber ==
    ASSUME NEW T \in SUBSET Nat, T # {}
    PROVE  \E x \in T : \A y \in T : x <= y
<1> DEFINE Upto == {1 .. n : n \in T}
<1>1. Upto \subseteq FiniteSubsetsOf(Nat)
  BY FS_Interval DEF FiniteSubsetsOf
<1>2. Upto # {}
  OBVIOUS
<1>3. PICK A \in Upto : \A B \in Upto : ~(<<B, A>> \in StrictSubsetOrdering(Nat))
  BY <1>1, <1>2, WFMin, FS_StrictSubsetOrderingWellFounded
<1>4. PICK x \in T : A = 1 .. x
  BY <1>3
<1>5. ASSUME NEW y \in T PROVE x <= y
  <2>1. ~(<<1 .. y, 1 .. x>> \in StrictSubsetOrdering(Nat))
    BY <1>3, <1>4
  <2>2. SUFFICES ASSUME y < x PROVE FALSE
    OBVIOUS
  <2>3. 1 .. y \subseteq 1 .. x /\ x \in 1 .. x /\ x \notin 1 .. y
    BY <2>2
  <2> QED BY <2>1, <2>3 DEF StrictSubsetOrdering
<1> QED BY <1>5

\* A set with zero and the successors of its members has every number.
LEMMA Induction ==
    ASSUME NEW T, 0 \in T, \A n \in Nat : n \in T => n + 1 \in T
    PROVE  Nat \subseteq T
<1> SUFFICES ASSUME Nat \ T # {} PROVE FALSE
  OBVIOUS
<1>1. PICK x \in Nat \ T : \A y \in Nat \ T : x <= y
  BY LeastNumber
<1>2. x - 1 \in Nat /\ x - 1 \in T
  BY <1>1
<1> QED BY <1>1, <1>2

\* The same up to a bound.
LEMMA InductionUpTo ==
    ASSUME NEW N \in Nat, NEW T, 0 \in T, \A n \in 1 .. N : n - 1 \in T => n \in T
    PROVE  0 .. N \subseteq T
<1> DEFINE U == T \cup {n \in Nat : n > N}
<1>1. 0 \in U
  OBVIOUS
<1>2. ASSUME NEW n \in Nat, n \in U PROVE n + 1 \in U
  BY <1>2
<1>3. Nat \subseteq U
  <2> HIDE DEF U
  <2> QED BY <1>1, <1>2, Induction
<1> QED BY <1>3

\* A set of sequences with the empty one and what appending to its members gives
\* has every sequence.
LEMMA AppendInduction ==
    ASSUME NEW S, NEW T, <<>> \in T, \A s \in Seq(S), e \in S : s \in T => Append(s, e) \in T
    PROVE  Seq(S) \subseteq T
<1> DEFINE U == {n \in Nat : \A s \in Seq(S) : Len(s) = n => s \in T}
<1>1. 0 \in U
  BY EmptySeq
<1>2. ASSUME NEW n \in Nat, n \in U PROVE n + 1 \in U
  <2> SUFFICES ASSUME NEW s \in Seq(S), Len(s) = n + 1 PROVE s \in T
    OBVIOUS
  <2>1. PICK t \in Seq(S), e \in S : s = Append(t, e)
    BY SequenceEmptyOrAppend
  <2>2. Len(t) = n
    BY <2>1, AppendProperties
  <2> QED BY <1>2, <2>1, <2>2
<1>3. Nat \subseteq U
  <2> HIDE DEF U
  <2> QED BY <1>1, <1>2, Induction
<1> QED BY <1>3

\* A function of 0 .. N is defined by its start and its steps.
Recursive(f, b, Step, X, N) ==
    /\ f \in [0 .. N -> X] /\ f[0] = b
    /\ \A n \in 1 .. N : f[n] = Step[n][f[n - 1]]

IsStep(Step, X, N) == Step \in [1 .. N -> [X -> X]]

\* There is such a function.
LEMMA Recursion ==
    ASSUME NEW X, NEW b \in X, NEW N \in Nat, NEW Step, IsStep(Step, X, N)
    PROVE  \E f : Recursive(f, b, Step, X, N)
<1> DEFINE T == {k \in 0 .. N : \E f : Recursive(f, b, Step, X, k)}
<1>1. 0 \in T
  <2>1. Recursive([n \in 0 .. 0 |-> b], b, Step, X, 0)
    BY DEF Recursive
  <2> QED BY <2>1
<1>2. ASSUME NEW k \in 1 .. N, k - 1 \in T PROVE k \in T
  <2>1. PICK f : Recursive(f, b, Step, X, k - 1)
    BY <1>2
  <2> DEFINE g == [n \in 0 .. k |-> IF n = k THEN Step[k][f[k - 1]] ELSE f[n]]
  <2>2. g \in [0 .. k -> X]
    <3>1. f[k - 1] \in X /\ Step[k][f[k - 1]] \in X
      BY <2>1 DEF Recursive, IsStep
    <3>2. \A n \in 0 .. k : n # k => n \in 0 .. (k - 1)
      OBVIOUS
    <3> QED BY <2>1, <3>1, <3>2 DEF Recursive
  <2>3. g[0] = b
    BY <2>1 DEF Recursive
  <2>4. ASSUME NEW n \in 1 .. k PROVE g[n] = Step[n][g[n - 1]]
    <3>1. n - 1 \in 0 .. (k - 1) /\ g[n - 1] = f[n - 1]
      OBVIOUS
    <3> QED BY <2>1, <3>1 DEF Recursive
  <2> HIDE DEF g
  <2>5. Recursive(g, b, Step, X, k)
    BY <2>2, <2>3, <2>4 DEF Recursive
  <2> QED BY <2>5
<1>3. 0 .. N \subseteq T
  <2> HIDE DEF T
  <2> QED BY <1>1, <1>2, InductionUpTo
<1>4. N \in T
  BY <1>3
<1> QED BY <1>4

\* Two functions with the same start and the same steps agree.
SameSteps(f, g, N) ==
    f[0] = g[0] /\ \A n \in 1 .. N : f[n - 1] = g[n - 1] => f[n] = g[n]

\* Two functions with the same start and the same steps agree, by induction.
LEMMA Agree ==
    ASSUME NEW N \in Nat, NEW f, NEW g, SameSteps(f, g, N)
    PROVE  \A n \in 0 .. N : f[n] = g[n]
<1> DEFINE T == {n \in 0 .. N : f[n] = g[n]}
<1>1. 0 \in T /\ \A n \in 1 .. N : n - 1 \in T => n \in T
  BY DEF SameSteps
<1>2. 0 .. N \subseteq T
  <2> HIDE DEF T
  <2> QED BY <1>1, InductionUpTo
<1> QED BY <1>2

-----------------------------------------------------------------------------
(* Sums.                                                                   *)

\* The sums of the prefixes.
Sums(f, s) ==
    /\ f \in [0 .. Len(s) -> Nat] /\ f[0] = 0
    /\ \A n \in 1 .. Len(s) : f[n] = f[n - 1] + s[n]

\* Total is the last sum of the prefixes.
LEMMA TotalDef ==
    ASSUME NEW s \in Seq(Nat)
    PROVE  \E f : Sums(f, s) /\ Total(s) = f[Len(s)]
<1> DEFINE N == Len(s)
           Body(f) == [n \in 0 .. N |-> IF n = 0 THEN 0 ELSE f[n - 1] + s[n]]
           sum == CHOOSE f : f = Body(f)
           Step == [n \in 1 .. N |-> [m \in Nat |-> m + s[n]]]
<1>0. N \in Nat
  OBVIOUS
<1>1. IsStep(Step, Nat, N) /\ 0 \in Nat
  BY DEF IsStep
<1>2. PICK f : Recursive(f, 0, Step, Nat, N)
  <2> HIDE DEF Step, N
  <2> QED BY <1>0, <1>1, Recursion
<1>3. f \in [0 .. N -> Nat] /\ f[0] = 0
  BY <1>2 DEF Recursive
<1>4. ASSUME NEW n \in 1 .. N PROVE f[n] = f[n - 1] + s[n]
  <2> HIDE DEF Step, N
  <2>1. f[n] = Step[n][f[n - 1]] /\ f[n - 1] \in Nat
    BY <1>0, <1>2 DEF Recursive
  <2>2. Step[n][f[n - 1]] = f[n - 1] + s[n]
    BY <2>1 DEF Step
  <2> QED BY <2>1, <2>2
<1>5. f = Body(f)
  BY <1>3, <1>4
<1>6. sum = Body(sum)
  <2> HIDE DEF Body
  <2> QED BY <1>5
<1>7. sum[0] = 0 /\ \A n \in 1 .. N : sum[n] = sum[n - 1] + s[n]
  <2> HIDE DEF sum
  <2> QED BY <1>0, <1>6
<1>8. \A n \in 0 .. N : sum[n] = f[n]
  <2> HIDE DEF sum
  <2>1. SameSteps(sum, f, N)
    BY <1>3, <1>4, <1>7 DEF SameSteps
  <2> QED BY <1>0, <2>1, Agree
<1>9. Total(s) = sum[N]
  BY DEF Total
<1>10. Sums(f, s)
  BY <1>3, <1>4 DEF Sums
<1> HIDE DEF sum
<1> QED BY <1>0, <1>8, <1>9, <1>10

\* The sum of no number, and with one number more.
LEMMA TotalEmpty == Total(<<>>) = 0
<1>1. <<>> \in Seq(Nat) /\ Len(<<>>) = 0
  OBVIOUS
<1>2. PICK f : Sums(f, <<>>) /\ Total(<<>>) = f[Len(<<>>)]
  BY <1>1, TotalDef
<1> QED BY <1>1, <1>2 DEF Sums

\* One number more adds it to the sum.
LEMMA TotalAppend ==
    ASSUME NEW s \in Seq(Nat), NEW x \in Nat
    PROVE  Total(s) \in Nat /\ Total(Append(s, x)) = Total(s) + x
<1> DEFINE t == Append(s, x)
<1>1. t \in Seq(Nat) /\ Len(t) = Len(s) + 1 /\ t[Len(s) + 1] = x /\ \A n \in 1 .. Len(s) : t[n] = s[n]
  BY AppendProperties
<1> HIDE DEF t
<1>2. PICK f : Sums(f, s) /\ Total(s) = f[Len(s)]
  BY TotalDef
<1>3. PICK g : Sums(g, t) /\ Total(t) = g[Len(t)]
  BY <1>1, TotalDef
<1>4. \A n \in 0 .. Len(s) : f[n] = g[n]
  <2>1. f[0] = g[0]
    BY <1>2, <1>3 DEF Sums
  <2>2. ASSUME NEW n \in 1 .. Len(s), f[n - 1] = g[n - 1] PROVE f[n] = g[n]
    <3>1. n \in 1 .. Len(t) /\ t[n] = s[n]
      BY <1>1
    <3> QED BY <1>2, <1>3, <2>2, <3>1 DEF Sums
  <2>3. SameSteps(f, g, Len(s))
    BY <2>1, <2>2 DEF SameSteps
  <2>4. Len(s) \in Nat
    OBVIOUS
  <2> QED BY <2>3, <2>4, Agree
<1>5. Len(s) \in Nat /\ Len(s) \in 0 .. Len(s) /\ Len(t) \in 1 .. Len(t) /\ Len(t) - 1 = Len(s)
  BY <1>1
<1>6. f[Len(s)] \in Nat /\ g[Len(s)] = f[Len(s)]
  BY <1>2, <1>4, <1>5 DEF Sums
<1>7. g[Len(t)] = g[Len(s)] + x
  BY <1>1, <1>3, <1>5 DEF Sums
<1> QED BY <1>2, <1>3, <1>6, <1>7 DEF t

\* The bytes of a list, entry by entry.
LEMMA BytesEmpty == Bytes(<<>>) = 0
<1>1. [i \in DOMAIN <<>> |-> 1 + <<>>[i].value.len] = <<>>
  OBVIOUS
<1> QED BY <1>1, TotalEmpty DEF Bytes

\* An entry adds its name and its value.
LEMMA BytesAppend ==
    ASSUME NEW s \in Seq(Header), NEW e \in Header
    PROVE  Bytes(s) \in Nat /\ Bytes(Append(s, e)) = Bytes(s) + 1 + e.value.len
<1> DEFINE t == Append(s, e)
           a == [i \in DOMAIN s |-> 1 + s[i].value.len]
           c == [i \in DOMAIN t |-> 1 + t[i].value.len]
           N == Len(s)
<1>1. /\ N \in Nat /\ DOMAIN s = 1 .. N /\ DOMAIN t = 1 .. N + 1
      /\ t[N + 1] = e /\ \A i \in 1 .. N : t[i] = s[i]
  BY AppendProperties
<1>2. \A x \in Header : 1 + x.value.len \in Nat
  BY DEF Header
<1>3. a \in Seq(Nat) /\ Len(a) = N
  <2>1. \A i \in 1 .. N : 1 + s[i].value.len \in Nat
    BY <1>1, <1>2
  <2>2. [i \in 1 .. N |-> 1 + s[i].value.len] \in Seq(Nat)
    BY <1>1, <2>1, IsASeq
  <2> QED BY <1>1, <2>2
<1>4. c = Append(a, 1 + e.value.len)
  <2>1. 1 + e.value.len \in Nat
    BY <1>2
  <2>2. /\ Append(a, 1 + e.value.len) \in Seq(Nat) /\ Len(Append(a, 1 + e.value.len)) = N + 1
        /\ \A i \in 1 .. N : Append(a, 1 + e.value.len)[i] = 1 + s[i].value.len
        /\ Append(a, 1 + e.value.len)[N + 1] = 1 + e.value.len
    <3>1. \A i \in 1 .. N : a[i] = 1 + s[i].value.len
      BY <1>1
    <3> HIDE DEF a
    <3> QED BY <1>3, <2>1, <3>1, AppendProperties
  <2>3. \A i \in 1 .. N + 1 : c[i] = Append(a, 1 + e.value.len)[i]
    <3>1. \A i \in 1 .. N : c[i] = 1 + s[i].value.len
      BY <1>1
    <3>2. c[N + 1] = 1 + e.value.len
      BY <1>1
    <3> HIDE DEF a, c
    <3> QED BY <1>1, <2>2, <3>1, <3>2
  <2>4. c \in Seq(Nat) /\ Len(c) = N + 1
    <3>1. \A i \in 1 .. N + 1 : 1 + t[i].value.len \in Nat
      <4>1. \A i \in 1 .. N : s[i] \in Header
        BY <1>1
      <4> HIDE DEF t
      <4> QED BY <1>1, <1>2, <4>1
    <3>2. [i \in 1 .. N + 1 |-> 1 + t[i].value.len] \in Seq(Nat)
      <4> HIDE DEF t
      <4> QED BY <1>1, <3>1, IsASeq
    <3> QED BY <1>1, <3>2
  <2> HIDE DEF a, c
  <2> QED BY <2>2, <2>3, <2>4, SeqEqual
<1>0. Bytes(s) = Total(a) /\ Bytes(t) = Total(c)
  BY DEF Bytes
<1> HIDE DEF a, c
<1>5. Total(a) \in Nat /\ Total(c) = Total(a) + (1 + e.value.len)
  BY <1>2, <1>3, <1>4, TotalAppend
<1>6. e.value.len \in Nat
  BY DEF Header
<1> QED BY <1>0, <1>5, <1>6

-----------------------------------------------------------------------------
(* Dropping names.                                                         *)

\* What Drop keeps of each prefix.
Drops(f, s, names, S) ==
    /\ f \in [0 .. Len(s) -> Seq(S)] /\ f[0] = <<>>
    /\ \A n \in 1 .. Len(s) :
         f[n] = IF s[n].name \in names THEN f[n - 1] ELSE Append(f[n - 1], s[n])

\* Drop is what is kept of the whole list.
LEMMA DropDef ==
    ASSUME NEW S, NEW s \in Seq(S), NEW names
    PROVE  \E f : Drops(f, s, names, S) /\ Drop(s, names) = f[Len(s)]
<1> DEFINE N == Len(s)
           One(t, n) == IF s[n].name \in names THEN t ELSE Append(t, s[n])
           Body(f) == [n \in 0 .. N |-> IF n = 0 THEN <<>> ELSE One(f[n - 1], n)]
           kept == CHOOSE f : f = Body(f)
           Step == [n \in 1 .. N |-> [t \in Seq(S) |-> One(t, n)]]
<1>0. N \in Nat /\ \A n \in 1 .. N : s[n] \in S
  OBVIOUS
<1>1. IsStep(Step, Seq(S), N) /\ <<>> \in Seq(S)
  BY <1>0 DEF IsStep
<1>2. PICK f : Recursive(f, <<>>, Step, Seq(S), N)
  <2> HIDE DEF Step, N
  <2> QED BY <1>0, <1>1, Recursion
<1>3. f \in [0 .. N -> Seq(S)] /\ f[0] = <<>>
  BY <1>2 DEF Recursive
<1>4. ASSUME NEW n \in 1 .. N PROVE f[n] = One(f[n - 1], n)
  <2> HIDE DEF Step, N, One
  <2>1. f[n] = Step[n][f[n - 1]] /\ f[n - 1] \in Seq(S)
    BY <1>0, <1>2 DEF Recursive
  <2>2. Step[n][f[n - 1]] = One(f[n - 1], n)
    BY <2>1 DEF Step
  <2> QED BY <2>1, <2>2
<1>5. f = Body(f)
  <2> HIDE DEF One
  <2> QED BY <1>3, <1>4
<1>6. kept = Body(kept)
  <2> HIDE DEF Body
  <2> QED BY <1>5
<1>7. kept[0] = <<>>
  <2> HIDE DEF kept, N
  <2> QED BY <1>0, <1>6
<1>8. ASSUME NEW n \in 1 .. N PROVE kept[n] = One(kept[n - 1], n)
  <2> HIDE DEF kept, N, One
  <2> QED BY <1>0, <1>6
<1>9. \A n \in 0 .. N : kept[n] = f[n]
  <2> HIDE DEF kept, N, One
  <2>1. SameSteps(kept, f, N)
    BY <1>3, <1>4, <1>7, <1>8 DEF SameSteps
  <2> QED BY <1>0, <2>1, Agree
<1>10. Drop(s, names) = kept[N]
  BY DEF Drop
<1>11. Drop(s, names) = f[Len(s)]
  <2>1. kept[N] = f[N]
    <3> HIDE DEF kept, N
    <3> QED BY <1>0, <1>9
  <2> HIDE DEF kept
  <2> QED BY <1>10, <2>1
<1>12. Drops(f, s, names, S)
  BY <1>3, <1>4 DEF Drops
<1> QED BY <1>11, <1>12

\* Dropping from the empty list, and from one with an entry more.
LEMMA DropEmpty == ASSUME NEW names PROVE Drop(<<>>, names) = <<>>
<1>1. <<>> \in Seq({}) /\ Len(<<>>) = 0
  OBVIOUS
<1>2. PICK f : Drops(f, <<>>, names, {}) /\ Drop(<<>>, names) = f[Len(<<>>)]
  BY <1>1, DropDef
<1>3. f[0] = <<>>
  BY <1>2 DEF Drops
<1> QED BY <1>1, <1>2, <1>3

\* One entry more, dropped or kept.
LEMMA DropAppend ==
    ASSUME NEW S, NEW s \in Seq(S), NEW e \in S, NEW names
    PROVE  /\ Drop(s, names) \in Seq(S)
           /\ Drop(Append(s, e), names) =
                IF e.name \in names THEN Drop(s, names) ELSE Append(Drop(s, names), e)
<1> DEFINE t == Append(s, e)
<1>1. t \in Seq(S) /\ Len(t) = Len(s) + 1 /\ t[Len(s) + 1] = e /\ \A n \in 1 .. Len(s) : t[n] = s[n]
  BY AppendProperties
<1> HIDE DEF t
<1>2. PICK f : Drops(f, s, names, S) /\ Drop(s, names) = f[Len(s)]
  BY DropDef
<1>3. PICK g : Drops(g, t, names, S) /\ Drop(t, names) = g[Len(t)]
  BY <1>1, DropDef
<1>4. \A n \in 0 .. Len(s) : f[n] = g[n]
  <2>1. f[0] = g[0]
    BY <1>2, <1>3 DEF Drops
  <2>2. ASSUME NEW n \in 1 .. Len(s), f[n - 1] = g[n - 1] PROVE f[n] = g[n]
    <3>1. n \in 1 .. Len(t) /\ t[n] = s[n]
      BY <1>1
    <3> QED BY <1>2, <1>3, <2>2, <3>1 DEF Drops
  <2>3. SameSteps(f, g, Len(s))
    BY <2>1, <2>2 DEF SameSteps
  <2>4. Len(s) \in Nat
    OBVIOUS
  <2> QED BY <2>3, <2>4, Agree
<1>5. Len(s) \in Nat /\ Len(s) \in 0 .. Len(s) /\ Len(t) \in 1 .. Len(t) /\ Len(t) - 1 = Len(s)
  BY <1>1
<1>6. f[Len(s)] \in Seq(S) /\ g[Len(s)] = f[Len(s)]
  BY <1>2, <1>4, <1>5 DEF Drops
<1>7. g[Len(t)] = IF e.name \in names THEN g[Len(s)] ELSE Append(g[Len(s)], e)
  BY <1>1, <1>3, <1>5 DEF Drops
<1> QED BY <1>2, <1>3, <1>6, <1>7 DEF t

\* No two entries have one name.
NoRepeat(s) == \A i, j \in 1 .. Len(s) : s[i].name = s[j].name => i = j

\* What is left has none of the names, and is the rest of the list.
LEMMA DropKeeps ==
    ASSUME NEW names
    PROVE  \A s \in Seq(Header) :
             /\ Drop(s, names) \in Seq(Header)
             /\ Len(Drop(s, names)) <= Len(s)
             /\ Range(Drop(s, names)) = {x \in Range(s) : x.name \notin names}
             /\ Bytes(Drop(s, names)) \in Nat /\ Bytes(s) \in Nat
             /\ Bytes(Drop(s, names)) <= Bytes(s)
             /\ NoRepeat(s) => NoRepeat(Drop(s, names))
<1> DEFINE Kept(s, d) ==
             /\ d \in Seq(Header) /\ Len(d) <= Len(s)
             /\ Range(d) = {x \in Range(s) : x.name \notin names}
             /\ Bytes(d) \in Nat /\ Bytes(s) \in Nat /\ Bytes(d) <= Bytes(s)
             /\ NoRepeat(s) => NoRepeat(d)
           T == {s \in Seq(Header) : Kept(s, Drop(s, names))}
<1>1. <<>> \in T
  <2>1. <<>> \in Seq(Header) /\ Len(<<>>) = 0 /\ Range(<<>>) = {}
    BY DEF Range
  <2>2. Range(<<>>) = {x \in Range(<<>>) : x.name \notin names}
    BY <2>1
  <2>3. Kept(<<>>, <<>>)
    BY <2>1, <2>2, BytesEmpty
  <2> HIDE DEF Kept
  <2> QED BY <2>1, <2>3, DropEmpty
<1>2. ASSUME NEW s \in Seq(Header), NEW e \in Header, s \in T PROVE Append(s, e) \in T
  <2> DEFINE d == Drop(s, names)
             t == Append(s, e)
             c == Append(d, e)
  <2>1. Kept(s, d)
    BY <1>2
  <2>2. t \in Seq(Header) /\ Range(t) = Range(s) \cup {e} /\ Len(t) = Len(s) + 1
        /\ t[Len(s) + 1] = e /\ \A i \in 1 .. Len(s) : t[i] = s[i]
    BY AppendProperties DEF Range
  <2>3. c \in Seq(Header) /\ Range(c) = Range(d) \cup {e} /\ Len(c) = Len(d) + 1
        /\ c[Len(d) + 1] = e /\ \A i \in 1 .. Len(d) : c[i] = d[i]
    <3> HIDE DEF d
    <3> QED BY <2>1, AppendProperties DEF Range
  <2>4. /\ Bytes(t) = Bytes(s) + 1 + e.value.len
        /\ Bytes(c) = Bytes(d) + 1 + e.value.len /\ e.value.len \in Nat
    <3> HIDE DEF d
    <3> QED BY <2>1, BytesAppend DEF Header
  <2>5. Drop(t, names) = IF e.name \in names THEN d ELSE c
    BY DropAppend
  <2>6. NoRepeat(t) => NoRepeat(s)
    <3> HIDE DEF t
    <3> QED BY <2>2 DEF NoRepeat
  <2>7. NoRepeat(t) => \A x \in Range(s) : x.name # e.name
    <3> SUFFICES ASSUME NoRepeat(t), NEW i \in 1 .. Len(s) PROVE s[i].name # e.name
      BY DEF Range
    <3>1. i \in 1 .. Len(t) /\ Len(s) + 1 \in 1 .. Len(t) /\ i # Len(s) + 1
      BY <2>2
    <3> HIDE DEF t
    <3> QED BY <2>2, <3>1 DEF NoRepeat
  <2>8. NoRepeat(t) /\ e.name \notin names => NoRepeat(c)
    <3> SUFFICES ASSUME NoRepeat(t), e.name \notin names, NEW i \in 1 .. Len(c), NEW j \in 1 .. Len(c),
                        c[i].name = c[j].name
                 PROVE  i = j
      BY DEF NoRepeat
    <3>1. NoRepeat(d) /\ \A k \in 1 .. Len(d) : d[k].name # e.name
      <4>1. \A k \in 1 .. Len(d) : d[k] \in Range(s)
        <5> HIDE DEF d
        <5>1. \A k \in 1 .. Len(d) : d[k] \in Range(d)
          BY <2>1 DEF Range
        <5> QED BY <2>1, <5>1
      <4> HIDE DEF d, t
      <4> QED BY <2>1, <2>6, <2>7, <4>1
    <3> HIDE DEF d, t, c
    <3>2. Len(d) \in Nat
      BY <2>1
    <3>3. CASE i <= Len(d) /\ j <= Len(d)
      BY <2>3, <3>1, <3>2, <3>3 DEF NoRepeat
    <3>4. CASE ~(i <= Len(d) /\ j <= Len(d))
      BY <2>3, <3>1, <3>2, <3>4
    <3> QED BY <3>3, <3>4
  <2> HIDE DEF d, t, c
  <2>9. CASE e.name \in names
    <3>1. Kept(t, d)
      BY <2>1, <2>2, <2>4, <2>6, <2>9
    <3> QED BY <2>2, <2>5, <2>9, <3>1 DEF t
  <2>10. CASE e.name \notin names
    <3>1. Range(c) = {x \in Range(t) : x.name \notin names}
      BY <2>1, <2>2, <2>3, <2>10
    <3>2. Len(c) <= Len(t)
      BY <2>1, <2>2, <2>3
    <3>3. Kept(t, c)
      BY <2>1, <2>3, <2>4, <2>6, <2>8, <2>10, <3>1, <3>2
    <3> QED BY <2>2, <2>5, <2>10, <3>3 DEF t
  <2> QED BY <2>9, <2>10
<1>3. Seq(Header) \subseteq T
  <2> HIDE DEF T
  <2> QED BY <1>1, <1>2, AppendInduction
<1> QED BY <1>3

-----------------------------------------------------------------------------
(* The caps on the headers of an answer.                                   *)

\* The values a response keeps.
LEMMA StrsTypes ==
    ASSUME NEW raw \in Seq(Header)
    PROVE  ToStrs(raw) \in Seq(Header) /\ Len(ToStrs(raw)) = Len(raw)
<1>1. ASSUME NEW e \in Header PROVE [e EXCEPT !.value = ToStr(e.value)] \in Header
  <2>1. ToStr(e.value) \in [len : Nat, is : Bytewise \cup {"lossy"}]
    BY DEF ToStr, Header, Bytewise
  <2> QED BY <2>1 DEF Header
<1>2. \A i \in 1 .. Len(raw) : [raw[i] EXCEPT !.value = ToStr(raw[i].value)] \in Header
  BY <1>1
<1>3. [i \in 1 .. Len(raw) |-> [raw[i] EXCEPT !.value = ToStr(raw[i].value)]] \in Seq(Header)
  <2>1. Len(raw) \in Nat
    OBVIOUS
  <2> QED BY <1>2, <2>1, IsASeq
<1>4. ToStrs(raw) = [i \in 1 .. Len(raw) |-> [raw[i] EXCEPT !.value = ToStr(raw[i].value)]]
  BY DEF ToStrs
<1> QED BY <1>3, <1>4

\* There is a first entry that a limit refuses, or none.
LEMMA AcceptedOk ==
    ASSUME NEW strs \in Seq(Header)
    PROVE  LET k == Accepted(strs) IN
           /\ k \in 0 .. Len(strs) /\ WithinCaps(strs, k)
           /\ k = Len(strs) \/ ~WithinCaps(strs, k + 1)
<1> DEFINE N == Len(strs)
           T == {k \in 0 .. N : WithinCaps(strs, k)}
           Fits(k) == WithinCaps(strs, k) /\ (k = N \/ ~WithinCaps(strs, k + 1))
<1>1. N \in Nat /\ 0 \in T
  BY DEF WithinCaps
<1>2. \E k \in 0 .. N : Fits(k)
  <2>1. CASE \A k \in 1 .. N : k - 1 \in T => k \in T
    <3>1. 0 .. N \subseteq T
      <4> HIDE DEF T, N
      <4> QED BY <1>1, <2>1, InductionUpTo
    <3>2. N \in T /\ N \in 0 .. N
      BY <1>1, <3>1
    <3>3. Fits(N)
      BY <3>2
    <3> QED BY <3>2, <3>3
  <2>2. CASE ~(\A k \in 1 .. N : k - 1 \in T => k \in T)
    <3>1. PICK k \in 1 .. N : k - 1 \in T /\ k \notin T
      BY <2>2
    <3>2. k - 1 \in 0 .. N /\ (k - 1) + 1 = k
      BY <1>1, <3>1
    <3>3. Fits(k - 1)
      BY <1>1, <3>1, <3>2
    <3> QED BY <3>2, <3>3
  <2> QED BY <2>1, <2>2
<1>3. Accepted(strs) = CHOOSE k \in 0 .. N : Fits(k)
  BY DEF Accepted
<1>4. Accepted(strs) \in 0 .. N /\ Fits(Accepted(strs))
  <2> HIDE DEF Fits
  <2> QED BY <1>2, <1>3
<1> QED BY <1>4

\* The header map after each entry.
Folded(f, strs) ==
    /\ f \in [0 .. Len(strs) -> Seq(Header)] /\ f[0] = <<>>
    /\ \A n \in 1 .. Len(strs) : f[n] = Append(Drop(f[n - 1], {strs[n].name}), strs[n])

\* The capped list is the folding of the accepted entries.
LEMMA CapDef ==
    ASSUME NEW raw \in Seq(Header)
    PROVE  \E f : /\ Folded(f, ToStrs(raw))
                  /\ CapResponseHeaders(raw) = f[Accepted(ToStrs(raw))]
<1> DEFINE N == Len(raw)
           strs == ToStrs(raw)
           One(t, n) == Append(Without(t, strs[n].name), strs[n])
           Body(f) == [n \in 0 .. N |-> IF n = 0 THEN <<>> ELSE One(f[n - 1], n)]
           map == CHOOSE f : f = Body(f)
           Step == [n \in 1 .. N |-> [t \in Seq(Header) |-> One(t, n)]]
<1>0. N \in Nat /\ strs \in Seq(Header) /\ Len(strs) = N
  BY StrsTypes
<1>1. IsStep(Step, Seq(Header), N) /\ <<>> \in Seq(Header)
  <2>1. ASSUME NEW n \in 1 .. N, NEW t \in Seq(Header) PROVE One(t, n) \in Seq(Header)
    <3> HIDE DEF strs, N
    <3>1. strs[n] \in Header
      BY <1>0
    <3>2. Drop(t, {strs[n].name}) \in Seq(Header)
      BY DropKeeps
    <3> QED BY <3>1, <3>2, AppendProperties DEF Without
  <2> HIDE DEF One, N
  <2> QED BY <2>1 DEF IsStep
<1>2. PICK f : Recursive(f, <<>>, Step, Seq(Header), N)
  <2> HIDE DEF Step, N
  <2> QED BY <1>0, <1>1, Recursion
<1>3. f \in [0 .. N -> Seq(Header)] /\ f[0] = <<>>
  BY <1>2 DEF Recursive
<1>4. ASSUME NEW n \in 1 .. N PROVE f[n] = One(f[n - 1], n)
  <2> HIDE DEF Step, N, One
  <2>1. f[n] = Step[n][f[n - 1]] /\ f[n - 1] \in Seq(Header)
    BY <1>0, <1>2 DEF Recursive
  <2>2. Step[n][f[n - 1]] = One(f[n - 1], n)
    BY <2>1 DEF Step
  <2> QED BY <2>1, <2>2
<1>5. f = Body(f)
  <2> HIDE DEF One
  <2> QED BY <1>3, <1>4
<1>6. map = Body(map)
  <2> HIDE DEF Body
  <2> QED BY <1>5
<1>7. map[0] = <<>>
  <2> HIDE DEF map, N
  <2> QED BY <1>0, <1>6
<1>8. ASSUME NEW n \in 1 .. N PROVE map[n] = One(map[n - 1], n)
  <2> HIDE DEF map, N, One
  <2> QED BY <1>0, <1>6
<1>9. \A n \in 0 .. N : map[n] = f[n]
  <2> HIDE DEF map, N, One
  <2>1. SameSteps(map, f, N)
    BY <1>3, <1>4, <1>7, <1>8 DEF SameSteps
  <2> QED BY <1>0, <2>1, Agree
<1>10. CapResponseHeaders(raw) = map[Accepted(strs)]
  BY DEF CapResponseHeaders
<1>11. CapResponseHeaders(raw) = f[Accepted(strs)]
  <2> HIDE DEF map, strs, N
  <2>1. Accepted(strs) \in 0 .. N
    BY <1>0, AcceptedOk
  <2> QED BY <1>9, <1>10, <2>1
<1>12. Folded(f, strs)
  <2>1. \A n \in 1 .. N : f[n] = Append(Drop(f[n - 1], {strs[n].name}), strs[n])
    BY <1>4 DEF Without
  <2> HIDE DEF strs, N
  <2> QED BY <1>0, <1>3, <2>1 DEF Folded
<1> QED BY <1>11, <1>12

NamesOf(s) == {s[i].name : i \in DOMAIN s}

\* The last of each name, with an entry more.
LEMMA LastAppend ==
    ASSUME NEW s \in Seq(Header), NEW e \in Header
    PROVE  /\ LastOfEach(Append(s, e)) = {x \in LastOfEach(s) : x.name # e.name} \cup {e}
           /\ NamesOf(Append(s, e)) = NamesOf(s) \cup {e.name}
<1> DEFINE t == Append(s, e)
           N == Len(s)
           Latest(u) == {i \in DOMAIN u : \A j \in DOMAIN u : u[j].name = u[i].name => j <= i}
<1>1. /\ N \in Nat /\ DOMAIN s = 1 .. N /\ DOMAIN t = 1 .. N + 1
      /\ t[N + 1] = e /\ \A i \in 1 .. N : t[i] = s[i]
  BY AppendProperties
<1> HIDE DEF t, N
<1>2. N + 1 \in Latest(t)
  BY <1>1
<1>3. \A i \in 1 .. N : i \in Latest(t) <=> i \in Latest(s) /\ s[i].name # e.name
  <2> TAKE i \in 1 .. N
  <2>1. ASSUME i \in Latest(t) PROVE i \in Latest(s) /\ s[i].name # e.name
    BY <1>1, <2>1
  <2>2. ASSUME i \in Latest(s), s[i].name # e.name PROVE i \in Latest(t)
    BY <1>1, <2>2
  <2> QED BY <2>1, <2>2
<1>4. LastOfEach(t) = {t[i] : i \in Latest(t)} /\ LastOfEach(s) = {s[i] : i \in Latest(s)}
  BY DEF LastOfEach
<1>5. Latest(t) \subseteq 1 .. N + 1 /\ Latest(s) \subseteq 1 .. N
  BY <1>1
<1> HIDE DEF Last
<1>6. ASSUME NEW x PROVE x \in LastOfEach(t) <=> x \in {y \in LastOfEach(s) : y.name # e.name} \cup {e}
  <2>1. ASSUME x \in LastOfEach(t) PROVE x \in {y \in LastOfEach(s) : y.name # e.name} \cup {e}
    <3>1. PICK i \in Latest(t) : x = t[i]
      BY <1>4, <2>1
    <3>2. CASE i = N + 1
      BY <1>1, <3>1, <3>2
    <3>3. CASE i # N + 1
      <4>1. i \in 1 .. N
        BY <1>1, <1>5, <3>3
      <4> QED BY <1>1, <1>3, <1>4, <3>1, <4>1
    <3> QED BY <3>2, <3>3
  <2>2. ASSUME x \in {y \in LastOfEach(s) : y.name # e.name} PROVE x \in LastOfEach(t)
    <3>1. PICK i \in Latest(s) : x = s[i]
      BY <1>4, <2>2
    <3> QED BY <1>1, <1>3, <1>4, <1>5, <2>2, <3>1
  <2>3. e \in LastOfEach(t)
    BY <1>1, <1>2, <1>4
  <2> QED BY <2>1, <2>2, <2>3
<1>7. NamesOf(t) = NamesOf(s) \cup {e.name}
  BY <1>1 DEF NamesOf
<1> QED BY <1>6, <1>7 DEF t

\* A list without repeated names counts its entries.
LEMMA CountNames ==
    ASSUME NEW s \in Seq(Header), NoRepeat(s)
    PROVE  Cardinality(Range(s)) = Len(s) /\ Cardinality(NamesOf(s)) = Len(s)
<1>1. Len(s) \in Nat /\ IsFiniteSet(1 .. Len(s)) /\ Cardinality(1 .. Len(s)) = Len(s)
  <2>1. Len(s) \in Nat
    OBVIOUS
  <2> QED BY <2>1, FS_Interval
<1>2. ExistsBijection(1 .. Len(s), Range(s))
  <2> DEFINE f == [i \in 1 .. Len(s) |-> s[i]]
  <2>1. f \in Bijection(1 .. Len(s), Range(s))
    <3>1. \A i, j \in 1 .. Len(s) : s[i] = s[j] => i = j
      BY DEF NoRepeat
    <3> QED BY <3>1 DEF Bijection, Injection, Surjection, IsInjective, Range
  <2> QED BY <2>1 DEF ExistsBijection
<1>3. ExistsBijection(1 .. Len(s), NamesOf(s))
  <2> DEFINE f == [i \in 1 .. Len(s) |-> s[i].name]
  <2>1. f \in Bijection(1 .. Len(s), NamesOf(s))
    BY DEF NoRepeat, NamesOf, Bijection, Injection, Surjection, IsInjective
  <2> QED BY <2>1 DEF ExistsBijection
<1> QED BY <1>1, <1>2, <1>3, FS_Bijection

\* After each entry the map has the last value of each name so far, and no more bytes.
LEMMA FoldedKeeps ==
    ASSUME NEW strs \in Seq(Header), NEW f, Folded(f, strs)
    PROVE  \A n \in 0 .. Len(strs) :
             LET t == SubSeq(strs, 1, n) IN
             /\ f[n] \in Seq(Header) /\ NoRepeat(f[n])
             /\ Range(f[n]) = LastOfEach(t) /\ NamesOf(f[n]) = NamesOf(t)
             /\ Bytes(f[n]) \in Nat /\ Bytes(t) \in Nat /\ Bytes(f[n]) <= Bytes(t)
<1> DEFINE N == Len(strs)
           Kept(m, t) ==
             /\ m \in Seq(Header) /\ NoRepeat(m)
             /\ Range(m) = LastOfEach(t) /\ NamesOf(m) = NamesOf(t)
             /\ Bytes(m) \in Nat /\ Bytes(t) \in Nat /\ Bytes(m) <= Bytes(t)
           T == {n \in 0 .. N : Kept(f[n], SubSeq(strs, 1, n))}
<1>1. 0 \in T
  <2>1. N \in Nat /\ SubSeq(strs, 1, 0) = <<>> /\ f[0] = <<>>
    BY SubSeqEmpty DEF Folded
  <2>2. <<>> \in Seq(Header) /\ Len(<<>>) = 0 /\ DOMAIN <<>> = {}
    OBVIOUS
  <2>3. Range(<<>>) = {} /\ NamesOf(<<>>) = {} /\ LastOfEach(<<>>) = {} /\ NoRepeat(<<>>)
    BY <2>2 DEF Range, NamesOf, LastOfEach, NoRepeat
  <2>4. Bytes(<<>>) \in Nat /\ Bytes(<<>>) <= Bytes(<<>>)
    BY BytesEmpty
  <2>5. Kept(<<>>, <<>>)
    BY <2>2, <2>3, <2>4
  <2>6. Kept(f[0], SubSeq(strs, 1, 0))
    <3> HIDE DEF Kept
    <3> QED BY <2>1, <2>5
  <2> HIDE DEF Kept
  <2> QED BY <2>6
<1>2. ASSUME NEW n \in 1 .. N, n - 1 \in T PROVE n \in T
  <2> DEFINE m == f[n - 1]
             t == SubSeq(strs, 1, n - 1)
             e == strs[n]
             d == Drop(m, {e.name})
  <2>1. N \in Nat /\ n - 1 \in 0 .. N /\ e \in Header
    OBVIOUS
  <2>2. Kept(m, t)
    BY <1>2
  <2>3. t \in Seq(Header) /\ SubSeq(strs, 1, n) = Append(t, e)
    <3>1. t \in Seq(Header)
      BY SubSeqProperties
    <3>2. SubSeq(strs, 1, n) = t \o <<e>>
      <4>1. 1 \in 1 .. Len(strs) /\ n \in 1 .. Len(strs)
        OBVIOUS
      <4> QED BY <4>1, SubSeqRecursiveSecond
    <3> HIDE DEF t, e
    <3> QED BY <2>1, <3>1, <3>2, AppendIsConcat
  <2>4. f[n] = Append(d, e)
    BY DEF Folded
  <2>5. /\ d \in Seq(Header) /\ Len(d) <= Len(m) /\ NoRepeat(d)
        /\ Range(d) = {x \in Range(m) : x.name # e.name}
        /\ Bytes(d) \in Nat /\ Bytes(d) <= Bytes(m)
    <3>1. m \in Seq(Header) /\ NoRepeat(m)
      BY <2>2
    <3> HIDE DEF m, e, Kept
    <3> QED BY <3>1, DropKeeps
  <2> DEFINE c == Append(d, e)
  <2> HIDE DEF m, t, e, d, N
  <2>6. /\ c \in Seq(Header) /\ Len(c) = Len(d) + 1 /\ c[Len(d) + 1] = e
        /\ \A i \in 1 .. Len(d) : c[i] = d[i]
    BY <2>1, <2>5, AppendProperties
  <2>7. Range(c) = Range(d) \cup {e} /\ NamesOf(c) = NamesOf(d) \cup {e.name}
    <3>1. DOMAIN c = 1 .. Len(d) + 1 /\ DOMAIN d = 1 .. Len(d) /\ Len(d) \in Nat
      BY <2>5, <2>6
    <3> HIDE DEF c
    <3> QED BY <2>6, <3>1 DEF Range, NamesOf
  <2>8. \A s \in Seq(Header) : NamesOf(s) = {x.name : x \in Range(s)}
    BY DEF NamesOf, Range
  <2>9. Range(c) = LastOfEach(Append(t, e)) /\ NamesOf(c) = NamesOf(Append(t, e))
    <3>1. /\ LastOfEach(Append(t, e)) = {x \in LastOfEach(t) : x.name # e.name} \cup {e}
          /\ NamesOf(Append(t, e)) = NamesOf(t) \cup {e.name}
      BY <2>1, <2>3, LastAppend
    <3>2. NamesOf(d) \cup {e.name} = NamesOf(m) \cup {e.name}
      BY <2>2, <2>5, <2>8
    <3> HIDE DEF c
    <3> QED BY <2>2, <2>5, <2>7, <3>1, <3>2
  <2>10. /\ Bytes(c) = Bytes(d) + 1 + e.value.len /\ e.value.len \in Nat
         /\ Bytes(Append(t, e)) = Bytes(t) + 1 + e.value.len /\ Bytes(t) \in Nat
    BY <2>1, <2>3, <2>5, BytesAppend DEF Header
  <2>11. NoRepeat(c)
    <3> SUFFICES ASSUME NEW i \in 1 .. Len(c), NEW j \in 1 .. Len(c), c[i].name = c[j].name
                 PROVE  i = j
      BY DEF NoRepeat
    <3>1. \A k \in 1 .. Len(d) : d[k].name # e.name
      <4>1. \A k \in 1 .. Len(d) : d[k] \in Range(d)
        BY <2>5 DEF Range
      <4> QED BY <2>5, <4>1
    <3> HIDE DEF c
    <3>2. Len(d) \in Nat
      BY <2>5
    <3>3. CASE i <= Len(d) /\ j <= Len(d)
      BY <2>5, <2>6, <3>2, <3>3 DEF NoRepeat
    <3>4. CASE ~(i <= Len(d) /\ j <= Len(d))
      BY <2>6, <3>1, <3>2, <3>4
    <3> QED BY <3>3, <3>4
  <2>12. Bytes(c) \in Nat /\ Bytes(Append(t, e)) \in Nat /\ Bytes(c) <= Bytes(Append(t, e))
    <3> HIDE DEF c
    <3> QED BY <2>2, <2>5, <2>10
  <2>13. Kept(c, Append(t, e))
    <3> HIDE DEF c
    <3> QED BY <2>6, <2>9, <2>11, <2>12
  <2>14. Kept(f[n], SubSeq(strs, 1, n))
    <3> HIDE DEF Kept
    <3> QED BY <2>3, <2>4, <2>13 DEF t
  <2> HIDE DEF Kept
  <2> QED BY <2>14
<1>3. 0 .. N \subseteq T
  <2>1. N \in Nat
    OBVIOUS
  <2> HIDE DEF T, N
  <2> QED BY <1>1, <1>2, <2>1, InductionUpTo
<1> QED BY <1>3

\* The list counts its names, those of the map.
LEMMA DistinctNames ==
    ASSUME NEW strs \in Seq(Header), NEW f, Folded(f, strs), NEW n \in 0 .. Len(strs)
    PROVE  /\ f[n] \in Seq(Header) /\ Len(f[n]) = Distinct(SubSeq(strs, 1, n))
           /\ Len(f[n]) = Cardinality(Range(f[n]))
           /\ n > 0 => Len(f[n]) <= Len(f[n - 1]) + 1
<1>1. f[n] \in Seq(Header) /\ NoRepeat(f[n]) /\ NamesOf(f[n]) = NamesOf(SubSeq(strs, 1, n))
  BY FoldedKeeps
<1>2. Len(f[n]) = Cardinality(NamesOf(f[n])) /\ Len(f[n]) = Cardinality(Range(f[n]))
  BY <1>1, CountNames
<1>3. Distinct(SubSeq(strs, 1, n)) = Cardinality(NamesOf(SubSeq(strs, 1, n)))
  BY DEF Distinct, NamesOf
<1>4. ASSUME n > 0 PROVE Len(f[n]) <= Len(f[n - 1]) + 1
  <2> DEFINE m == f[n - 1]
             e == strs[n]
  <2>1. n \in 1 .. Len(strs) /\ n - 1 \in 0 .. Len(strs) /\ e \in Header
    BY <1>4
  <2>2. m \in Seq(Header)
    BY <2>1, FoldedKeeps
  <2>3. f[n] = Append(Drop(m, {e.name}), e)
    BY <2>1 DEF Folded
  <2> HIDE DEF m, e
  <2>4. Drop(m, {e.name}) \in Seq(Header) /\ Len(Drop(m, {e.name})) <= Len(m)
    BY <2>2, DropKeeps
  <2>5. Len(f[n]) = Len(Drop(m, {e.name})) + 1
    BY <2>1, <2>3, <2>4, AppendProperties
  <2>6. Len(m) \in Nat /\ Len(Drop(m, {e.name})) \in Nat
    BY <2>2, <2>4
  <2>7. Len(f[n]) <= Len(m) + 1
    BY <2>4, <2>5, <2>6
  <2> QED BY <2>7 DEF m
<1> QED BY <1>1, <1>2, <1>3, <1>4

\* What cap_response_headers keeps of an answer (http.rs:245).
LEMMA CapKeeps ==
    ASSUME NEW raw \in Seq(Header)
    PROVE  LET kept == CapResponseHeaders(raw)
               strs == ToStrs(raw)
           IN  /\ kept \in Seq(Header)
               /\ Len(kept) <= MaxCount /\ Bytes(kept) <= MaxBytes
               /\ \E k \in 0 .. Len(strs) :
                    /\ Range(kept) = LastOfEach(SubSeq(strs, 1, k)) /\ Len(kept) = Cardinality(Range(kept))
                    /\ \/ k = Len(strs)
                       \/ Len(kept) = MaxCount
                       \/ Bytes(SubSeq(strs, 1, k + 1)) > MaxBytes
<1> DEFINE kept == CapResponseHeaders(raw)
           strs == ToStrs(raw)
           k == Accepted(strs)
<1>1. strs \in Seq(Header)
  BY StrsTypes
<1>2. PICK f : Folded(f, strs) /\ kept = f[k]
  BY CapDef
<1> HIDE DEF strs, kept
<1>3. /\ k \in 0 .. Len(strs) /\ WithinCaps(strs, k)
      /\ k = Len(strs) \/ ~WithinCaps(strs, k + 1)
  BY <1>1, AcceptedOk
<1> HIDE DEF k
<1>4. /\ kept \in Seq(Header) /\ Range(kept) = LastOfEach(SubSeq(strs, 1, k))
      /\ Bytes(kept) \in Nat /\ Bytes(SubSeq(strs, 1, k)) \in Nat
      /\ Bytes(kept) <= Bytes(SubSeq(strs, 1, k))
  BY <1>1, <1>2, <1>3, FoldedKeeps
<1>5. Len(kept) = Distinct(SubSeq(strs, 1, k)) /\ Len(kept) = Cardinality(Range(kept)) /\ Len(kept) \in Nat
  BY <1>1, <1>2, <1>3, <1>4, DistinctNames
<1>6. MaxCount \in Nat /\ MaxBytes \in Nat /\ Len(strs) \in Nat /\ k \in Nat
  BY <1>1, <1>3, FieldsAssumption
<1>7. Len(kept) <= MaxCount /\ Bytes(kept) <= MaxBytes
  <2>1. CASE k = 0
    <3>1. f[0] = <<>> /\ kept = <<>>
      BY <1>2, <2>1 DEF Folded
    <3> QED BY <1>6, <3>1, BytesEmpty
  <2>2. CASE k > 0
    <3>1. k \in 1 .. k /\ k - 1 \in 0 .. Len(strs)
      BY <1>3, <1>6, <2>2
    <3>2. Distinct(SubSeq(strs, 1, k - 1)) < MaxCount /\ Bytes(SubSeq(strs, 1, k)) <= MaxBytes
      BY <1>3, <3>1 DEF WithinCaps
    <3>3. f[k - 1] \in Seq(Header) /\ Len(f[k - 1]) = Distinct(SubSeq(strs, 1, k - 1))
      BY <1>1, <1>2, <3>1, DistinctNames
    <3>4. Len(f[k]) <= Len(f[k - 1]) + 1
      BY <1>1, <1>2, <1>3, <2>2, DistinctNames
    <3>5. Len(f[k - 1]) \in Nat
      BY <3>3
    <3> QED BY <1>2, <1>4, <1>5, <1>6, <3>2, <3>3, <3>4, <3>5
  <2> QED BY <1>6, <2>1, <2>2
<1>8. k = Len(strs) \/ Len(kept) = MaxCount \/ Bytes(SubSeq(strs, 1, k + 1)) > MaxBytes
  <2> SUFFICES ASSUME k # Len(strs), ~(Bytes(SubSeq(strs, 1, k + 1)) > MaxBytes)
               PROVE  Len(kept) = MaxCount
    OBVIOUS
  <2>1. k + 1 \in 0 .. Len(strs)
    BY <1>3, <1>6
  <2>2. Bytes(SubSeq(strs, 1, k + 1)) \in Nat
    BY <1>1, <1>2, <2>1, FoldedKeeps
  <2>3. PICK j \in 1 .. k + 1 :
           ~(Distinct(SubSeq(strs, 1, j - 1)) < MaxCount /\ Bytes(SubSeq(strs, 1, j)) <= MaxBytes)
    BY <1>3 DEF WithinCaps
  <2>4. j = k + 1
    <3> SUFFICES ASSUME j # k + 1 PROVE FALSE
      OBVIOUS
    <3>1. j \in 1 .. k
      BY <1>6
    <3> QED BY <1>3, <2>3, <3>1 DEF WithinCaps
  <2>5. j - 1 = k
    BY <1>6, <2>4
  <2>6. ~(Distinct(SubSeq(strs, 1, k)) < MaxCount)
    BY <1>6, <2>2, <2>3, <2>4, <2>5
  <2> QED BY <1>5, <1>6, <1>7, <2>6
<1> QED BY <1>3, <1>4, <1>5, <1>7, <1>8 DEF kept, strs

-----------------------------------------------------------------------------
(* Requests and answers.                                                   *)

Map == [entries : Seq(Header), immutable : BOOLEAN]
Built == [state : {"built"}, fields : Maps \cup Requests]
Sending == [state : {"sending"}, fields : Maps \cup Requests, guestHeaders : Seq(Header)]
AnswerOk == [state : {"ok"}, headers : Seq(Header), body : Nat, server : Nat]

\* Type invariant.
FieldsTypeOK ==
    /\ fields \in [Maps \cup Requests -> Map]
    /\ request \in [Requests -> {Nothing} \cup Built \cup Sending \cup [state : {"done"}]]
    /\ sent \in [Requests -> Seq(Header)]
    /\ response \in [Requests -> {Nothing} \cup AnswerOk \cup [state : {"error"}]]

\* What was sent stays, and was sent by a request that is past handle().
SentOnce ==
    \A r \in Requests : sent[r] # <<>> => request[r].state \in {"sending", "done"}

\* An answer ends its request, and its map is what the caps kept, for ever.
AnswerStays ==
    \A r \in Requests :
      /\ response[r] # Nothing => request[r].state = "done"
      /\ response[r].state = "ok" =>
           /\ fields[r] = [entries |-> CapResponseHeaders(response[r].headers), immutable |-> TRUE]
           /\ response[r].body = response[r].server

FieldsInv == FieldsTypeOK /\ SentOnce /\ SentAsHandled /\ AnswerStays

\* Values of the guest and of servers are headers.
LEMMA GuestHeader ==
    ASSUME NEW n \in Names, NEW v \in Values
    PROVE  [name |-> n, value |-> v] \in Header
  BY FieldsAssumption DEF Header

\* Before the guest runs.
LEMMA FieldsStart == FieldsInit => FieldsInv
<1> SUFFICES ASSUME FieldsInit PROVE FieldsInv OBVIOUS
<1>1. NoMap \in Map
  BY DEF NoMap, Map
<1>2. FieldsTypeOK
  BY <1>1 DEF FieldsInit, FieldsTypeOK
<1>3. SentOnce /\ SentAsHandled
  BY DEF FieldsInit, SentOnce, SentAsHandled
<1>4. AnswerStays
  BY DEF FieldsInit, AnswerStays, Nothing
<1> QED BY <1>2, <1>3, <1>4 DEF FieldsInv

\* A change of a map that is not immutable.
LEMMA MapChange ==
    ASSUME FieldsInv, NEW m \in Maps \cup Requests, m \in Maps \/ ~fields[m].immutable,
           NEW map \in Map, fields' = [fields EXCEPT ![m] = map], UNCHANGED <<request, sent, response>>
    PROVE  FieldsInv'
<1>1. FieldsTypeOK'
  BY DEF FieldsInv, FieldsTypeOK
<1>2. SentOnce' /\ SentAsHandled'
  BY DEF FieldsInv, SentOnce, SentAsHandled
<1>3. AnswerStays'
  <2> SUFFICES ASSUME NEW r \in Requests, response[r].state = "ok" PROVE fields'[r] = fields[r]
    BY DEF FieldsInv, AnswerStays
  <2>1. fields[r].immutable
    <3>1. fields[r] = [entries |-> CapResponseHeaders(response[r].headers), immutable |-> TRUE]
      BY DEF FieldsInv, AnswerStays
    <3> QED BY <3>1
  <2>2. r # m
    BY <2>1, FieldsAssumption
  <2> QED BY <2>2 DEF FieldsInv, FieldsTypeOK
<1> QED BY <1>1, <1>2, <1>3 DEF FieldsInv

\* from_list, set, delete and append.
LEMMA MapsKeep ==
    ASSUME FieldsInv,
           \/ \E m \in Maps, list \in Lists : FromList(m, list)
           \/ \E m \in Reachable, n \in Names :
                \/ Delete(m, n)
                \/ \E v \in Values : AppendHeader(m, n, v) \/ Set(m, n, <<v>>) \/ Set(m, n, <<v, v>>)
    PROVE  FieldsInv'
<1>1. ASSUME NEW m \in Maps, NEW list \in Lists, FromList(m, list) PROVE FieldsInv'
  <2>1. list \in Seq(Header)
    <3>1. CASE list = <<>>
      BY <3>1
    <3>2. CASE list # <<>>
      <4>1. PICK n \in Names, v \in Values : list = <<[name |-> n, value |-> v]>>
        BY <3>2 DEF Lists
      <4>2. [name |-> n, value |-> v] \in Header
        BY GuestHeader
      <4> DEFINE e == [name |-> n, value |-> v]
      <4> HIDE DEF e
      <4>3. <<e>> \in Seq(Header)
        BY <4>2 DEF e
      <4> QED BY <4>1, <4>3 DEF e
    <3> QED BY <3>1, <3>2
  <2>2. [entries |-> list, immutable |-> FALSE] \in Map
    BY <2>1 DEF Map
  <2> QED BY <1>1, <2>2, MapChange DEF FromList
<1>2. ASSUME NEW m \in Reachable, NEW entries \in Seq(Header), ~fields[m].immutable,
             fields' = [fields EXCEPT ![m].entries = entries], UNCHANGED <<request, sent, response>>
      PROVE  FieldsInv'
  <2>1. m \in Maps \cup Requests
    BY DEF Reachable
  <2>2. fields[m] \in Map
    BY <2>1 DEF FieldsInv, FieldsTypeOK
  <2>3. [fields[m] EXCEPT !.entries = entries] \in Map
    BY <2>2 DEF Map
  <2>4. fields' = [fields EXCEPT ![m] = [fields[m] EXCEPT !.entries = entries]]
    BY <1>2
  <2> QED BY <1>2, <2>1, <2>3, <2>4, MapChange
<1>3. ASSUME NEW m \in Reachable PROVE fields[m].entries \in Seq(Header)
  BY DEF Reachable, FieldsInv, FieldsTypeOK, Map
<1>4. ASSUME NEW m \in Reachable, NEW n \in Names PROVE Without(fields[m].entries, n) \in Seq(Header)
  BY <1>3, DropKeeps DEF Without
<1>5. ASSUME NEW m \in Reachable, NEW n \in Names, Delete(m, n) PROVE FieldsInv'
  BY <1>2, <1>4, <1>5 DEF Delete
<1>6. ASSUME NEW m \in Reachable, NEW n \in Names, NEW v \in Values, AppendHeader(m, n, v) PROVE FieldsInv'
  <2>1. Append(fields[m].entries, [name |-> n, value |-> v]) \in Seq(Header)
    BY <1>3, GuestHeader, AppendProperties
  <2> QED BY <1>2, <1>6, <2>1 DEF AppendHeader
<1>7. ASSUME NEW m \in Reachable, NEW n \in Names, NEW values \in Seq(Values), Set(m, n, values)
      PROVE  FieldsInv'
  <2> DEFINE added == [i \in DOMAIN values |-> [name |-> n, value |-> values[i]]]
  <2>1. added \in Seq(Header)
    <3>1. Len(values) \in Nat /\ \A i \in 1 .. Len(values) : [name |-> n, value |-> values[i]] \in Header
      BY GuestHeader
    <3>2. [i \in 1 .. Len(values) |-> [name |-> n, value |-> values[i]]] \in Seq(Header)
      BY <3>1, IsASeq
    <3> QED BY <3>2
  <2> HIDE DEF added
  <2>2. Without(fields[m].entries, n) \o added \in Seq(Header)
    BY <1>4, <2>1, ConcatProperties
  <2>3. /\ ~fields[m].immutable /\ UNCHANGED <<request, sent, response>>
        /\ fields' = [fields EXCEPT ![m].entries = Without(fields[m].entries, n) \o added]
    BY <1>7 DEF Set, added
  <2> QED BY <1>2, <2>2, <2>3
<1>8. \A v \in Values : <<v>> \in Seq(Values) /\ <<v, v>> \in Seq(Values)
  OBVIOUS
<1> QED BY <1>1, <1>5, <1>6, <1>7, <1>8

\* outgoing-request.new and handle() send nothing yet.
LEMMA RequestKeeps ==
    ASSUME FieldsInv, NEW r \in Requests,
           (\E m \in Reachable : NewRequest(r, m)) \/ Handle(r)
    PROVE  FieldsInv'
<1>1. ASSUME NEW new \in Built \cup Sending, request[r].state \in {"none", "built"},
             request' = [request EXCEPT ![r] = new], UNCHANGED <<fields, sent, response>>
      PROVE  FieldsInv'
  <2>1. FieldsTypeOK'
    BY <1>1 DEF FieldsInv, FieldsTypeOK
  <2>2. sent[r] = <<>> /\ response[r] = Nothing
    BY <1>1 DEF FieldsInv, SentOnce, AnswerStays
  <2>3. \A q \in Requests \ {r} : request'[q] = request[q]
    BY <1>1 DEF FieldsInv, FieldsTypeOK
  <2>4. SentOnce' /\ SentAsHandled'
    BY <1>1, <2>2, <2>3 DEF FieldsInv, SentOnce, SentAsHandled
  <2>5. AnswerStays'
    BY <1>1, <2>2, <2>3 DEF FieldsInv, AnswerStays, Nothing
  <2> QED BY <2>1, <2>4, <2>5 DEF FieldsInv
<1>2. ASSUME NEW m \in Reachable, NewRequest(r, m) PROVE FieldsInv'
  <2>1. [state |-> "built", fields |-> m] \in Built
    BY DEF Reachable, Built
  <2>2. request[r].state = "none"
    BY <1>2 DEF NewRequest, Nothing
  <2> QED BY <1>1, <1>2, <2>1, <2>2 DEF NewRequest
<1>3. CASE Handle(r)
  <2> DEFINE m == request[r].fields
             entries == fields[m].entries
             headers == [i \in DOMAIN entries |-> [entries[i] EXCEPT !.value = Lossy(entries[i].value)]]
  <2>1. request[r].state = "built"
    BY <1>3 DEF Handle
  <2>2. m \in Maps \cup Requests
    BY <2>1 DEF Nothing, Built, Sending, FieldsInv, FieldsTypeOK
  <2>3. entries \in Seq(Header)
    BY <2>2 DEF Map, FieldsInv, FieldsTypeOK
  <2>4. ASSUME NEW e \in Header PROVE [e EXCEPT !.value = Lossy(e.value)] \in Header
    <3>1. Lossy(e.value) \in [len : Nat, is : Bytewise \cup {"lossy"}]
      BY DEF Lossy, Header
    <3> QED BY <3>1 DEF Header
  <2> HIDE DEF entries
  <2>5. headers \in Seq(Header)
    <3>1. Len(entries) \in Nat /\ DOMAIN entries = 1 .. Len(entries)
          /\ \A i \in 1 .. Len(entries) : entries[i] \in Header
      BY <2>3
    <3>2. \A i \in 1 .. Len(entries) : [entries[i] EXCEPT !.value = Lossy(entries[i].value)] \in Header
      BY <2>4, <3>1
    <3>3. [i \in 1 .. Len(entries) |-> [entries[i] EXCEPT !.value = Lossy(entries[i].value)]] \in Seq(Header)
      BY <3>1, <3>2, IsASeq
    <3> QED BY <3>1, <3>3
  <2>6. /\ request' = [request EXCEPT ![r] = [state |-> "sending", fields |-> m, guestHeaders |-> headers]]
        /\ UNCHANGED <<fields, sent, response>>
    BY <1>3 DEF Handle, entries
  <2> HIDE DEF headers, m
  <2>7. [state |-> "sending", fields |-> m, guestHeaders |-> headers] \in Sending
    BY <2>2, <2>5 DEF Sending
  <2> QED BY <1>1, <2>1, <2>6, <2>7
<1> QED BY <1>2, <1>3

\* What leaves: the host of the URL, and the headers of handle() that are allowed.
LEMMA SendKeeps == ASSUME FieldsInv, NEW r \in Requests, Send(r) PROVE FieldsInv'
<1> DEFINE headers == request[r].guestHeaders
           rest == Drop(headers, Forbidden)
           first == [name |-> Host, value |-> Authority]
           leaving == <<first>> \o rest
<1>1. request[r].state = "sending" /\ sent' = [sent EXCEPT ![r] = leaving]
      /\ UNCHANGED <<fields, request, response>>
  BY DEF Send, BuildHyperRequest
<1> HIDE DEF headers, rest, leaving
<1>2. headers \in Seq(Header)
  <2>1. request[r] \in {Nothing} \cup Built \cup Sending \cup [state : {"done"}]
    BY DEF FieldsInv, FieldsTypeOK
  <2>2. request[r] \in Sending
    BY <1>1, <2>1 DEF Nothing, Built, Sending
  <2> QED BY <2>2 DEF Sending, headers
<1> USE DEF rest, leaving
<1>3. rest \in Seq(Header) /\ Range(rest) = {x \in Range(headers) : x.name \notin Forbidden}
  BY <1>2, DropKeeps
<1>4. first \in Header
  BY FieldsAssumption DEF Header, Authority, Bytewise
<1> HIDE DEF rest, first
<1>5. /\ leaving \in Seq(Header) /\ leaving # <<>> /\ Len(leaving) = Len(rest) + 1
      /\ Head(leaving) = first /\ Tail(leaving) = rest
      /\ \A i \in 2 .. Len(leaving) : leaving[i] = rest[i - 1] /\ i - 1 \in 1 .. Len(rest)
  <2>1. <<first>> \in Seq(Header) /\ Len(<<first>>) = 1 /\ <<first>>[1] = first
    BY <1>4
  <2>2. leaving \in Seq(Header) /\ Len(leaving) = Len(rest) + 1 /\ Len(rest) \in Nat
    BY <1>3, <2>1
  <2>3. leaving[1] = first /\ \A i \in 2 .. Len(leaving) : leaving[i] = rest[i - 1] /\ i - 1 \in 1 .. Len(rest)
    BY <1>3, <2>1, <2>2
  <2> HIDE DEF leaving
  <2>4. leaving # <<>> /\ Head(leaving) = first
    BY <2>2, <2>3
  <2>5. /\ Tail(leaving) \in Seq(Header) /\ Len(Tail(leaving)) = Len(rest)
        /\ \A i \in 1 .. Len(rest) : Tail(leaving)[i] = leaving[i + 1]
    BY <2>2, <2>4, HeadTailProperties
  <2>6. \A i \in 1 .. Len(rest) : leaving[i + 1] = rest[i]
    BY <2>2, <2>3
  <2>7. Tail(leaving) = rest
    BY <1>3, <2>5, <2>6, SeqEqual
  <2> QED BY <2>2, <2>3, <2>4, <2>7
<1>6. \A i \in 2 .. Len(leaving) : leaving[i].name \notin Forbidden
  <2>1. \A i \in 1 .. Len(rest) : rest[i] \in Range(rest)
    BY <1>3 DEF Range
  <2> HIDE DEF leaving
  <2> QED BY <1>3, <1>5, <2>1
<1> HIDE DEF leaving
<1>7. sent'[r] = leaving /\ \A q \in Requests \ {r} : sent'[q] = sent[q]
  BY <1>1 DEF FieldsInv, FieldsTypeOK
<1>8. FieldsTypeOK'
  BY <1>1, <1>5 DEF FieldsInv, FieldsTypeOK
<1>9. SentOnce' /\ AnswerStays'
  BY <1>1, <1>7 DEF FieldsInv, SentOnce, AnswerStays
<1>10. SentAsHandled'
  BY <1>1, <1>5, <1>6, <1>7 DEF FieldsInv, SentAsHandled, headers, rest, first
<1> QED BY <1>8, <1>9, <1>10 DEF FieldsInv

\* The smaller of two numbers.
LEMMA MinOfTwo ==
    ASSUME NEW a \in Nat, NEW b \in Nat, b <= a
    PROVE  Min({a, b}) = b
<1>1. \A y \in {a, b} : b <= y
  OBVIOUS
<1>2. \A x \in {a, b} : (\A y \in {a, b} : x <= y) => x = b
  OBVIOUS
<1> QED BY <1>1, <1>2 DEF Min

\* A sequence over a set is one over a larger set.
LEMMA LargerSet == ASSUME NEW S, NEW U, S \subseteq U, NEW s \in Seq(S) PROVE s \in Seq(U)
  OBVIOUS

\* An answer, or an error instead.
LEMMA AnswerKeeps ==
    ASSUME FieldsInv, NEW r \in Requests, NEW a \in Answers, Answer(r, a)
    PROVE  FieldsInv'
<1>1. /\ request[r].state = "sending" /\ UNCHANGED sent
      /\ request' = [request EXCEPT ![r] = [state |-> "done"]]
  BY DEF Answer
<1>2. response[r] = Nothing
  BY <1>1 DEF FieldsInv, AnswerStays
<1>3. /\ request' \in [Requests -> {Nothing} \cup Built \cup Sending \cup [state : {"done"}]]
      /\ request'[r].state = "done"
      /\ \A q \in Requests \ {r} : request'[q] = request[q]
  BY <1>1 DEF FieldsInv, FieldsTypeOK
<1>4. SentOnce' /\ SentAsHandled'
  BY <1>1, <1>3 DEF FieldsInv, SentOnce, SentAsHandled
<1>5. CASE response' = [response EXCEPT ![r] = [state |-> "error"]] /\ UNCHANGED fields
  <2>1. response'[r] = [state |-> "error"] /\ \A q \in Requests \ {r} : response'[q] = response[q]
    BY <1>5 DEF FieldsInv, FieldsTypeOK
  <2>2. FieldsTypeOK'
    BY <1>1, <1>3, <1>5 DEF FieldsInv, FieldsTypeOK
  <2>3. AnswerStays'
    BY <1>3, <1>5, <2>1 DEF FieldsInv, AnswerStays
  <2> QED BY <1>4, <2>2, <2>3 DEF FieldsInv
<1>6. CASE ~(response' = [response EXCEPT ![r] = [state |-> "error"]] /\ UNCHANGED fields)
  <2> DEFINE map == [entries |-> CapResponseHeaders(a.headers), immutable |-> TRUE]
             answer == [state |-> "ok", headers |-> a.headers,
                        body |-> Min({MaxBody, Total(a.frames)}), server |-> Total(a.frames)]
  <2>1. /\ CollectResponseBody(a.frames)
        /\ fields' = [fields EXCEPT ![r] = map] /\ response' = [response EXCEPT ![r] = answer]
    BY <1>6 DEF Answer
  <2>2. a.headers \in Seq(Header) /\ a.frames \in Seq(Nat)
    <3>1. a.headers \in Seq([name : Names, value : Values]) /\ a.frames \in Seq(Nat)
      BY FieldsAssumption
    <3>2. [name : Names, value : Values] \subseteq Header
      BY FieldsAssumption DEF Header
    <3> HIDE DEF map, answer
    <3> QED BY <3>1, <3>2, LargerSet
  <2>3. Total(a.frames) \in Nat /\ Total(a.frames) <= MaxResponse
    <3>1. Len(a.frames) \in 0 .. Len(a.frames) /\ SubSeq(a.frames, 1, Len(a.frames)) = a.frames
      BY <2>2, SubSeqFull
    <3>2. 0 \in Nat
      OBVIOUS
    <3> QED BY <2>1, <2>2, <3>1, <3>2, TotalAppend DEF CollectResponseBody
  <2>4. Min({MaxBody, Total(a.frames)}) = Total(a.frames)
    <3>1. MaxBody \in Nat /\ MaxResponse \in Nat /\ MaxResponse <= MaxBody
      BY FieldsAssumption
    <3> QED BY <2>3, <3>1, MinOfTwo
  <2>5. map \in Map /\ answer \in AnswerOk
    BY <2>2, <2>3, <2>4, CapKeeps DEF Map, AnswerOk
  <2>6. answer.body = answer.server /\ answer.headers = a.headers
    BY <2>4
  <2> HIDE DEF answer
  <2>7. /\ fields'[r] = map /\ response'[r] = answer
        /\ \A q \in Requests \ {r} : fields'[q] = fields[q] /\ response'[q] = response[q]
    <3> HIDE DEF map
    <3> QED BY <2>1 DEF FieldsInv, FieldsTypeOK
  <2>8. FieldsTypeOK'
    <3> HIDE DEF map
    <3> QED BY <1>1, <1>3, <2>1, <2>5 DEF FieldsInv, FieldsTypeOK
  <2>9. AnswerStays'
    BY <1>3, <2>6, <2>7 DEF FieldsInv, AnswerStays
  <2> QED BY <1>4, <2>8, <2>9 DEF FieldsInv
<1> QED BY <1>5, <1>6

\* Every call and every step of a task keeps the invariant.
LEMMA FieldsStep == FieldsInv /\ [FieldsNext]_fieldsVars => FieldsInv'
<1> SUFFICES ASSUME FieldsInv, [FieldsNext]_fieldsVars PROVE FieldsInv' OBVIOUS
<1>1. CASE UNCHANGED fieldsVars
  BY <1>1 DEF fieldsVars, FieldsInv, FieldsTypeOK, SentOnce, SentAsHandled, AnswerStays
<1> QED BY <1>1, MapsKeep, RequestKeeps, SendKeeps, AnswerKeeps DEF FieldsNext

\* The invariant holds after any calls, whatever servers answer.
THEOREM FieldsInvariant == FieldsSpec => []FieldsInv
<1> QED BY FieldsStart, FieldsStep, PTL DEF FieldsSpec

\* The shape of header maps, requests and answers.
THEOREM FieldsTypeCorrect == FieldsSpec => []FieldsTypeOK
<1>1. FieldsInv => FieldsTypeOK BY DEF FieldsInv
<1> QED BY <1>1, FieldsInvariant, PTL

\* What leaves the sandbox is what handle() saw, without the forbidden headers, although
\* the guest shares the map (http.rs:326 collects it before the task is spawned).
THEOREM SentCorrect == FieldsSpec => []SentAsHandled
<1>1. FieldsInv => SentAsHandled BY DEF FieldsInv
<1> QED BY <1>1, FieldsInvariant, PTL

\* An answer is what the server sent, as far as the caps allow, and never changes.
THEOREM ResponseCorrect == FieldsSpec => []ResponseIntact
<1>1. FieldsInv => ResponseIntact
  <2> SUFFICES ASSUME FieldsInv, NEW r \in Requests, response[r].state = "ok"
               PROVE  LET kept == fields[r].entries
                          strs == ToStrs(response[r].headers)
                      IN  /\ response[r].body = response[r].server
                          /\ Len(kept) <= MaxCount /\ Bytes(kept) <= MaxBytes
                          /\ \E k \in 0 .. Len(strs) :
                               /\ Range(kept) = LastOfEach(SubSeq(strs, 1, k))
                               /\ Len(kept) = Cardinality(Range(kept))
                               /\ \/ k = Len(strs)
                                  \/ Len(kept) = MaxCount
                                  \/ Bytes(SubSeq(strs, 1, k + 1)) > MaxBytes
    BY DEF ResponseIntact
  <2>1. fields[r].entries = CapResponseHeaders(response[r].headers)
        /\ response[r].body = response[r].server
    <3>1. /\ fields[r] = [entries |-> CapResponseHeaders(response[r].headers), immutable |-> TRUE]
          /\ response[r].body = response[r].server
      BY DEF FieldsInv, AnswerStays
    <3> QED BY <3>1
  <2>2. response[r].headers \in Seq(Header)
    BY DEF Nothing, AnswerOk, FieldsInv, FieldsTypeOK
  <2> QED BY <2>1, <2>2, CapKeeps
<1> QED BY <1>1, FieldsInvariant, PTL

-----------------------------------------------------------------------------
(* Paths and their segments.                                               *)

\* What is left after trimming: n characters, the last of which is another one.
Trims(s, c, n) == (\A i \in n + 1 .. Len(s) : s[i] = c) /\ (n = 0 \/ s[n] # c)

\* Trimming keeps the characters before those at the end.
LEMMA TrimDef ==
    ASSUME NEW S, NEW s \in Seq(S), NEW c
    PROVE  \E n \in 0 .. Len(s) : Trims(s, c, n) /\ TrimEndMatches(s, c) = SubSeq(s, 1, n)
<1> DEFINE T == {n \in 0 .. Len(s) : \A i \in n + 1 .. Len(s) : s[i] = c}
<1>1. T \in SUBSET Nat /\ Len(s) \in T /\ Len(s) \in Nat
  OBVIOUS
<1>2. PICK n \in T : \A m \in T : n <= m
  <2> HIDE DEF T
  <2> QED BY <1>1, LeastNumber
<1>3. n = 0 \/ s[n] # c
  <2> SUFFICES ASSUME n # 0, s[n] = c PROVE FALSE
    OBVIOUS
  <2>1. n - 1 \in 0 .. Len(s) /\ \A i \in n .. Len(s) : s[i] = c
    BY <1>1
  <2>2. n - 1 \in T
    BY <2>1
  <2> HIDE DEF T
  <2> QED BY <1>1, <1>2, <2>2
<1>4. n \in 0 .. Len(s) /\ Trims(s, c, n)
  BY <1>2, <1>3 DEF Trims
<1> DEFINE k == CHOOSE m \in 0 .. Len(s) : Trims(s, c, m)
<1>5. k \in 0 .. Len(s) /\ Trims(s, c, k)
  <2> HIDE DEF Trims
  <2> QED BY <1>4
<1>6. TrimEndMatches(s, c) = SubSeq(s, 1, k)
  BY DEF TrimEndMatches, Trims
<1> HIDE DEF k
<1> QED BY <1>5, <1>6

\* One character more.
Extend(t, c) ==
    IF c = "/" THEN Append(t, <<>>) ELSE [t EXCEPT ![Len(t)] = Append(@, c)]

\* The segments of each prefix.
Splits(f, s, S) ==
    /\ f \in [0 .. Len(s) -> Seq(Seq(S))] /\ f[0] = <<>>
    /\ \A n \in 1 .. Len(s) : f[n] = Extend(f[n - 1], s[n])

\* A slash starts a segment, and another character goes to the last one.
LEMMA ExtendFacts ==
    ASSUME NEW S, NEW t \in Seq(Seq(S)), NEW c \in S
    PROVE  /\ Extend(t, c) \in Seq(Seq(S)) /\ Len(t) \in Nat
           /\ Len(Extend(t, c)) = IF c = "/" THEN Len(t) + 1 ELSE Len(t)
           /\ \A q \in 1 .. Len(t) :
                Extend(t, c)[q] = IF c # "/" /\ q = Len(t) THEN Append(t[q], c) ELSE t[q]
           /\ c = "/" => Extend(t, c)[Len(t) + 1] = <<>>
<1>1. Len(t) \in Nat /\ \A q \in 1 .. Len(t) : t[q] \in Seq(S)
  OBVIOUS
<1>2. CASE c = "/"
  <2> DEFINE e == <<>>
             u == Append(t, e)
  <2>1. Extend(t, c) = u /\ e \in Seq(S)
    BY <1>2 DEF Extend
  <2> HIDE DEF e
  <2>2. /\ u \in Seq(Seq(S)) /\ Len(u) = Len(t) + 1 /\ u[Len(t) + 1] = e
        /\ \A q \in 1 .. Len(t) : u[q] = t[q]
    BY <2>1, AppendProperties
  <2> HIDE DEF u
  <2>3. e = <<>>
    BY DEF e
  <2> QED BY <1>1, <1>2, <2>1, <2>2, <2>3
<1>3. CASE c # "/" /\ t = <<>>
  <2>1. Extend(t, c) = t
    BY <1>3 DEF Extend
  <2>2. \A q \in 1 .. Len(t) : FALSE
    BY <1>3
  <2>3. c # "/"
    BY <1>3
  <2> QED BY <1>1, <2>1, <2>2, <2>3
<1>4. CASE c # "/" /\ t # <<>>
  <2> DEFINE e == Append(t[Len(t)], c)
  <2>1. Len(t) \in 1 .. Len(t)
    BY <1>1, <1>4
  <2>2. e \in Seq(S)
    BY <1>1, <2>1, AppendProperties
  <2>3. Extend(t, c) = [t EXCEPT ![Len(t)] = e]
    BY <1>4 DEF Extend
  <2> HIDE DEF e
  <2>4. /\ Extend(t, c) \in Seq(Seq(S)) /\ Len(Extend(t, c)) = Len(t)
        /\ \A q \in 1 .. Len(t) : Extend(t, c)[q] = IF q = Len(t) THEN e ELSE t[q]
    BY <2>1, <2>2, <2>3, ExceptSeq
  <2> QED BY <1>1, <1>4, <2>4 DEF e
<1> QED BY <1>2, <1>3, <1>4

\* Segments is what the characters give one after the other.
LEMMA SegmentsDef ==
    ASSUME NEW S, NEW s \in Seq(S)
    PROVE  \E f : Splits(f, s, S) /\ Segments(s) = f[Len(s)]
<1> DEFINE N == Len(s)
           X == Seq(Seq(S))
           Body(f) == [n \in 0 .. N |-> IF n = 0 THEN <<>> ELSE Extend(f[n - 1], s[n])]
           upto == CHOOSE f : f = Body(f)
           Step == [n \in 1 .. N |-> [t \in X |-> Extend(t, s[n])]]
<1>0. N \in Nat /\ \A n \in 1 .. N : s[n] \in S
  OBVIOUS
<1>1. IsStep(Step, X, N) /\ <<>> \in X
  <2>1. \A n \in 1 .. N, t \in X : Extend(t, s[n]) \in X
    BY <1>0, ExtendFacts
  <2> HIDE DEF N, X
  <2>2. IsStep(Step, X, N)
    BY <2>1 DEF IsStep
  <2> QED BY <2>2 DEF X
<1>2. PICK f : Recursive(f, <<>>, Step, X, N)
  <2> HIDE DEF Step, N, X
  <2> QED BY <1>0, <1>1, Recursion
<1>3. f \in [0 .. N -> X] /\ f[0] = <<>>
  BY <1>2 DEF Recursive
<1>4. ASSUME NEW n \in 1 .. N PROVE f[n] = Extend(f[n - 1], s[n])
  <2> HIDE DEF Step, N, X
  <2>1. f[n] = Step[n][f[n - 1]] /\ f[n - 1] \in X
    BY <1>0, <1>2 DEF Recursive
  <2>2. Step[n][f[n - 1]] = Extend(f[n - 1], s[n])
    BY <2>1 DEF Step
  <2> QED BY <2>1, <2>2
<1>5. f = Body(f)
  BY <1>3, <1>4
<1>6. upto = Body(upto)
  <2> HIDE DEF Body
  <2> QED BY <1>5
<1>7. upto[0] = <<>>
  <2> HIDE DEF upto, N
  <2> QED BY <1>0, <1>6
<1>8. ASSUME NEW n \in 1 .. N PROVE upto[n] = Extend(upto[n - 1], s[n])
  <2> HIDE DEF upto, N
  <2> QED BY <1>0, <1>6
<1>9. \A n \in 0 .. N : upto[n] = f[n]
  <2> HIDE DEF upto, N
  <2>1. SameSteps(upto, f, N)
    BY <1>3, <1>4, <1>7, <1>8 DEF SameSteps
  <2> QED BY <1>0, <2>1, Agree
<1>10. Segments(s) = upto[N]
  BY DEF Segments, Extend
<1>11. Segments(s) = f[Len(s)]
  <2>1. upto[N] = f[N]
    <3> HIDE DEF upto, N
    <3> QED BY <1>0, <1>9
  <2> HIDE DEF upto
  <2> QED BY <1>10, <2>1
<1>12. Splits(f, s, S)
  BY <1>3, <1>4 DEF Splits
<1> QED BY <1>11, <1>12

\* b starts with a.
Starts(a, b) == Len(a) <= Len(b) /\ \A i \in 1 .. Len(a) : b[i] = a[i]

\* Later segments leave the earlier ones, and the last one of t only grows.
Grows(t, u) ==
    /\ Len(t) <= Len(u)
    /\ \A q \in 1 .. Len(t) : Starts(t[q], u[q]) /\ (q < Len(t) => u[q] = t[q])

\* A character more leaves what grew.
LEMMA GrowsStep ==
    ASSUME NEW S, NEW t \in Seq(Seq(S)), NEW u \in Seq(Seq(S)), NEW c \in S, Grows(t, u)
    PROVE  Grows(t, Extend(u, c))
<1> DEFINE v == Extend(u, c)
<1>1. /\ v \in Seq(Seq(S)) /\ Len(u) \in Nat /\ Len(t) \in Nat /\ Len(u) <= Len(v)
      /\ \A q \in 1 .. Len(u) : v[q] = IF c # "/" /\ q = Len(u) THEN Append(u[q], c) ELSE u[q]
  BY ExtendFacts
<1> HIDE DEF v
<1>2. ASSUME NEW q \in 1 .. Len(t) PROVE Starts(t[q], v[q]) /\ (q < Len(t) => v[q] = t[q])
  <2>1. q \in 1 .. Len(u) /\ u[q] \in Seq(S) /\ t[q] \in Seq(S) /\ Starts(t[q], u[q])
    BY <1>1 DEF Grows
  <2>2. Starts(u[q], Append(u[q], c))
    <3>1. Len(Append(u[q], c)) = Len(u[q]) + 1 /\ \A i \in 1 .. Len(u[q]) : Append(u[q], c)[i] = u[q][i]
      BY <2>1, AppendProperties
    <3> QED BY <2>1, <3>1 DEF Starts
  <2>3. Starts(t[q], Append(u[q], c))
    <3>1. Len(t[q]) \in Nat /\ Len(u[q]) \in Nat /\ Len(Append(u[q], c)) \in Nat
      BY <2>1
    <3> QED BY <2>1, <2>2, <3>1 DEF Starts
  <2>4. Starts(t[q], v[q])
    BY <1>1, <2>1, <2>3
  <2>5. q < Len(t) => v[q] = t[q]
    BY <1>1, <2>1 DEF Grows
  <2> QED BY <2>4, <2>5
<1> QED BY <1>1, <1>2 DEF Grows, v

\* The segments of a prefix grow to those of a longer one.
LEMMA Grown ==
    ASSUME NEW S, NEW s \in Seq(S), NEW f, Splits(f, s, S),
           NEW i \in 0 .. Len(s), NEW m \in i .. Len(s)
    PROVE  Grows(f[i], f[m])
<1> DEFINE T == {d \in 0 .. Len(s) - i : Grows(f[i], f[i + d])}
           N == Len(s) - i
<1>1. N \in Nat /\ Len(s) \in Nat
  OBVIOUS
<1>2. \A n \in 0 .. Len(s) : f[n] \in Seq(Seq(S))
  BY DEF Splits
<1>3. 0 \in T
  <2>1. Grows(f[i], f[i])
    <3>1. Len(f[i]) \in Nat /\ \A q \in 1 .. Len(f[i]) : f[i][q] \in Seq(S)
      BY <1>2
    <3> QED BY <3>1 DEF Grows, Starts
  <2> QED BY <1>1, <2>1
<1>4. ASSUME NEW d \in 1 .. N, d - 1 \in T PROVE d \in T
  <2>1. i + d \in 1 .. Len(s) /\ i + d - 1 \in 0 .. Len(s) /\ i + (d - 1) = i + d - 1
    BY <1>1
  <2>2. f[i + d] = Extend(f[i + d - 1], s[i + d])
    BY <2>1 DEF Splits
  <2>3. Grows(f[i], f[i + d - 1])
    BY <1>4, <2>1
  <2>4. f[i + d - 1] \in Seq(Seq(S)) /\ f[i] \in Seq(Seq(S)) /\ s[i + d] \in S
    BY <1>2, <2>1
  <2>5. Grows(f[i], f[i + d])
    BY <2>2, <2>3, <2>4, GrowsStep
  <2> QED BY <1>1, <2>5
<1>5. 0 .. N \subseteq T
  <2> HIDE DEF T, N
  <2> QED BY <1>1, <1>3, <1>4, InductionUpTo
<1>6. m - i \in 0 .. N /\ i + (m - i) = m
  BY <1>1
<1>7. m - i \in T
  BY <1>5, <1>6
<1> QED BY <1>6, <1>7

\* Paths that begin with the same characters begin with the same segments.
LEMMA SameStart ==
    ASSUME NEW S, NEW s \in Seq(S), NEW r \in Seq(S), NEW f, NEW g,
           Splits(f, s, S), Splits(g, r, S),
           NEW n \in 0 .. Len(s), n <= Len(r), \A i \in 1 .. n : r[i] = s[i]
    PROVE  f[n] = g[n]
<1>1. n \in Nat /\ f[0] = g[0]
  BY DEF Splits
<1>2. ASSUME NEW i \in 1 .. n, f[i - 1] = g[i - 1] PROVE f[i] = g[i]
  <2>1. i \in 1 .. Len(s) /\ i \in 1 .. Len(r) /\ s[i] = r[i]
    OBVIOUS
  <2> QED BY <1>2, <2>1 DEF Splits
<1>3. SameSteps(f, g, n)
  BY <1>1, <1>2 DEF SameSteps
<1> QED BY <1>1, <1>3, Agree

\* Slashes at the end add empty segments.
Ends(t, u) ==
    /\ Len(t) <= Len(u)
    /\ \A q \in 1 .. Len(u) : u[q] = IF q <= Len(t) THEN t[q] ELSE <<>>

\* What is trimmed are empty segments.
LEMMA EmptyEnd ==
    ASSUME NEW S, NEW s \in Seq(S), NEW f, Splits(f, s, S), NEW n \in 0 .. Len(s),
           \A i \in n + 1 .. Len(s) : s[i] = "/"
    PROVE  Ends(f[n], f[Len(s)])
<1> DEFINE N == Len(s) - n
           T == {d \in 0 .. N : Ends(f[n], f[n + d])}
<1>1. N \in Nat /\ Len(s) \in Nat
  OBVIOUS
<1>2. \A m \in 0 .. Len(s) : f[m] \in Seq(Seq(S)) /\ Len(f[m]) \in Nat
  BY DEF Splits
<1>3. 0 \in T
  <2>1. Ends(f[n], f[n])
    BY <1>2 DEF Ends
  <2> QED BY <1>1, <2>1
<1>4. ASSUME NEW d \in 1 .. N, d - 1 \in T PROVE d \in T
  <2>1. n + d \in n + 1 .. Len(s) /\ n + d \in 1 .. Len(s) /\ n + d - 1 \in 0 .. Len(s) /\ n + (d - 1) = n + d - 1
    BY <1>1
  <2> DEFINE u == f[n + d - 1]
             v == f[n + d]
             c == s[n + d]
  <2>2. v = Extend(u, c) /\ c = "/" /\ c \in S
    BY <2>1 DEF Splits
  <2>3. Ends(f[n], u)
    BY <1>4, <2>1
  <2>4. u \in Seq(Seq(S)) /\ v \in Seq(Seq(S)) /\ Len(u) \in Nat /\ Len(f[n]) \in Nat
    BY <1>2, <2>1
  <2> HIDE DEF u, v, c
  <2>5. /\ Len(v) = Len(u) + 1 /\ v[Len(u) + 1] = <<>>
        /\ \A q \in 1 .. Len(u) : v[q] = u[q]
    BY <2>2, <2>4, ExtendFacts
  <2>6. Ends(f[n], v)
    <3> DEFINE t == f[n]
    <3> HIDE DEF t
    <3>1. Len(t) <= Len(u) /\ \A q \in 1 .. Len(u) : u[q] = IF q <= Len(t) THEN t[q] ELSE <<>>
      BY <2>3 DEF Ends, t
    <3>2. Len(t) \in Nat
      BY <2>4 DEF t
    <3>3. ASSUME NEW q \in 1 .. Len(v) PROVE v[q] = IF q <= Len(t) THEN t[q] ELSE <<>>
      <4>1. CASE q \in 1 .. Len(u)
        BY <2>5, <3>1, <4>1
      <4>2. CASE q = Len(u) + 1
        BY <2>4, <2>5, <3>1, <3>2, <4>2
      <4> QED BY <2>4, <2>5, <4>1, <4>2
    <3> QED BY <2>4, <2>5, <3>1, <3>2, <3>3 DEF Ends, t
  <2> QED BY <2>6 DEF v
<1>5. 0 .. N \subseteq T
  <2> HIDE DEF T, N
  <2> QED BY <1>1, <1>3, <1>4, InductionUpTo
<1>6. N \in 0 .. N /\ n + N = Len(s)
  BY <1>1
<1>7. N \in T
  BY <1>5, <1>6
<1> QED BY <1>6, <1>7

\* IsPrefix, element by element.
LEMMA PrefixElements ==
    ASSUME NEW S, NEW s \in Seq(S), NEW t \in Seq(S)
    PROVE  IsPrefix(s, t) <=> Starts(s, t)
<1>1. Len(s) \in Nat /\ Len(t) \in Nat /\ SubSeq(s, 1, Len(s)) = s
  BY SubSeqFull
<1>2. ASSUME Len(s) <= Len(t)
      PROVE  /\ SubSeq(t, 1, Len(s)) \in Seq(S) /\ Len(SubSeq(t, 1, Len(s))) = Len(s)
             /\ \A i \in 1 .. Len(s) : SubSeq(t, 1, Len(s))[i] = t[i]
  BY <1>1, <1>2, SubSeqProperties
<1>3. ASSUME IsPrefix(s, t) PROVE Starts(s, t)
  BY <1>1, <1>2, <1>3 DEF IsPrefix, Starts
<1>4. ASSUME Starts(s, t) PROVE IsPrefix(s, t)
  <2>1. Len(s) <= Len(t) /\ \A i \in 1 .. Len(s) : SubSeq(t, 1, Len(s))[i] = s[i]
    BY <1>1, <1>2, <1>4 DEF Starts
  <2>2. s = SubSeq(t, 1, Len(s))
    BY <1>2, <2>1, SeqEqual
  <2> QED BY <1>1, <2>1, <2>2 DEF IsPrefix
<1> QED BY <1>3, <1>4

-----------------------------------------------------------------------------
(* The check of a path.                                                    *)

Slash == "/"

\* What both paths of a comparison are.
Slashed(s, f, S) == s \in Seq(S) /\ Len(s) > 0 /\ s[1] = Slash /\ Splits(f, s, S)

\* A path that is not empty has a segment, which the path's last character ends.
LEMMA HasSegment ==
    ASSUME NEW S, NEW s, NEW f, Slashed(s, f, S), NEW n \in 1 .. Len(s)
    PROVE  /\ f[n] \in Seq(Seq(S)) /\ Len(f[n]) \in Nat \ {0}
           /\ s[n] # Slash => Len(f[n][Len(f[n])]) > 0
<1>1. /\ s \in Seq(S) /\ Len(s) \in Nat /\ 1 \in 1 .. Len(s) /\ 0 \in 0 .. Len(s) /\ n \in 0 .. Len(s)
      /\ n \in 1 .. Len(s) /\ 1 \in 0 .. Len(s) /\ n - 1 \in 0 .. Len(s) /\ Splits(f, s, S)
  BY DEF Slashed
<1>2. \A m \in 0 .. Len(s) : f[m] \in Seq(Seq(S)) /\ Len(f[m]) \in Nat
  BY <1>1 DEF Splits
<1>3. ASSUME NEW m \in 1 .. Len(s) PROVE Len(f[m]) > 0
  <2>1. f[1] = Extend(f[0], s[1]) /\ f[0] = <<>>
    <3>1. 1 - 1 = 0
      OBVIOUS
    <3>2. f[1] = Extend(f[1 - 1], s[1]) /\ f[0] = <<>>
      BY <1>1 DEF Splits
    <3> QED BY <3>1, <3>2
  <2>2. Len(f[1]) = 1
    <3>1. s[1] = "/"
      BY DEF Slashed, Slash
    <3> QED BY <2>1, <3>1 DEF Extend
  <2>3. Grows(f[1], f[m])
    BY <1>1, Grown
  <2> QED BY <1>1, <1>2, <2>2, <2>3 DEF Grows
<1>4. ASSUME s[n] # Slash PROVE Len(f[n][Len(f[n])]) > 0
  <2> DEFINE t == f[n - 1]
             c == s[n]
             L == Len(t)
  <2>1. f[n] = Extend(t, c) /\ c # "/" /\ c \in S /\ t \in Seq(Seq(S))
    BY <1>1, <1>2, <1>4 DEF Splits, Slash
  <2>2. n # 1
    BY <1>4 DEF Slashed
  <2>3. L \in Nat /\ L > 0
    <3>1. n - 1 \in 1 .. Len(s)
      BY <1>1, <2>2
    <3> QED BY <1>2, <1>3, <3>1
  <2> HIDE DEF t, c
  <2>4. Len(f[n]) = L /\ f[n][L] = Append(t[L], c)
    <3>1. L \in 1 .. L
      BY <2>3
    <3> DEFINE e == Extend(t, c)
    <3>2. /\ Len(e) = IF c = "/" THEN Len(t) + 1 ELSE Len(t)
          /\ \A q \in 1 .. Len(t) : e[q] = IF c # "/" /\ q = Len(t) THEN Append(t[q], c) ELSE t[q]
      BY <2>1, ExtendFacts
    <3>3. f[n] = e
      BY <2>1
    <3> HIDE DEF e
    <3> QED BY <2>1, <3>1, <3>2, <3>3
  <2>5. t[L] \in Seq(S)
    BY <2>1, <2>3
  <2>6. Len(Append(t[L], c)) > 0
    BY <2>1, <2>5, AppendProperties
  <2> QED BY <2>4, <2>6
<1> QED BY <1>1, <1>2, <1>3, <1>4

\* The segments t of a start and those u of the whole path tell what came next: a
\* slash ends the last segment of t, another character makes it longer.
Shows(t, u, c) ==
    /\ Len(t) \in Nat /\ Len(t) > 0 /\ Len(t) <= Len(u) /\ Len(t[Len(t)]) \in Nat
    /\ c = Slash => Len(u) > Len(t) /\ u[Len(t)] = t[Len(t)]
    /\ c # Slash => /\ Len(u[Len(t)]) > Len(t[Len(t)]) /\ Len(u[Len(t)]) \in Nat
                    /\ u[Len(t)][Len(t[Len(t)]) + 1] = c

\* The next character shows.
LEMMA NextShows ==
    ASSUME NEW S, NEW s, NEW f, Slashed(s, f, S), NEW n \in 1 .. Len(s), n < Len(s)
    PROVE  Shows(f[n], f[Len(s)], s[n + 1])
<1> DEFINE t == f[n]
           L == Len(t)
           u == f[Len(s)]
           c == s[n + 1]
           v == f[n + 1]
<1>1. /\ s \in Seq(S) /\ Len(s) \in Nat /\ n + 1 \in 1 .. Len(s) /\ n + 1 \in 0 .. Len(s)
      /\ Len(s) \in n + 1 .. Len(s) /\ Len(s) \in 1 .. Len(s) /\ c \in S /\ Splits(f, s, S) /\ (n + 1) - 1 = n
  BY DEF Slashed
<1>2. t \in Seq(Seq(S)) /\ L \in Nat /\ L > 0 /\ u \in Seq(Seq(S)) /\ Len(u) \in Nat
  BY <1>1, HasSegment
<1>3. v = Extend(t, c)
  BY <1>1 DEF Splits
<1>4. Grows(v, u)
  BY <1>1, Grown
<1> HIDE DEF t, u, c, v
<1>5. /\ v \in Seq(Seq(S)) /\ Len(v) = IF c = "/" THEN L + 1 ELSE L
      /\ v[L] = IF c # "/" THEN Append(t[L], c) ELSE t[L]
  <2>1. L \in 1 .. L
    BY <1>2
  <2> QED BY <1>1, <1>2, <1>3, <2>1, ExtendFacts
<1>6. t[L] \in Seq(S) /\ Len(t[L]) \in Nat /\ Len(v) <= Len(u) /\ Len(v) \in Nat
  BY <1>2, <1>4, <1>5 DEF Grows
<1>7. L <= Len(u) /\ L \in 1 .. Len(v) /\ L \in 1 .. Len(u)
  BY <1>2, <1>5, <1>6
<1>8. u[L] \in Seq(S) /\ Len(u[L]) \in Nat
  BY <1>2, <1>7
<1>9. ASSUME c = Slash PROVE Len(u) > L /\ u[L] = t[L]
  <2>1. Len(v) = L + 1 /\ v[L] = t[L]
    BY <1>5, <1>9 DEF Slash
  <2> QED BY <1>2, <1>4, <1>6, <1>7, <2>1 DEF Grows
<1>10. ASSUME c # Slash PROVE Len(u[L]) > Len(t[L]) /\ u[L][Len(t[L]) + 1] = c
  <2> DEFINE a == Append(t[L], c)
  <2>1. v[L] = a
    BY <1>5, <1>10 DEF Slash
  <2>2. Len(a) = Len(t[L]) + 1 /\ a[Len(t[L]) + 1] = c
    BY <1>1, <1>6, AppendProperties DEF c
  <2> HIDE DEF a
  <2>3. Starts(a, u[L])
    BY <1>4, <1>7, <2>1 DEF Grows
  <2> QED BY <1>6, <1>8, <2>2, <2>3 DEF Starts
<1> QED BY <1>2, <1>6, <1>7, <1>8, <1>9, <1>10 DEF Shows, t, u, c

\* Equal segments come from equal characters.
LEMMA SameCharacters ==
    ASSUME NEW S, NEW s, NEW f, Slashed(s, f, S), NEW r, NEW g, Slashed(r, g, S),
           NEW n \in 1 .. Len(s), s[n] # Slash,
           Len(f[n]) <= Len(g[Len(r)]), \A q \in 1 .. Len(f[n]) : g[Len(r)][q] = f[Len(s)][q],
           f[Len(s)][Len(f[n])] = f[n][Len(f[n])]
    PROVE  /\ n <= Len(r) /\ \A i \in 1 .. n : r[i] = s[i]
           /\ Len(r) > n => r[n + 1] = Slash
<1> DEFINE Differs(j) == j > Len(r) \/ r[j] # s[j]
           T == {j \in 1 .. n : Differs(j)}
<1>1. s \in Seq(S) /\ r \in Seq(S) /\ Len(s) \in Nat /\ Len(r) \in Nat /\ n \in Nat /\ n <= Len(s)
      /\ Splits(f, s, S) /\ Splits(g, r, S)
  BY DEF Slashed
<1>2. T = {}
  <2> SUFFICES ASSUME T # {} PROVE FALSE
    OBVIOUS
  <2>1. PICK j \in T : \A i \in T : j <= i
    <3> HIDE DEF Differs
    <3>1. T \in SUBSET Nat
      BY <1>1
    <3> HIDE DEF T
    <3> QED BY <3>1, LeastNumber
  <2> DEFINE m == j - 1
             t == f[m]
             L == Len(t)
  <2>2. j \in 1 .. n /\ Differs(j) /\ \A i \in 1 .. m : ~Differs(i)
    <3> HIDE DEF Differs
    <3> QED BY <1>1, <2>1
  <2>3. j # 1
    BY <2>2 DEF Slashed
  <2>4. /\ m \in 1 .. Len(s) /\ m \in 0 .. Len(s) /\ m < Len(s) /\ m <= Len(r) /\ m \in 1 .. Len(r) /\ m + 1 = j
        /\ \A i \in 1 .. m : r[i] = s[i]
    <3>1. m \in 1 .. n /\ m \in 1 .. m
      BY <1>1, <2>2, <2>3
    <3> QED BY <1>1, <2>2, <3>1
  <2>5. g[m] = t
    <3> HIDE DEF m
    <3> QED BY <1>1, <2>4, SameStart
  <2> DEFINE u == f[Len(s)]
             w == g[Len(r)]
             K == Len(f[n])
  <2>6. /\ L \in Nat /\ L > 0 /\ L <= Len(u) /\ Len(t[L]) \in Nat
        /\ s[j] = Slash => Len(u) > L /\ u[L] = t[L]
        /\ s[j] # Slash => Len(u[L]) > Len(t[L]) /\ u[L][Len(t[L]) + 1] = s[j] /\ Len(u[L]) \in Nat
    <3> HIDE DEF m
    <3>1. Shows(f[m], f[Len(s)], s[m + 1])
      BY <2>4, NextShows
    <3>2. Shows(t, u, s[j])
      BY <2>4, <3>1
    <3> HIDE DEF t, u
    <3> QED BY <3>2 DEF Shows
  <2>7. K \in Nat /\ K > 0 /\ f[n] \in Seq(Seq(S)) /\ w \in Seq(Seq(S)) /\ Len(w) \in Nat
    <3>1. Len(r) \in 1 .. Len(r)
      BY <1>1, <2>4
    <3> QED BY <3>1, HasSegment
  <2>8. L <= K
    <3>1. n \in m .. Len(s)
      BY <1>1, <2>2
    <3>2. Grows(t, f[n])
      BY <1>1, <2>4, <3>1, Grown
    <3> QED BY <3>2 DEF Grows
  <2>9. K <= Len(w) /\ \A q \in 1 .. K : w[q] = u[q]
    OBVIOUS
  <2>10. w[L] = u[L]
    <3> HIDE DEF u, w, K, L
    <3> QED BY <2>6, <2>7, <2>8, <2>9
  <2>11. CASE j > Len(r)
    <3>1. Len(r) = m
      BY <1>1, <2>4, <2>11
    <3>2. w = t
      BY <2>5, <3>1
    <3>3. s[j] = Slash
      <4> SUFFICES ASSUME s[j] # Slash PROVE FALSE
        OBVIOUS
      <4> HIDE DEF u, w, K, L, t
      <4> QED BY <2>6, <2>10, <3>2
    <3>4. K > L
      <4>1. j \in 1 .. Len(s) /\ j \in 0 .. Len(s) /\ n \in j .. Len(s) /\ j - 1 = m
        BY <1>1, <2>2
      <4>2. f[j] = Append(t, <<>>)
        BY <1>1, <3>3, <4>1 DEF Splits, Extend, Slash
      <4>3. Grows(f[j], f[n])
        BY <1>1, <4>1, Grown
      <4>4. t \in Seq(Seq(S))
        BY <1>1, <2>4 DEF Splits
      <4>5. Len(f[j]) = L + 1
        <5> HIDE DEF t
        <5>1. <<>> \in Seq(S)
          OBVIOUS
        <5> QED BY <4>2, <4>4, <5>1, AppendProperties
      <4> HIDE DEF K, L
      <4> QED BY <2>6, <2>7, <4>3, <4>5 DEF Grows, K
    <3> HIDE DEF u, w, K, t
    <3> QED BY <2>6, <2>7, <2>9, <3>2, <3>4
  <2>12. CASE ~(j > Len(r))
    <3>1. m < Len(r) /\ r[j] # s[j]
      BY <1>1, <2>2, <2>4, <2>12
    <3>2. /\ r[j] = Slash => w[L] = t[L]
          /\ r[j] # Slash => Len(w[L]) > Len(t[L]) /\ w[L][Len(t[L]) + 1] = r[j] /\ Len(w[L]) \in Nat
      <4> HIDE DEF m
      <4>1. Shows(g[m], w, r[m + 1])
        BY <2>4, <3>1, NextShows
      <4>2. Shows(t, w, r[j])
        BY <2>4, <2>5, <4>1
      <4> HIDE DEF t, w
      <4> QED BY <4>2 DEF Shows
    <3> HIDE DEF u, w, K, L, t
    <3> QED BY <2>6, <2>10, <3>1, <3>2
  <2> QED BY <2>11, <2>12
<1>3. n <= Len(r) /\ \A i \in 1 .. n : r[i] = s[i]
  <2>1. \A i \in 1 .. n : ~Differs(i)
    BY <1>2
  <2>2. n \in 1 .. n
    BY <1>1
  <2> QED BY <1>1, <2>1, <2>2
<1>4. ASSUME Len(r) > n, r[n + 1] # Slash PROVE FALSE
  <2> DEFINE t == f[n]
             L == Len(t)
             w == g[Len(r)]
  <2>1. g[n] = t
    <3>1. n \in 0 .. Len(s)
      BY <1>1
    <3> QED BY <1>1, <1>3, <3>1, SameStart
  <2>2. n \in 1 .. Len(r)
    BY <1>1, <1>3
  <2>3. Shows(t, w, r[n + 1])
    BY <1>4, <2>1, <2>2, NextShows
  <2>4. L \in Nat /\ L > 0 /\ Len(t[L]) \in Nat /\ Len(w[L]) > Len(t[L]) /\ Len(w[L]) \in Nat
    <3> HIDE DEF t, w
    <3> QED BY <1>4, <2>3 DEF Shows
  <2>5. w[L] = t[L]
    <3>1. L \in 1 .. L
      <4> HIDE DEF L
      <4> QED BY <2>4
    <3> QED BY <3>1
  <2> HIDE DEF w, t
  <2> QED BY <2>4, <2>5
<1> QED BY <1>3, <1>4

\* Comparing characters up to a slash is comparing segments.
LEMMA MatchesBelow ==
    ASSUME NEW S, NEW a \in Seq(S), Len(a) > 0, a[1] = "/",
           NEW r \in Seq(S), Len(r) > 0, r[1] = "/"
    PROVE  PathMatches(a, r) <=> LiesBelow(r, a)
<1>1. PICK n \in 0 .. Len(a) : Trims(a, "/", n) /\ TrimEndMatches(a, "/") = SubSeq(a, 1, n)
  BY TrimDef
<1>2. PICK f : Splits(f, a, S) /\ Segments(a) = f[Len(a)]
  BY SegmentsDef
<1>3. PICK g : Splits(g, r, S) /\ Segments(r) = g[Len(r)]
  BY SegmentsDef
<1> DEFINE p == TrimEndMatches(a, "/")
           t == f[n]
           K == Len(t)
           u == f[Len(a)]
           w == g[Len(r)]
<1>4. Slashed(a, f, S) /\ Slashed(r, g, S) /\ Len(a) \in Nat /\ Len(r) \in Nat /\ n \in Nat
      /\ Len(a) \in 0 .. Len(a) /\ Len(r) \in 0 .. Len(r)
  BY <1>2, <1>3 DEF Slashed, Slash
<1>5. t \in Seq(Seq(S)) /\ u \in Seq(Seq(S)) /\ w \in Seq(Seq(S)) /\ K \in Nat /\ Len(u) \in Nat /\ Len(w) \in Nat
  <2>1. (\A m \in 0 .. Len(a) : f[m] \in Seq(Seq(S))) /\ (\A m \in 0 .. Len(r) : g[m] \in Seq(Seq(S)))
    BY <1>2, <1>3 DEF Splits
  <2>2. t \in Seq(Seq(S)) /\ u \in Seq(Seq(S)) /\ w \in Seq(Seq(S))
    BY <1>4, <2>1
  <2> HIDE DEF t, u, w
  <2> QED BY <2>2
<1>6. p \in Seq(S) /\ Len(p) = n /\ \A i \in 1 .. n : p[i] = a[i]
  <2>1. \A i \in 1 .. n : a[i] \in S
    BY <1>4
  <2> QED BY <1>1, <1>4, <2>1, SubSeqProperties
<1>7. Ends(t, u)
  <2>1. \A i \in n + 1 .. Len(a) : a[i] = "/"
    BY <1>1 DEF Trims
  <2> QED BY <1>2, <2>1, EmptyEnd
<1>8. PathMatches(a, r) <=>
        (n # 0 => n <= Len(r) /\ (\A i \in 1 .. n : r[i] = a[i]) /\ (Len(r) > n => r[n + 1] = "/"))
  <2> HIDE DEF p
  <2>1. PathMatches(a, r) <=>
          (p # <<>> => IsPrefix(p, r) /\ (Len(r) > Len(p) => r[Len(p) + 1] = "/"))
    BY DEF PathMatches, p
  <2>2. p # <<>> <=> n # 0
    BY <1>6
  <2>3. IsPrefix(p, r) <=> n <= Len(r) /\ (\A i \in 1 .. n : r[i] = a[i])
    <3>1. IsPrefix(p, r) <=> Starts(p, r)
      BY <1>6, PrefixElements
    <3> QED BY <1>6, <3>1 DEF Starts
  <2> QED BY <1>6, <2>1, <2>2, <2>3
<1>9. \A k \in 0 .. Len(u) :
        IsPrefix(SubSeq(u, 1, k), w) <=> k <= Len(w) /\ \A q \in 1 .. k : w[q] = u[q]
  <2> TAKE k \in 0 .. Len(u)
  <2> HIDE DEF u, w
  <2> DEFINE v == SubSeq(u, 1, k)
  <2>1. k \in Nat /\ \A q \in 1 .. k : u[q] \in Seq(S)
    BY <1>5
  <2>2. v \in Seq(Seq(S)) /\ Len(v) = k /\ \A q \in 1 .. k : v[q] = u[q]
    BY <2>1, SubSeqProperties
  <2> HIDE DEF v
  <2>3. IsPrefix(v, w) <=> Starts(v, w)
    BY <1>5, <2>2, PrefixElements
  <2>4. IsPrefix(v, w) <=> k <= Len(w) /\ \A q \in 1 .. k : w[q] = u[q]
    BY <2>2, <2>3 DEF Starts
  <2> QED BY <2>4 DEF v
<1>10. LiesBelow(r, a) <=>
         \E k \in 0 .. Len(u) : /\ \A i \in k + 1 .. Len(u) : u[i] = <<>>
                                /\ k <= Len(w) /\ \A q \in 1 .. k : w[q] = u[q]
  <2>1. Segments(a) = u /\ Segments(r) = w
    BY <1>2, <1>3
  <2> HIDE DEF u, w
  <2> QED BY <1>9, <2>1 DEF LiesBelow
<1>11. CASE n = 0
  <2>1. t = <<>>
    BY <1>2, <1>11 DEF Splits
  <2>2. \A i \in 1 .. Len(u) : u[i] = <<>>
    <3> HIDE DEF u, t
    <3> QED BY <1>5, <1>7, <2>1 DEF Ends
  <2>3. 0 \in 0 .. Len(u) /\ 0 <= Len(w) /\ \A i \in 0 + 1 .. Len(u) : u[i] = <<>>
    <3> HIDE DEF u, w
    <3> QED BY <1>5, <2>2
  <2> HIDE DEF u, w
  <2>4. PathMatches(a, r)
    BY <1>8, <1>11
  <2>5. LiesBelow(r, a)
    <3>1. \A q \in 1 .. 0 : w[q] = u[q]
      OBVIOUS
    <3> QED BY <1>10, <2>3, <3>1
  <2> QED BY <2>4, <2>5
<1>12. CASE n # 0
  <2>1. n \in 1 .. Len(a) /\ a[n] # Slash
    BY <1>1, <1>4, <1>12 DEF Trims, Slash
  <2>2. K > 0 /\ Len(t[K]) > 0
    <3> HIDE DEF t, K
    <3>1. Len(f[n]) > 0 /\ Len(f[n][Len(f[n])]) > 0
      BY <1>4, <2>1, HasSegment
    <3> QED BY <3>1 DEF t, K
  <2>3. /\ K <= Len(u) /\ u[K] = t[K] /\ \A q \in 1 .. K : u[q] = t[q]
        /\ \A q \in K + 1 .. Len(u) : u[q] = <<>>
    <3> HIDE DEF u, t
    <3>1. K <= Len(u) /\ \A q \in 1 .. Len(u) : u[q] = IF q <= K THEN t[q] ELSE <<>>
      BY <1>7 DEF Ends
    <3> HIDE DEF K
    <3>2. K \in 1 .. Len(u) /\ K <= K
      BY <1>5, <2>2, <3>1
    <3>3. \A q \in 1 .. K : q \in 1 .. Len(u) /\ q <= K
      BY <1>5, <3>1
    <3>4. \A q \in K + 1 .. Len(u) : q \in 1 .. Len(u) /\ ~(q <= K)
      BY <1>5
    <3> QED BY <3>1, <3>2, <3>3, <3>4
  <2>4. ASSUME n <= Len(r), \A i \in 1 .. n : r[i] = a[i], Len(r) > n => r[n + 1] = "/"
        PROVE  K <= Len(w) /\ \A q \in 1 .. K : w[q] = u[q]
    <3>1. g[n] = t
      BY <1>2, <1>3, <1>4, <2>4, SameStart
    <3>2. K <= Len(w) /\ \A q \in 1 .. K : w[q] = t[q]
      <4>1. CASE Len(r) = n
        <5>1. w = t
          BY <3>1, <4>1
        <5> HIDE DEF w, t
        <5> QED BY <1>5, <5>1
      <4>2. CASE Len(r) > n
        <5>1. n \in 1 .. Len(r) /\ r[n + 1] = Slash /\ n \in 0 .. Len(r) /\ Len(r) \in n .. Len(r)
          BY <1>4, <2>1, <2>4, <4>2 DEF Slash
        <5>2. Shows(t, w, Slash)
          BY <1>4, <3>1, <4>2, <5>1, NextShows
        <5>3. Grows(t, w)
          BY <1>3, <3>1, <5>1, Grown
        <5> HIDE DEF w, t
        <5>4. K < Len(w) /\ w[K] = t[K]
          BY <5>2 DEF Shows
        <5>5. \A q \in 1 .. K : q < K => w[q] = t[q]
          BY <5>3 DEF Grows
        <5> HIDE DEF K
        <5> QED BY <1>5, <5>4, <5>5
      <4> QED BY <1>4, <2>4, <4>1, <4>2
    <3> HIDE DEF u, w, t, K
    <3> QED BY <2>3, <3>2
  <2>5. ASSUME NEW k \in 0 .. Len(u), \A i \in k + 1 .. Len(u) : u[i] = <<>>,
               k <= Len(w), \A q \in 1 .. k : w[q] = u[q]
        PROVE  /\ n <= Len(r) /\ \A i \in 1 .. n : r[i] = a[i]
               /\ Len(r) > n => r[n + 1] = "/"
    <3>1. K <= k
      <4> HIDE DEF u, w, t, K
      <4>1. u[K] # <<>>
        BY <2>2, <2>3
      <4> SUFFICES ASSUME K > k PROVE FALSE
        BY <1>5
      <4>2. K \in k + 1 .. Len(u)
        BY <1>5, <2>3
      <4> QED BY <2>5, <4>1, <4>2
    <3>2. K <= Len(w) /\ \A q \in 1 .. K : w[q] = u[q]
      <4> HIDE DEF u, w, t, K
      <4> QED BY <1>5, <2>5, <3>1
    <3>3. Len(f[n]) <= Len(g[Len(r)]) /\ (\A q \in 1 .. Len(f[n]) : g[Len(r)][q] = f[Len(a)][q])
          /\ f[Len(a)][Len(f[n])] = f[n][Len(f[n])]
      BY <2>3, <3>2
    <3> QED BY <1>4, <2>1, <3>3, SameCharacters DEF Slash
  <2>6. K \in 0 .. Len(u)
    <3> HIDE DEF u, K
    <3> QED BY <1>5, <2>3
  <2> HIDE DEF u, w, t, K
  <2>7. PathMatches(a, r) => LiesBelow(r, a)
    BY <1>8, <1>10, <1>12, <2>3, <2>4, <2>6
  <2>8. LiesBelow(r, a) => PathMatches(a, r)
    <3> SUFFICES ASSUME LiesBelow(r, a) PROVE PathMatches(a, r)
      OBVIOUS
    <3>1. PICK k \in 0 .. Len(u) :
             /\ \A i \in k + 1 .. Len(u) : u[i] = <<>>
             /\ k <= Len(w) /\ \A q \in 1 .. k : w[q] = u[q]
      BY <1>10
    <3>2. /\ n <= Len(r) /\ \A i \in 1 .. n : r[i] = a[i]
          /\ Len(r) > n => r[n + 1] = "/"
      BY <2>5, <3>1
    <3> QED BY <1>8, <3>2
  <2> QED BY <2>7, <2>8
<1> QED BY <1>11, <1>12

-----------------------------------------------------------------------------
(* The allowlist.                                                          *)

\* Targets are kept as parsed, and an answer is that of the check.
PolicyInv ==
    /\ permissions \in Seq([url : Urls, methods : [any : BOOLEAN, only : SUBSET (Methods \cup {"invalid"})]])
    /\ \A i \in DOMAIN permissions : permissions[i].url.port = DefaultPort => permissions[i].url.port = "none"
    /\ verdict # <<>> =>
         /\ verdict[1].target \in Urls
         /\ verdict[1].allowed = IsAllowed(Parse(verdict[1].target), verdict[1].method)

\* Parsing changes nothing but the port.
LEMMA ParseFacts ==
    ASSUME NEW u \in Urls
    PROVE  /\ Parse(u) \in Urls /\ Parse(u).host = u.host /\ Parse(u).scheme = u.scheme /\ Parse(u).path = u.path
           /\ Parse(u).port = IF u.port = DefaultPort THEN "none" ELSE u.port
  BY DEF Parse, Urls

\* Paths begin with a slash.
LEMMA PathFacts ==
    ASSUME NEW p \in Paths
    PROVE  p \in Seq(PathChars \cup {"/"}) /\ Len(p) > 0 /\ p[1] = "/"
<1>1. PICK q \in BoundedSeq(PathChars, MaxPath - 1) : p = <<"/">> \o q
  BY DEF Paths
<1>2. q \in Seq(PathChars \cup {"/"})
  BY <1>1 DEF BoundedSeq, SeqOf
<1>3. <<"/">> \in Seq(PathChars \cup {"/"}) /\ Len(<<"/">>) = 1 /\ <<"/">>[1] = "/"
  OBVIOUS
<1> QED BY <1>1, <1>2, <1>3, ConcatProperties

\* An answer that is the check's is right by segments.
LEMMA CheckBySegments == PolicyInv => AllowedBySegments
<1> SUFFICES ASSUME PolicyInv, verdict # <<>>
             PROVE  Answered.allowed <=>
                      /\ Answered.method \notin {"CONNECT", "TRACE"}
                      /\ \E i \in DOMAIN permissions :
                           LET p == permissions[i]
                           IN  /\ SameOrigin(p.url, Answered.target)
                               /\ LiesBelow(Answered.target.path, p.url.path)
                               /\ p.methods.any \/ Answered.method \in p.methods.only
  BY DEF AllowedBySegments, Checked
<1> DEFINE u == Answered.target
<1>1. u \in Urls /\ Answered.allowed = IsAllowed(Parse(u), Answered.method)
  BY DEF PolicyInv, Answered
<1>2. u.path \in Paths
  BY <1>1 DEF Urls
<1>3. /\ Parse(u).host = u.host /\ Parse(u).scheme = u.scheme /\ Parse(u).path = u.path
      /\ Parse(u).port = IF u.port = DefaultPort THEN "none" ELSE u.port
  BY <1>1, ParseFacts
<1> HIDE DEF u
<1>4. ASSUME NEW i \in DOMAIN permissions
      PROVE  /\ SameOrigin(permissions[i].url, u) <=>
                  /\ Parse(u).host = permissions[i].url.host
                  /\ Parse(u).scheme = permissions[i].url.scheme
                  /\ Parse(u).port = permissions[i].url.port
             /\ LiesBelow(u.path, permissions[i].url.path) <=> PathMatches(permissions[i].url.path, Parse(u).path)
  <2> DEFINE t == permissions[i].url
  <2>1. t \in Urls /\ (t.port = DefaultPort => t.port = "none")
    <3> DEFINE Permission == [url : Urls, methods : [any : BOOLEAN, only : SUBSET (Methods \cup {"invalid"})]]
    <3>1. permissions \in Seq(Permission) /\ (t.port = DefaultPort => t.port = "none")
      BY DEF PolicyInv
    <3>2. permissions[i] \in Permission
      <4> HIDE DEF Permission
      <4> QED BY <3>1
    <3> QED BY <3>1, <3>2
  <2>2. t.path \in Paths
    BY <2>1 DEF Urls
  <2> HIDE DEF t
  <2>3. SameOrigin(t, u) <=>
          Parse(u).host = t.host /\ Parse(u).scheme = t.scheme /\ Parse(u).port = t.port
    BY <1>3, <2>1 DEF SameOrigin, EffectivePort
  <2>4. LiesBelow(u.path, t.path) <=> PathMatches(t.path, Parse(u).path)
    BY <1>2, <1>3, <2>2, PathFacts, MatchesBelow
  <2> QED BY <2>3, <2>4 DEF t
<1>5. IsAllowed(Parse(u), Answered.method) <=>
        /\ Answered.method \notin {"CONNECT", "TRACE"}
        /\ \E i \in DOMAIN permissions :
             /\ Parse(u).host = permissions[i].url.host
             /\ Parse(u).scheme = permissions[i].url.scheme
             /\ Parse(u).port = permissions[i].url.port
             /\ PathMatches(permissions[i].url.path, Parse(u).path)
             /\ permissions[i].methods.any \/ Answered.method \in permissions[i].methods.only
  BY DEF IsAllowed, BlockedMethods
<1> QED BY <1>1, <1>4, <1>5 DEF u

\* The methods of a list that was parsed.
LEMMA ListMethods ==
    ASSUME NEW given \in BOOLEAN, NEW list
    PROVE  ParseList(given, list) \in [any : BOOLEAN, only : SUBSET (Methods \cup {"invalid"})]
<1>1. \A name : FromStr(name) \in Methods \cup {"invalid"}
  BY DEF FromStr, Methods
<1> QED BY <1>1 DEF ParseList, AnyMethod, Only

\* Permissions are only added, before the check, and the check is made once.
LEMMA PolicyStep == PolicyInv /\ [PolicyNext]_policyVars => PolicyInv'
<1> SUFFICES ASSUME PolicyInv, [PolicyNext]_policyVars PROVE PolicyInv' OBVIOUS
<1> DEFINE Permission == [url : Urls, methods : [any : BOOLEAN, only : SUBSET (Methods \cup {"invalid"})]]
<1>1. ASSUME NEW target \in Urls, NEW given \in BOOLEAN, NEW list, AddDomain(target, given, list)
      PROVE  PolicyInv'
  <2>1. CASE permissions' = Append(permissions, [url |-> Parse(target), methods |-> ParseList(given, list)])
    <3> DEFINE new == [url |-> Parse(target), methods |-> ParseList(given, list)]
    <3>1. new \in Permission /\ (new.url.port = DefaultPort => new.url.port = "none")
      <4>1. Parse(target) \in Urls /\ Parse(target).port = IF target.port = DefaultPort THEN "none" ELSE target.port
        BY ParseFacts
      <4>2. ParseList(given, list) \in [any : BOOLEAN, only : SUBSET (Methods \cup {"invalid"})]
        BY ListMethods
      <4> QED BY <4>1, <4>2
    <3>2. verdict' = <<>>
      BY <1>1 DEF AddDomain
    <3> HIDE DEF new, Permission
    <3>3. permissions \in Seq(Permission)
      BY DEF PolicyInv, Permission
    <3>4. permissions' = Append(permissions, new)
      BY <2>1 DEF new
    <3>5. /\ permissions' \in Seq(Permission) /\ DOMAIN permissions' = 1 .. Len(permissions) + 1
          /\ DOMAIN permissions = 1 .. Len(permissions) /\ Len(permissions) \in Nat
          /\ \A i \in 1 .. Len(permissions) : permissions'[i] = permissions[i]
          /\ permissions'[Len(permissions) + 1] = new
      BY <3>1, <3>3, <3>4, AppendProperties
    <3>6. \A i \in DOMAIN permissions' :
            permissions'[i].url.port = DefaultPort => permissions'[i].url.port = "none"
      <4> TAKE i \in DOMAIN permissions'
      <4>1. CASE i \in 1 .. Len(permissions)
        BY <3>5, <4>1 DEF PolicyInv
      <4>2. CASE i = Len(permissions) + 1
        BY <3>1, <3>5, <4>2
      <4> QED BY <3>5, <4>1, <4>2
    <3> QED BY <3>2, <3>5, <3>6 DEF PolicyInv, Permission
  <2>2. CASE UNCHANGED permissions
    BY <1>1, <2>2 DEF AddDomain, PolicyInv
  <2> QED BY <1>1, <2>1, <2>2 DEF AddDomain
<1>2. ASSUME NEW target \in Urls, NEW method \in Methods, Request(target, method) PROVE PolicyInv'
  <2>1. UNCHANGED permissions /\ verdict'[1] = [target |-> target, method |-> method,
                                               allowed |-> IsAllowed(Parse(target), method)]
    BY <1>2 DEF Request
  <2>2. IsAllowed(Parse(target), method)' = IsAllowed(Parse(target), method)
    BY <2>1 DEF IsAllowed
  <2> QED BY <2>1, <2>2 DEF PolicyInv
<1>3. CASE UNCHANGED policyVars
  BY <1>3 DEF policyVars, PolicyInv, IsAllowed
<1> QED BY <1>1, <1>2, <1>3 DEF PolicyNext

\* The allowlist answers by segments, for any targets, lists of methods and requests.
THEOREM AllowedCorrect == PolicySpec => []AllowedBySegments
<1>1. PolicyInit => PolicyInv
  BY DEF PolicyInit, PolicyInv
<1> QED BY <1>1, PolicyStep, CheckBySegments, PTL DEF PolicySpec
=============================================================================
