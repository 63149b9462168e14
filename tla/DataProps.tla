------------------------------- MODULE DataProps -------------------------------
(***************************************************************************)
(* What the byte streams of the guest, and the headers and answers of      *)
(* outgoing HTTP promise.                                                  *)
(***************************************************************************)
EXTENDS WasiStreams, HttpFields

-----------------------------------------------------------------------------
(* Streams.                                                                *)

(* The outgoing body is a prefix of what writes, zeroes and splices        *)
(* offered, and all of it as long as the buffer has room: bytes a full     *)
(* buffer cut are never followed by later ones.                            *)
Content == body.sent \o body.data

NoHoles ==
    /\ Content = First(offered, Len(Content))
    /\ Len(Content) = Least(MaxBuffer, Len(offered))

(* splice reads before it writes.  What it takes out of a response or      *)
(* stdin is in the destination afterwards, unless that filled the buffer   *)
(* of the body, which cuts, or failed on the file and closed its stream.   *)
Delivered(o, bytes) ==
    IF o = "body"
    THEN Content' = Content \o bytes \/ Len(body'.data) = MaxBuffer
    ELSE LET st == streams'[handles[o].id] IN
         st = None \/ SubSeq(files'[st.file], st.offset - Len(bytes) + 1, st.offset) = bytes

SpliceKeeps ==
    [][\A o \in Writers, i \in Inputs, len \in Lens :
         inputs' # inputs /\ Splice(o, i, len) =>
           Delivered(o, First(inputs[i].data, Len(inputs[i].data) - Len(inputs'[i].data)))]_streamsVars

(* A blocking call waits until its stream is ready and then makes the      *)
(* operation.  Whatever is ready must answer, with bytes, a permit or an   *)
(* error, or a loop would spin: kept over run boundaries too.  Whatever    *)
(* would answer must be ready, or the call waits for ever: this much the   *)
(* code gives only to a resource that is alone with its number.  One kept  *)
(* over a run boundary is told Closed and is never readable, and so is one *)
(* whose number a kept resource has, once that closes the stream.          *)
Responds(i) == \A answer \in ReadOf(i, 1) : answer.ok => answer.data # <<>>
Owned(h) == h \in Handles => handles[h].claim = "own"

ReadyMeansAnswer ==
    /\ \A i \in Readers :
         (Readable(i) => Responds(i)) /\ (Responds(i) /\ Owned(i) => Readable(i))
    /\ \A o \in Writers :
         (WriteReady(o) => 0 \notin CheckWrite(o)) /\ (0 \notin CheckWrite(o) /\ Owned(o) => WriteReady(o))

(* Run boundaries are "the safe point for releasing stale filesystem       *)
(* handles" (cap_fs.rs:598): a stream resource that the guest kept over    *)
(* one reaches no stream.  Expected to fail: the numbers start again, and  *)
(* the resource reads, writes or closes what the next run opens.           *)
StaleReleased ==
    \A h \in Handles : handles[h] # None /\ handles[h].claim = "kept" => streams[handles[h].id] = None

-----------------------------------------------------------------------------
(* Headers and answers.                                                    *)

(* A request leaves with the host of its URL and without the headers that  *)
(* are forbidden, whichever map it was built from (a response's may hold   *)
(* some and become the headers of the next request).  The rest is what the *)
(* map held when handle() was called, although the guest can change it     *)
(* before the task sends: what was let through is what is sent.            *)
SentAsHandled ==
    \A r \in Requests : sent[r] # <<>> =>
      /\ Head(sent[r]) = [name |-> Host, value |-> Authority]
      /\ \A i \in 2 .. Len(sent[r]) : sent[r][i].name \notin Forbidden
      /\ request[r].state = "sending" =>
           Tail(sent[r]) = Drop(request[r].guestHeaders, Forbidden)

(* The last value of each name of a list.                                  *)
LastOfEach(list) ==
    {list[i] : i \in {i \in DOMAIN list : \A j \in DOMAIN list : list[j].name = list[i].name => j <= i}}

(* An answer is what the server sent, as far as the limits allow, for ever *)
(* and through every alias of its headers: the headers are the last value  *)
(* of each name, up to the first that a limit refuses, and the body is     *)
(* whole (the limit of collect_response_body is not above the capacity of  *)
(* the Buffer the guest reads, which would cut silently).                  *)
ResponseIntact ==
    \A r \in Requests : response[r].state = "ok" =>
      LET kept == fields[r].entries
          strs == ToStrs(response[r].headers)
      IN  /\ response[r].body = response[r].server
          /\ Len(kept) <= MaxCount /\ Bytes(kept) <= MaxBytes
          /\ \E k \in 0 .. Len(strs) :
               /\ Range(kept) = LastOfEach(SubSeq(strs, 1, k)) /\ Len(kept) = Cardinality(Range(kept))
               /\ \/ k = Len(strs)
                  \/ Len(kept) = MaxCount
                  \/ Bytes(SubSeq(strs, 1, k + 1)) > MaxBytes
=============================================================================
