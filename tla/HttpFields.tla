------------------------------- MODULE HttpFields -------------------------------
(***************************************************************************)
(* Headers and responses of the Wasm backend (headers.rs, the fields,      *)
(* request and response bindings of http.rs, and send_http_request): the   *)
(* guest builds and changes header maps, a request takes them along, the   *)
(* handler sends them, and an answer comes back with headers and a body    *)
(* under limits.                                                           *)
(*                                                                         *)
(* A fields resource is shared, never copied: fields.clone and the headers *)
(* of a request or response are the resource itself, so the guest can      *)
(* reach and try to change every map at any time.  A value is its length   *)
(* and what its bytes are; a body is its length.  Definitions marked       *)
(* "Defect" are plausible bugs and not part of the specification.          *)
(***************************************************************************)
EXTENDS Naturals, SequencesExt

CONSTANTS
    Names,        \* header names; each counts one byte
    Host,
    Forbidden,    \* FORBIDDEN_REQUEST_HEADERS
    Values,       \* values of headers
    MaxCount,     \* MAX_RESPONSE_HEADER_COUNT
    MaxBytes,     \* MAX_RESPONSE_HEADER_BYTES
    MaxResponse,  \* MAX_RESPONSE_BYTES
    MaxBody,      \* MAX_BUFFER_BYTES
    Maps,         \* the fields resources the guest creates
    Requests,
    Answers,      \* what servers answer: headers and lengths of body frames
    MaxEntries    \* bound: entries the guest puts into one map

Bytewise == {"ascii", "utf8", "bytes"}
Header == [name : Names, value : [len : Nat, is : Bytewise \cup {"lossy"}]]
Authority == [len |-> 0, is |-> "ascii"]

ASSUME FieldsAssumption ==
    /\ Host \in Forbidden /\ Forbidden \subseteq Names
    /\ Values \subseteq [len : Nat, is : Bytewise]
    /\ \A a \in Answers : a.headers \in Seq([name : Names, value : Values]) /\ a.frames \in Seq(Nat)
    /\ {MaxCount, MaxBytes, MaxResponse, MaxBody, MaxEntries} \subseteq Nat
    /\ MaxResponse <= MaxBody
    /\ Maps \cap Requests = {}

VARIABLES
    fields,    \* every header map: the guest's, and the response's of each request
    request,   \* the fields, guest_headers and state of each request
    sent,      \* the headers that left the sandbox
    response   \* the body the guest may read, and what the server sent

fieldsVars == <<fields, request, sent, response>>

Nothing == [state |-> "none"]
NoMap == [entries |-> <<>>, immutable |-> FALSE]

Total(numbers) ==
    LET sum[n \in 0 .. Len(numbers)] == IF n = 0 THEN 0 ELSE sum[n - 1] + numbers[n]
    IN  sum[Len(numbers)]

Bytes(entries) == Total([i \in DOMAIN entries |-> 1 + entries[i].value.len])
IsForbidden(n) == n \in Forbidden

\* The entries with other names, in their order.
Drop(entries, names) ==
    LET kept[n \in 0 .. Len(entries)] ==
          IF n = 0 THEN <<>>
          ELSE IF entries[n].name \in names THEN kept[n - 1] ELSE Append(kept[n - 1], entries[n])
    IN  kept[Len(entries)]

Without(entries, n) == Drop(entries, {n})

-----------------------------------------------------------------------------
(* Fields.                                                                 *)

\* Headers::from_list: the limits before each entry, and no forbidden name.
FromListOk(list) ==
    /\ Len(list) <= MaxCount /\ Bytes(list) <= MaxBytes
    /\ \A i \in DOMAIN list : ~IsForbidden(list[i].name)

FromList(m, list) ==
    /\ FromListOk(list)
    /\ fields' = [fields EXCEPT ![m] = [entries |-> list, immutable |-> FALSE]]
    /\ UNCHANGED <<request, sent, response>>

\* Headers::set replaces the values of a name; it knows no limits.
Set(m, n, values) ==
    /\ ~fields[m].immutable /\ ~IsForbidden(n)
    /\ Len(fields[m].entries) + Len(values) <= MaxEntries
    /\ fields' = [fields EXCEPT ![m].entries =
                     Without(@, n) \o [i \in DOMAIN values |-> [name |-> n, value |-> values[i]]]]
    /\ UNCHANGED <<request, sent, response>>

\* Headers::delete.
Delete(m, n) ==
    /\ ~fields[m].immutable /\ ~IsForbidden(n)
    /\ fields' = [fields EXCEPT ![m].entries = Without(@, n)]
    /\ UNCHANGED <<request, sent, response>>

\* Defect: the headers of a response can be changed.
AppendAnywhere(m, n, value) ==
    /\ ~IsForbidden(n)
    /\ Len(fields[m].entries) < MaxCount /\ Bytes(fields[m].entries) + 1 + value.len <= MaxBytes
    /\ fields' = [fields EXCEPT ![m].entries = Append(@, [name |-> n, value |-> value])]
    /\ UNCHANGED <<request, sent, response>>

\* Headers::append, within the limits.
AppendHeader(m, n, value) ==
    /\ ~fields[m].immutable
    /\ ~IsForbidden(n)
    /\ Len(fields[m].entries) < MaxCount /\ Bytes(fields[m].entries) + 1 + value.len <= MaxBytes
    /\ fields' = [fields EXCEPT ![m].entries = Append(@, [name |-> n, value |-> value])]
    /\ UNCHANGED <<request, sent, response>>

-----------------------------------------------------------------------------
(* Requests.                                                               *)

\* outgoing-request.new keeps the fields it was given, those of a response included.
NewRequest(r, m) ==
    /\ request[r] = Nothing
    /\ request' = [request EXCEPT ![r] = [state |-> "built", fields |-> m]]
    /\ UNCHANGED <<fields, sent, response>>

\* String::from_utf8_lossy.
Lossy(v) == IF v.is = "bytes" THEN [v EXCEPT !.is = "lossy"] ELSE v

\* handle() collects the headers before it spawns the task.
Handle(r) ==
    /\ request[r].state = "built"
    /\ request' = [request EXCEPT ![r] =
           [state |-> "sending", fields |-> request[r].fields,
            guestHeaders |-> [i \in DOMAIN fields[request[r].fields].entries |->
                LET e == fields[request[r].fields].entries[i] IN [e EXCEPT !.value = Lossy(@)]]]]
    /\ UNCHANGED <<fields, sent, response>>

\* build_hyper_request: the host of the URL, and no forbidden header.
BuildHyperRequest(headers) ==
    <<[name |-> Host, value |-> Authority]>> \o Drop(headers, Forbidden)

\* Defect: the task reads the fields when it sends.
SendLate(r) ==
    /\ request[r].state = "sending" /\ sent[r] = <<>>
    /\ sent' = [sent EXCEPT ![r] = BuildHyperRequest(fields[request[r].fields].entries)]
    /\ UNCHANGED <<fields, request, response>>

\* The handler task, some time later.
Send(r) ==
    /\ request[r].state = "sending" /\ sent[r] = <<>>
    /\ sent' = [sent EXCEPT ![r] = BuildHyperRequest(request[r].guestHeaders)]
    /\ UNCHANGED <<fields, request, response>>

-----------------------------------------------------------------------------
(* Answers.                                                                *)

\* HeaderValue::to_str or the empty string.
ToStr(v) == IF v.is = "ascii" THEN v ELSE [len |-> 0, is |-> "ascii"]

\* cap_response_headers: the entries before the first that is over a limit; of
\* several with one name the map keeps the last, and the bytes of all count.
Distinct(entries) == Cardinality({entries[i].name : i \in DOMAIN entries})
ToStrs(entries) == [i \in DOMAIN entries |-> [entries[i] EXCEPT !.value = ToStr(@)]]

WithinCaps(entries, k) ==
    \A j \in 1 .. k :
      Distinct(SubSeq(entries, 1, j - 1)) < MaxCount /\ Bytes(SubSeq(entries, 1, j)) <= MaxBytes

Accepted(entries) ==
    CHOOSE k \in 0 .. Len(entries) :
      WithinCaps(entries, k) /\ (k = Len(entries) \/ ~WithinCaps(entries, k + 1))

CapResponseHeaders(raw) ==
    LET strs == ToStrs(raw)
        map[n \in 0 .. Len(raw)] ==
          IF n = 0 THEN <<>> ELSE Append(Without(map[n - 1], strs[n].name), strs[n])
    IN  map[Accepted(strs)]

\* collect_response_body: an error as soon as a frame would exceed the limit.
CollectResponseBody(frames) ==
    \A k \in 0 .. Len(frames) : Total(SubSeq(frames, 1, k)) <= MaxResponse

\* The answer becomes an immutable map and a Buffer; the send may fail or time
\* out before, or while it reads the body.
Answer(r, a) ==
    /\ request[r].state = "sending" /\ sent[r] # <<>>
    /\ request' = [request EXCEPT ![r] = [state |-> "done"]]
    /\ \/ /\ CollectResponseBody(a.frames)
          /\ fields' = [fields EXCEPT ![r] =
                [entries |-> CapResponseHeaders(a.headers), immutable |-> TRUE]]
          /\ response' = [response EXCEPT ![r] =
                [state |-> "ok", headers |-> a.headers,
                 body |-> Min({MaxBody, Total(a.frames)}), server |-> Total(a.frames)]]
       \/ /\ response' = [response EXCEPT ![r] = [state |-> "error"]]
          /\ UNCHANGED fields
    /\ UNCHANGED sent

-----------------------------------------------------------------------------
FieldsInit ==
    /\ fields = [m \in Maps \cup Requests |-> NoMap]
    /\ request = [r \in Requests |-> Nothing]
    /\ sent = [r \in Requests |-> <<>>]
    /\ response = [r \in Requests |-> Nothing]

\* The maps the guest has: its own, and those of responses.
Reachable == Maps \cup {r \in Requests : response[r].state = "ok"}
Lists == {<<>>} \cup {<<[name |-> n, value |-> v]>> : n \in Names, v \in Values}

FieldsNext ==
    \/ \E m \in Maps, list \in Lists : FromList(m, list)
    \/ \E m \in Reachable, n \in Names :
          \/ Delete(m, n)
          \/ \E v \in Values : AppendHeader(m, n, v) \/ Set(m, n, <<v>>) \/ Set(m, n, <<v, v>>)
    \/ \E r \in Requests, m \in Reachable : NewRequest(r, m)
    \/ \E r \in Requests : Handle(r) \/ Send(r) \/ \E a \in Answers : Answer(r, a)

FieldsSpec == FieldsInit /\ [][FieldsNext]_fieldsVars
=============================================================================
