-------------------------------- MODULE MCData --------------------------------
(***************************************************************************)
(* Instances of WasiStreams and HttpFields for TLC.  The two share no      *)
(* state: a behaviour moves one of them.                                   *)
(***************************************************************************)
EXTENDS DataProps, TLC

CONSTANTS f, h1, h2, host, cookie, tag, m1, q1, q2

VARIABLE part  \* what this behaviour moves

\* A body of two bytes; the buffer holds two as well.
TwoBytes == <<1, 2>>

Ascii == [len |-> 1, is |-> "ascii"]
Binary == [len |-> 1, is |-> "bytes"]
MCValues == {Ascii, Binary}

H(n, v) == [name |-> n, value |-> v]

\* Servers that repeat a name, that send a forbidden one, and too many; bodies
\* at the limit and beyond it.
MCAnswers ==
    {[headers |-> <<H(cookie, Binary), H(cookie, Binary), H(tag, Ascii)>>, frames |-> <<1, 1>>],
     [headers |-> <<H(host, Ascii), H(cookie, Ascii), H(tag, Ascii)>>, frames |-> <<1, 2>>],
     [headers |-> <<>>, frames |-> <<2, 1>>],
     [headers |-> <<H(tag, Ascii)>>, frames |-> <<2, 2>>]}

dataVars == <<streamsVars, fieldsVars>>

MCInit == part \in {"streams", "fields"} /\ StreamsInit /\ FieldsInit

StreamsMove == part = "streams" /\ StreamsNext /\ UNCHANGED fieldsVars
FieldsMove == part = "fields" /\ FieldsNext /\ UNCHANGED streamsVars

MCNext == UNCHANGED part /\ (StreamsMove \/ FieldsMove)

MCSpec == MCInit /\ [][MCNext]_<<part, dataVars>>

Symmetry == Permutations(Handles) \cup Permutations(Requests)
===============================================================================
