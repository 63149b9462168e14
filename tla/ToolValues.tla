------------------------------- MODULE ToolValues ------------------------------
(***************************************************************************)
(* The values of tool calls: the estimate of an argument's size (tools.rs) *)
(* and the conversions between JSON and Python (pyo3_common), with what    *)
(* they promise.  A name takes one byte.  Operators whose comment starts   *)
(* with "Defect" are plausible bugs and not part of the model.             *)
(***************************************************************************)
EXTENDS ToolProps, FiniteSets, Functions

-----------------------------------------------------------------------------
(* Sizes.                                                                  *)

Commas(n) == IF n = 0 THEN 0 ELSE n - 1

QuotedName == 1 + 2

\* Defect: the colon after a name is not counted.
KeySizeNoColon == QuotedName

\* What the estimate counts for a name of a field.
KeySize == QuotedName + 1

EstimateScalar(v) ==
    CASE v.t = "null"    -> 4
      [] v.t = "boolean" -> IF v.bool THEN 4 ELSE 5
      [] v.t = "number"  -> v.digits
      [] v.t = "string"  -> v.bytes + 2

\* estimate_json_size_inner, with the levels it may still go down: what is too deep
\* counts nothing, escapes are not counted.
EstimateInner[at \in Nat \X Values] ==
    LET left == at[1]
        v == at[2]
    IN  IF left = 0 THEN 0
        ELSE CASE v.t = "array" ->
                     2 + SumFunction([i \in DOMAIN v.items |-> EstimateInner[<<left - 1, v.items[i]>>]])
                       + Commas(Len(v.items))
               [] v.t = "object" ->
                     2 + SumFunction([n \in DOMAIN v.fields |-> KeySize + EstimateInner[<<left - 1, v.fields[n]>>]])
                       + Commas(Cardinality(DOMAIN v.fields))
               [] OTHER -> EstimateScalar(v)

EstimateJsonSize(v) == EstimateInner[<<MaxDepth + 1, v>>]

SerializedScalar(v) ==
    CASE v.t = "null"    -> 4
      [] v.t = "boolean" -> IF v.bool THEN 4 ELSE 5
      [] v.t = "number"  -> v.digits
      [] v.t = "string"  -> v.bytes + v.escaped + 2

\* What serde_json writes: the reference for the estimate.
SerializedSize[v \in Values] ==
    CASE v.t = "array"  -> 2 + SumFunction([i \in DOMAIN v.items |-> SerializedSize[v.items[i]]])
                             + Commas(Len(v.items))
      [] v.t = "object" -> 2 + SumFunction([n \in DOMAIN v.fields |-> QuotedName + 1 + SerializedSize[v.fields[n]]])
                             + Commas(Cardinality(DOMAIN v.fields))
      [] OTHER -> SerializedScalar(v)

-----------------------------------------------------------------------------
(* Conversions.  A Python value is a record whose field "py" is its class. *)

DepthExceeded == [t |-> "depth exceeded"]

JsonScalarToPy(v) ==
    CASE v.t = "null"    -> [py |-> "None"]
      [] v.t = "boolean" -> [py |-> "bool", bool |-> v.bool]
      [] v.t = "number"  -> [py |-> IF v.class = "i64" THEN "int" ELSE "float",
                             digits |-> v.digits]
      [] v.t = "string"  -> [py |-> "str", string |-> v]

JsonToPy[v \in Values] ==
    CASE v.t = "array"  -> [py |-> "list", items |-> [i \in DOMAIN v.items |-> JsonToPy[v.items[i]]]]
      [] v.t = "object" -> [py |-> "dict", entries |-> [n \in DOMAIN v.fields |-> JsonToPy[v.fields[n]]]]
      [] OTHER -> JsonScalarToPy(v)

\* What a Python tool gets, and may return unchanged.
PyValues == {JsonToPy[v] : v \in Values}

Failed(values) == \E i \in DOMAIN values : values[i] = DepthExceeded

\* Defect: integers are looked for before booleans, which are integers in Python.
PyScalarToJsonIntFirst(o) ==
    CASE o.py = "None"  -> Null
      [] o.py = "bool"  -> Number("i64", 1)
      [] o.py = "int"   -> Number("i64", o.digits)
      [] o.py = "float" -> Number("float", o.digits)
      [] o.py = "str"   -> o.string

PyScalarToJson(o) ==
    CASE o.py = "None"  -> Null
      [] o.py = "bool"  -> Bool(o.bool)
      [] o.py = "int"   -> Number("i64", o.digits)
      [] o.py = "float" -> Number("float", o.digits)
      [] o.py = "str"   -> o.string

\* py_to_json_inner, with the levels it may still go down.
PyToJsonInner[at \in Nat \X PyValues] ==
    LET left == at[1]
        o == at[2]
    IN  IF left = 0 THEN DepthExceeded
        ELSE CASE o.py = "list" ->
                     LET inner == [i \in DOMAIN o.items |-> PyToJsonInner[<<left - 1, o.items[i]>>]]
                     IN  IF Failed(inner) THEN DepthExceeded ELSE Array(inner)
               [] o.py = "dict" ->
                     LET inner == [n \in DOMAIN o.entries |-> PyToJsonInner[<<left - 1, o.entries[n]>>]]
                     IN  IF Failed(inner) THEN DepthExceeded ELSE Object(inner)
               [] OTHER -> PyScalarToJson(o)

PyToJson(o) == PyToJsonInner[<<MaxDepth + 1, o>>]

-----------------------------------------------------------------------------
(* What they promise.                                                      *)

\* What is in the first levels of a value, with the value.
Within[at \in Nat \X Values] ==
    LET levels == at[1]  v == at[2] IN
        IF levels = 0 THEN {} ELSE {v} \cup UNION {Within[<<levels - 1, w>>] : w \in Parts(v)}

\* Whether a value has just so many levels.
Shallow[at \in Nat \X Values] ==
    LET levels == at[1]  v == at[2] IN levels > 0 /\ \A w \in Parts(v) : Shallow[<<levels - 1, w>>]

NotTooDeep(v)   == Shallow[<<MaxDepth + 1, v>>]
Unescaped(some) == \A w \in some : w.t = "string" => w.escaped = 0
Converts(some)  == \A w \in some : w.t = "number" => w.class # "u64"

(* The bound documented at tools.rs:235-236, "Conservative upper bound ... *)
(* but never undercounts": the limit on arguments is never met by          *)
(* arguments whose JSON text is beyond it.                                 *)
NeverUndercounts == EstimateJsonSize(call.args) >= SerializedSize[call.args]

(* What the estimate does instead: it is at most the size of the JSON text *)
(* (tools.rs:237), and the size itself for arguments without escapes that  *)
(* are not too deep, where the documented bound therefore holds.           *)
EstimateExact ==
    /\ EstimateJsonSize(call.args) <= SerializedSize[call.args]
    /\ NotTooDeep(call.args) /\ Unescaped(Within[<<MaxDepth + 1, call.args>>]) =>
         EstimateJsonSize(call.args) = SerializedSize[call.args]

(* What a Python tool gets and returns unchanged comes back unchanged, but *)
(* for integers beyond i64, and is refused just when it is too deep.       *)
RoundTrip ==
    Converts(Within[<<MaxDepth + 1, call.args>>]) =>
        PyToJson(JsonToPy[call.args]) =
            IF NotTooDeep(call.args) THEN call.args ELSE DepthExceeded
===============================================================================
