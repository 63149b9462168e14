------------------------------- MODULE ToolArgs -------------------------------
(***************************************************************************)
(* The arguments of tool calls: their schemas as the SDKs make them and as *)
(* the core checks them (hyperlight_sandbox/src/tools.rs, the schema       *)
(* inference of pyo3_common, ToolSchemaBuilder and parse_tool_schema of    *)
(* .NET).  A JSON value is a record whose field "t" is its type.           *)
(***************************************************************************)
EXTENDS Integers, Sequences, FiniteSets

CONSTANT MaxDepth  \* MAX_JSON_DEPTH and MAX_PY_TO_JSON_DEPTH

ASSUME DepthAssumption == MaxDepth \in Nat

(* Operators whose comment starts with "Defect" are plausible bugs and not *)
(* part of the model.                                                      *)

-----------------------------------------------------------------------------
(* JSON values.                                                            *)

Null     == [t |-> "null"]
Bool(b)  == [t |-> "boolean", bool |-> b]
\* An integer of i64, one that only u64 holds, or a float, with its digits.
Number(class, digits) == [t |-> "number", class |-> class, digits |-> digits]
\* A string of n bytes, some of which serialize to two.
String(n, escaped) == [t |-> "string", bytes |-> n, escaped |-> escaped]
Array(items)   == [t |-> "array", items |-> items]
Object(fields) == [t |-> "object", fields |-> fields]

IsJson(v) ==
    CASE v.t = "null"    -> v = Null
      [] v.t = "boolean" -> v.bool \in BOOLEAN /\ v = Bool(v.bool)
      [] v.t = "number"  -> /\ v.class \in {"i64", "u64", "float"} /\ v.digits \in Nat
                            /\ v = Number(v.class, v.digits)
      [] v.t = "string"  -> v.bytes \in Nat /\ v.escaped \in Nat /\ v = String(v.bytes, v.escaped)
      [] v.t = "array"   -> /\ v.items = [i \in 1 .. Len(v.items) |-> v.items[i]] /\ Len(v.items) \in Nat
                            /\ v = Array(v.items)
      [] v.t = "object"  -> /\ v.fields = [n \in DOMAIN v.fields |-> v.fields[n]] /\ IsFiniteSet(DOMAIN v.fields)
                            /\ v = Object(v.fields)
      [] OTHER -> FALSE

\* The values right inside a value.
Parts(v) ==
    CASE v.t = "array"  -> {v.items[i] : i \in DOMAIN v.items}
      [] v.t = "object" -> {v.fields[n] : n \in DOMAIN v.fields}
      [] OTHER -> {}

-----------------------------------------------------------------------------
(* ToolSchema: the types of known arguments and the required arguments.    *)

NoType == "untyped"
Empty  == [properties |-> <<>>, required |-> {}]

Typed(s, n, type) ==
    [s EXCEPT !.properties = [m \in DOMAIN s.properties \cup {n} |-> IF m = n THEN type ELSE s.properties[m]]]

RequiredUntyped(s, n)   == [s EXCEPT !.required = @ \cup {n}]
OptionalArg(s, n, type) == Typed(s, n, type)
RequiredArg(s, n, type) == RequiredUntyped(Typed(s, n, type), n)

\* Those of many arguments, each with a schema of its own.
AllOf(schemas) ==
    [properties |-> [n \in {n \in DOMAIN schemas : n \in DOMAIN schemas[n].properties} |-> schemas[n].properties[n]],
     required   |-> UNION {schemas[n].required : n \in DOMAIN schemas}]

\* Arguments the schema does not name are accepted.
Validate(schema, args) ==
    /\ args.t = "object"
    /\ schema.required \subseteq DOMAIN args.fields
    /\ \A n \in DOMAIN schema.properties \cap DOMAIN args.fields :
            args.fields[n].t = schema.properties[n]

-----------------------------------------------------------------------------
(* Python: infer_tool_schema.  A parameter has a kind, an annotation and a *)
(* default, which is "required" when there is none.                        *)

TypeObjToArgType(name) ==
    CASE name \in {"int", "float"} -> "number"
      [] name = "str"  -> "string"
      [] name = "bool" -> "boolean"
      [] name = "dict" -> "object"
      [] name = "list" -> "array"
      [] OTHER -> NoType

\* Annotated[T, ...] stands for T.
InferTypeFromAnnotation(annotation) ==
    TypeObjToArgType(IF annotation = "Annotated[int]" THEN "int" ELSE annotation)

\* Defect: a boolean default is an integer, as in Python.
PyValueToArgTypeIntFirst(default) ==
    IF default \in {"bool", "int", "float"} THEN "number" ELSE TypeObjToArgType(default)

\* The default is known by its type; None and other objects have none.
PyValueToArgType(default) == TypeObjToArgType(default)

InferParameter(schema, n, p) ==
    LET annotated == InferTypeFromAnnotation(p.annotation)
        type == IF annotated # NoType \/ p.default = "required" THEN annotated
                ELSE PyValueToArgType(p.default)
    IN IF p.kind \in {"*args", "**kwargs"} THEN schema
       ELSE CASE p.default = "required" /\ type # NoType -> RequiredArg(schema, n, type)
              [] p.default = "required" /\ type = NoType -> RequiredUntyped(schema, n)
              [] p.default # "required" /\ type # NoType -> OptionalArg(schema, n, type)
              [] OTHER -> schema

InferToolSchema(signature) ==
    AllOf([n \in DOMAIN signature |-> InferParameter(Empty, n, signature[n])])

-----------------------------------------------------------------------------
(* .NET: BuildSchema writes the schema, parse_tool_schema reads it.        *)

MapType(type) ==
    CASE type \in {"int", "int?", "double"} -> "Number"
      [] type = "string" -> "String"
      [] type \in {"bool", "bool?"} -> "Boolean"
      [] type \in {"int[]", "List<int>"} -> "Array"
      [] OTHER -> "Object"

\* Every public property is required, nullable ones included.
BuildSchema(properties) ==
    [args |-> [n \in DOMAIN properties |-> MapType(properties[n])],
     required |-> DOMAIN properties]

LowerType(name) ==
    CASE name \in {"Number", "number"} -> "number"
      [] name \in {"String", "string"} -> "string"
      [] name \in {"Boolean", "bool"}  -> "boolean"
      [] name \in {"Object", "object"} -> "object"
      [] name \in {"Array", "array"}   -> "array"
      [] OTHER -> NoType

\* An unknown type is an error before any sandbox is built (FfiSandbox).
ParseToolSchema(json) ==
    LET optional == AllOf([n \in DOMAIN json.args |-> OptionalArg(Empty, n, LowerType(json.args[n]))])
    IN  [optional EXCEPT !.required = @ \cup json.required]
===============================================================================
