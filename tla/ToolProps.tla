------------------------------ MODULE ToolProps -------------------------------
(* What must hold of tool calls.                                           *)
EXTENDS ToolRegistry

(* The types a declaration asks for: those of a Python annotation or else  *)
(* of a default, those of a .NET property.                                 *)
AnyType == {"null", "boolean", "number", "string", "array", "object"}

PyTypes(name) ==
    CASE name \in {"int", "float", "Annotated[int]"} -> {"number"}
      [] name = "str" -> {"string"}
      [] name = "bool" -> {"boolean"}
      [] name = "list" -> {"array"}
      [] name = "dict" -> {"object"}
      [] OTHER -> AnyType

ParameterTypes(p) ==
    IF PyTypes(p.annotation) # AnyType THEN PyTypes(p.annotation)
    ELSE PyTypes(p.default)

PropertyTypes(type) ==
    CASE type \in {"int", "int?", "double"} -> {"number"}
      [] type = "string" -> {"string"}
      [] type \in {"bool", "bool?"} -> {"boolean"}
      [] type \in {"int[]", "List<int>"} -> {"array"}
      [] OTHER -> {"object"}

FitsPython(signature, fields) ==
    \A n \in DOMAIN signature :
        signature[n].kind = "named" =>
            /\ signature[n].default = "required" => n \in DOMAIN fields
            /\ n \in DOMAIN fields => fields[n].t \in ParameterTypes(signature[n])

FitsDotnet(properties, fields) ==
    \A n \in DOMAIN properties :
        n \in DOMAIN fields /\ fields[n].t \in PropertyTypes(properties[n])

Fits(tool, args) ==
    /\ args.t = "object"
    /\ tool.sdk = "python" => FitsPython(tool.signature, args.fields)
    /\ tool.sdk = "dotnet" => FitsDotnet(tool.properties, args.fields)

(* A handler is called with just the arguments that fit its declaration,   *)
(* whichever SDK turned that into a schema and back: no fitting call is    *)
(* refused, and no other reaches it.                                       *)
DispatchByDeclaration ==
    call.tool.sdk \in {"python", "dotnet"} /\ call.answer \notin {"none", "too large"} =>
        (call.answer = "handled" <=> Fits(call.tool, call.args))
===============================================================================
