--------------------------- MODULE FilesystemLimits ---------------------------
(***************************************************************************)
(* The limits of the writable file system: what the core accepts           *)
(* (cap_fs.rs), and what the Python SDK (pyo3_common) and the C interface  *)
(* (sdk/dotnet/ffi) make of the arguments of their callers.  An Option is  *)
(* the set of its value, a Result the set of its answer: {} is None or an  *)
(* error.                                                                  *)
(***************************************************************************)
EXTENDS Naturals

CONSTANTS
    Factor,     \* what each suffix of a size multiplies it by
    MaxI64,     \* i64::MAX
    MaxU64,     \* u64::MAX
    MaxUsize,   \* usize::MAX
    DefaultFileSize, DefaultTotalSize, DefaultFileCount

ASSUME LimitsAssumption ==
    /\ MaxI64 \in Nat /\ MaxU64 \in Nat /\ MaxI64 <= MaxU64
    /\ MaxUsize \in 0 .. MaxU64
    /\ Factor \in [DOMAIN Factor -> Nat]
    /\ DefaultFileSize \in 0 .. MaxI64
    /\ DefaultTotalSize \in 0 .. MaxU64
    /\ DefaultFileCount \in 0 .. MaxUsize

FilesystemLimits == [file : SUBSET Nat, total : SUBSET Nat, count : SUBSET Nat]

\* FilesystemLimits::new, unlimited and default.
NewLimits(file, total, count) ==
    IF file > MaxI64 THEN {} ELSE {[file |-> {file}, total |-> {total}, count |-> {count}]}

UnlimitedLimits == [file |-> {}, total |-> {}, count |-> {}]

DefaultLimits ==
    [file |-> {DefaultFileSize}, total |-> {DefaultTotalSize}, count |-> {DefaultFileCount}]

-----------------------------------------------------------------------------
(* The Python SDK: a size is a text, a number of any length and a suffix.  *)

Texts == [value : Nat, suffix : DOMAIN Factor]

\* Defect: the multiplication wraps around.
ParseSizeWraps(text) == {(text.value * Factor[text.suffix]) % (MaxU64 + 1)}

\* parse_size_value fails when the number or the product does not fit u64.
ParseSize(text) ==
    IF text.value > MaxU64 THEN {}
    ELSE {text.value * Factor[text.suffix]} \cap 0 .. MaxU64

SizeOr(asked, default) ==
    IF asked = {} THEN {default} ELSE UNION {ParseSize(text) : text \in asked}

\* Ok(None) leaves the builder its default.
ParseFilesystemLimits(a) ==
    LET numeric == a.file # {} \/ a.total # {} \/ a.count # {}
    IN  IF a.mode # {}
        THEN IF a.mode = {"unlimited"} /\ ~numeric THEN {{UnlimitedLimits}} ELSE {}
        ELSE IF ~numeric THEN {{}}
        ELSE {{l} : l \in UNION {NewLimits(file, total, count) :
                                    file \in SizeOr(a.file, DefaultFileSize),
                                    total \in SizeOr(a.total, DefaultTotalSize),
                                    count \in IF a.count = {} THEN {DefaultFileCount} ELSE a.count}}

-----------------------------------------------------------------------------
(* The C interface: all three values are u64.                              *)

SetLimits(mode, file, total, count) ==
    CASE mode = "finite" /\ count <= MaxUsize -> NewLimits(file, total, count)
      [] mode = "unlimited" /\ file = 0 /\ total = 0 /\ count = 0 -> {UnlimitedLimits}
      [] OTHER -> {}
===============================================================================
