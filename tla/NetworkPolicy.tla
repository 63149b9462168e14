---------------------------- MODULE NetworkPolicy -----------------------------
(***************************************************************************)
(* The network allowlist of a sandbox (hyperlight_sandbox/src/network.rs): *)
(* targets with methods are added, every outgoing request is checked.  A   *)
(* path is the sequence of its characters, because the check compares      *)
(* characters.  Operators whose comment starts with "Defect" are plausible *)
(* bugs and not part of the specification.                                 *)
(***************************************************************************)
EXTENDS Naturals, Sequences, SequencesExt

CONSTANTS
    Schemes, Hosts, Ports,  \* parts of URLs
    NoHost,                 \* the host of a URL that has none
    DefaultPort,            \* a port that is the default of its scheme
    PathChars, MaxPath,     \* characters and length (bound) of paths
    MethodNames,            \* method names as given, in any case
    MaxMethodList,          \* MAX_METHOD_LIST
    MaxPermissions          \* MAX_PERMISSIONS

ASSUME PolicyAssumption ==
    /\ NoHost \notin Hosts /\ DefaultPort \in Ports
    /\ MaxPath \in Nat /\ MaxMethodList \in Nat /\ MaxPermissions \in Nat

VARIABLES
    permissions,  \* NetworkPermissions
    outcome,      \* how the last allow_domain ended
    verdict       \* the request that was checked, if any, and the answer

policyVars == <<permissions, outcome, verdict>>

Methods == {"GET", "POST", "CONNECT", "TRACE"}
BlockedMethods == {"CONNECT", "TRACE"}

Paths == {<<"/">> \o p : p \in BoundedSeq(PathChars, MaxPath - 1)}

Urls == [scheme : Schemes, host : Hosts \cup {NoHost}, port : Ports \cup {"none"}, path : Paths]

\* Url::parse drops the default port of the scheme.
Parse(u) == [u EXCEPT !.port = IF @ = DefaultPort THEN "none" ELSE @]

-----------------------------------------------------------------------------
(* Methods.                                                                *)

FromStr(name) ==
    CASE name \in {"GET", "get"} -> "GET"
      [] name \in {"POST", "post"} -> "POST"
      [] name \in {"CONNECT", "connect"} -> "CONNECT"
      [] name \in {"TRACE", "trace"} -> "TRACE"
      [] OTHER -> "invalid"

AnyMethod == [any |-> TRUE, only |-> {}]
Only(methods) == [any |-> FALSE, only |-> methods]

\* The list is absent or a sequence of names.
ParsesList(list) == Len(list) <= MaxMethodList /\ \A i \in DOMAIN list : FromStr(list[i]) # "invalid"

ParseList(given, list) ==
    IF ~given THEN AnyMethod ELSE Only({FromStr(list[i]) : i \in DOMAIN list})

-----------------------------------------------------------------------------
(* The check.                                                              *)

\* What is left of a path without the characters c at its end.
TrimEndMatches(s, c) ==
    SubSeq(s, 1, CHOOSE n \in 0 .. Len(s) :
                    (\A i \in n + 1 .. Len(s) : s[i] = c) /\ (n = 0 \/ s[n] # c))

\* Defect: a prefix that ends within a segment matches.
PathMatchesPrefix(allowed, requested) ==
    IsPrefix(TrimEndMatches(allowed, "/"), requested)

\* The prefix must end where a segment ends.
PathMatches(allowed, requested) ==
    LET prefix == TrimEndMatches(allowed, "/")
    IN prefix # <<>> =>
        /\ IsPrefix(prefix, requested)
        /\ Len(requested) > Len(prefix) => requested[Len(prefix) + 1] = "/"

IsAllowed(u, method) ==
    /\ method \notin BlockedMethods
    /\ \E i \in DOMAIN permissions :
        LET p == permissions[i]
        IN /\ u.host = p.url.host
           /\ u.scheme = p.url.scheme
           /\ u.port = p.url.port
           /\ PathMatches(p.url.path, u.path)
           /\ p.methods.any \/ method \in p.methods.only

-----------------------------------------------------------------------------
\* The caller has parsed the methods; then the limit, then the target.
AddDomain(target, given, list) ==
    /\ verdict = <<>>
    /\ IF given /\ ~ParsesList(list)
       THEN outcome' = "rejected" /\ UNCHANGED permissions
       ELSE IF Len(permissions) >= MaxPermissions
       THEN outcome' = "full" /\ UNCHANGED permissions
       ELSE IF target.host = NoHost
       THEN outcome' = "rejected" /\ UNCHANGED permissions
       ELSE /\ permissions' = Append(permissions, [url |-> Parse(target),
                                                   methods |-> ParseList(given, list)])
            /\ outcome' = "added"
    /\ UNCHANGED verdict

\* A request of a guest: the check changes nothing, so one (a bound) shows all.
Request(target, method) ==
    /\ verdict = <<>>
    /\ target.host # NoHost
    /\ verdict' = <<[target |-> target, method |-> method,
                    allowed |-> IsAllowed(Parse(target), method)]>>
    /\ UNCHANGED <<permissions, outcome>>

PolicyInit ==
    /\ permissions = <<>>
    /\ outcome = "none"
    /\ verdict = <<>>

MethodLists == BoundedSeq(MethodNames, MaxMethodList + 1)

PolicyNext ==
    \/ \E target \in Urls, list \in MethodLists : AddDomain(target, TRUE, list)
    \/ \E target \in Urls : AddDomain(target, FALSE, <<>>)
    \/ \E target \in Urls, method \in Methods : Request(target, method)

PolicySpec == PolicyInit /\ [][PolicyNext]_policyVars
===============================================================================
