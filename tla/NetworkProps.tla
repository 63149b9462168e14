----------------------------- MODULE NetworkProps -----------------------------
(* What must hold of the network allowlist.                                *)
EXTENDS NetworkPolicy

Checked == verdict # <<>>

Answered == verdict[1]

EffectivePort(u) == IF u.port = "none" THEN DefaultPort ELSE u.port

(* The segments of a path: a slash starts one, other characters extend it. *)
Segments(path) ==
    LET upto[n \in 0 .. Len(path)] ==
          IF n = 0 THEN <<>>
          ELSE IF path[n] = "/" THEN Append(upto[n - 1], <<>>)
          ELSE [upto[n - 1] EXCEPT ![Len(upto[n - 1])] = Append(@, path[n])]
    IN  upto[Len(path)]

(* All segments of the permitted path, but for empty ones at its end, are  *)
(* the first ones of the other path.                                       *)
LiesBelow(path, permitted) ==
    \E k \in 0 .. Len(Segments(permitted)) :
      /\ \A i \in k + 1 .. Len(Segments(permitted)) : Segments(permitted)[i] = <<>>
      /\ IsPrefix(SubSeq(Segments(permitted), 1, k), Segments(path))

SameOrigin(p, u) ==
    p.host = u.host /\ p.scheme = u.scheme /\ EffectivePort(p) = EffectivePort(u)

(* What NetworkPermission documents (network.rs:127-128, and allow_domain  *)
(* at 156-157), "URL path and scheme are intentionally not checked -- this *)
(* is a domain-level allowlist": a request to a permitted host and port    *)
(* with a permitted method is allowed, whatever its scheme and path.       *)
DomainLevel ==
    /\ Checked
    /\ Answered.method \notin {"CONNECT", "TRACE"}
    /\ \E i \in DOMAIN permissions :
        LET p == permissions[i]
        IN /\ p.url.host = Answered.target.host
           /\ EffectivePort(p.url) = EffectivePort(Answered.target)
           /\ p.methods.any \/ Answered.method \in p.methods.only
    => Answered.allowed

(* What is_allowed itself documents and does, where DomainLevel fails,     *)
(* "Checks host (exact match), scheme, path prefix, and optional port"     *)
(* (network.rs:189): a request goes out exactly when its origin is one     *)
(* that was permitted, its path lies segment by segment below the          *)
(* permitted one and its method is permitted.  "/api" covers "/api/users"  *)
(* and not "/apiary" (network.rs:222), a default port may be written or    *)
(* not, and CONNECT and TRACE never pass.                                  *)
AllowedBySegments ==
    Checked =>
        (Answered.allowed <=>
            /\ Answered.method \notin {"CONNECT", "TRACE"}
            /\ \E i \in DOMAIN permissions :
                LET p == permissions[i]
                IN /\ SameOrigin(p.url, Answered.target)
                   /\ LiesBelow(Answered.target.path, p.url.path)
                   /\ p.methods.any \/ Answered.method \in p.methods.only)
===============================================================================
