------------------------------ MODULE CheckCacheMC ------------------------------
(* Small Mixers for CheckCache: attributes 1 and 2 with values 8 and 9, and a   *)
(* string map 3 with key 5.                                                     *)
EXTENDS CheckCache

Exact(n, k)  == [name |-> n, key |-> k, cond |-> "EXACT"]
Absent(n, k) == [name |-> n, key |-> k, cond |-> "ABSENCE"]
Regex(n)     == [name |-> n, key |-> Empty, cond |-> "REGEX"]

MCKeys == {Signature(Fill(a, Policy[a].matches), b, Empty) : a, b \in Requests} \ {None}

\* A policy that looks at 1, then at 2 or at a header: what it does not find decides
\* too, so that several references have the same exact keys.
ExactRequests ==
  {(1 :> 8), (1 :> 8) @@ (2 :> 8), (1 :> 9), (1 :> 9) @@ (3 :> (5 :> 8))}

\* The same, and a request whose answer cannot be cached.
OverlapRequests == ExactRequests \cup {(2 :> 9)}

ExactPolicy ==
  [a \in Requests |->
     IF 1 \notin DOMAIN a THEN [status |-> "OK", matches |-> {Regex(2), Absent(1, Empty)}]
     ELSE IF a[1] = 8
          THEN IF 2 \in DOMAIN a
               THEN [status |-> "PERMISSION_DENIED", matches |-> {Exact(1, Empty), Exact(2, Empty)}]
               ELSE [status |-> "OK", matches |-> {Exact(1, Empty), Absent(2, Empty)}]
     ELSE IF Present(a, Exact(3, 5))
          THEN [status |-> "INTERNAL", matches |-> {Exact(1, Empty), Exact(3, 5)}]
          ELSE [status |-> "PERMISSION_DENIED", matches |-> {Exact(1, Empty), Absent(3, 5)}]]

\* No cache, one entry and overlapping calls, two entries.
MCMaxSent == (0 :> 1) @@ (1 :> 2) @@ (2 :> 1)

Brief == {[duration |-> 1, uses |-> -1], [duration |-> Forever, uses |-> 1]}
================================================================================
