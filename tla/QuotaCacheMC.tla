------------------------------ MODULE QuotaCacheMC ------------------------------
(* Attributes 1 and 2 with values 8 and 9.                                      *)
EXTENDS QuotaCache

QuotaSymmetry == Permutations(Names)

Exact(n) == [name |-> n, key |-> Empty, cond |-> "EXACT"]

MCKeys == {Signature(Fill(a, Matches[a]), b, q) : a, b \in Requests, q \in Names} \ {None}

MCRequests == {(1 :> 8), (1 :> 9) @@ (2 :> 8)}

\* The quota is kept per value of 1, and of 2 when 1 is 9.
MCMatches == [a \in Requests |-> IF a[1] = 8 THEN {Exact(1)} ELSE {Exact(1), Exact(2)}]
================================================================================
