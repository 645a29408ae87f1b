--------------------------- MODULE MCLoadBalancer ---------------------------
(* Model-checking instance of LoadBalancer: three nodes (primary and two   *)
(* backups), thresholds of 2 so that a count below and at the threshold    *)
(* both occur, and request goroutines as model values.                     *)
EXTENDS LoadBalancer

CONSTANTS r1, r2

MCRequests == {r1, r2}
MCOneRequest == {r1}

\* Request goroutines are interchangeable.
MCSymmetry == Permutations(MCRequests)

=============================================================================
