--------------------------- MODULE MCLoadBalancer ---------------------------
(* Small instances of LoadBalancer for TLC. *)
EXTENDS LoadBalancer

CONSTANTS nsA, nsB

\* Two namespaces neither of which ends in the other, such as "shop", "bank".
Unrelated == {<<nsA, nsA>>, <<nsB, nsB>>}

\* nsB ends in nsA, such as "team-shop" and "shop".
Nested == Unrelated \union {<<nsB, nsA>>}
=============================================================================
