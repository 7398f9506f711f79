------------------------ MODULE MCPrivateEdgeRoutes ------------------------
EXTENDS PrivateEdgeRoutes, TLC

CONSTANTS s1, s2, a1, a2

(* The services are not: the rollback can look at the listener of one only. *)
InterchangeableAttempts == Permutations({a1, a2})
=============================================================================
