------------------------- MODULE MCPrivateEdgeCaddy -------------------------
(* Two interchangeable services.  To begin with both Compose services are  *)
(* up or both are down, and both files are there or both are not.          *)
EXTENDS PrivateEdgeCaddy, TLC

CONSTANTS s1, s2

Two == {s1, s2}

Symmetry == Permutations(Two)

MCInit == Init /\ \A p, q \in Parts : running[p] = running[q] /\ file[p].text = file[q].text

MCSpec == MCInit /\ [][Next]_vars
=============================================================================
