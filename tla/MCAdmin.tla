------------------------------- MODULE MCAdmin --------------------------------
(* Admin with two requests at a time and two backends, one of which may be given without its port. *)
EXTENDS Admin, TLC

CONSTANTS a1, a2, e1, e2, bare, n1, n2, k1, k2, k3

MCAdmins == {a1, a2}
MCEndpoints == {e1, e2}
MCBare == {bare}
MCNormal == [g \in MCBare |-> e1]
MCNames == {n1, n2}
MCConns == {k1, k2, k3}
Symmetry == Permutations(MCAdmins) \cup Permutations(MCNames) \cup Permutations(MCConns)
===============================================================================
