---------------------------- MODULE MCHubClients -----------------------------
(* HubClients with one user, whose two connections compete for one entry of the map, and *)
(* two callers.  Three begin in all: both connections and a call, or one and two calls.  *)
EXTENDS HubClients

CONSTANTS u1, c1, c2, k1, k2, o1, o2, o3

OneUser == {u1}
TwoConns == {c1, c2}
OfTwoConns == [c \in TwoConns |-> u1]
ThreeObjs == {o1, o2, o3}
==============================================================================
