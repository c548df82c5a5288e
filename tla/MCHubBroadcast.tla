--------------------------- MODULE MCHubBroadcast ----------------------------
(* HubBroadcast with one or two connections and one or two callers. *)
EXTENDS HubBroadcast, TLC

CONSTANTS c1, c2, s1, s2, b1, b2

TwoConns == {c1, c2}
TwoServers == {s1, s2}
TwoCallers == {b1, b2}
OneCaller == {b1}

\* Which clients may be told or kicked, or see their writes fail.
OneConn == {c1}

\* Every broadcast is for everybody, or some leave one connection out, as the
\* status a client sets is not sent back to it.
ToAll == {{}}
ToAllOrOthers == {{}} \cup {{c} : c \in TwoConns}

Symmetry ==
    Permutations(TwoServers) \cup Permutations(TwoConns) \cup Permutations(TwoCallers)
==============================================================================
