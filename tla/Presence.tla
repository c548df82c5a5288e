------------------------------ MODULE Presence -------------------------------
(***************************************************************************)
(* What a hub's table of clients promises to the rest of the program:      *)
(* every connection is listed at most once in its life; while the hub is   *)
(* open it leaves the list only by itself; closing the hub may strike out  *)
(* all the connections of a user at once, and a connection that was on its *)
(* way in may then be turned away or may slip in.                          *)
(***************************************************************************)
CONSTANTS Users, Conns, UserOf

VARIABLES
    closed,  \* the hub has begun to close
    listed,  \* the connections a broadcast or a kick can reach
    past     \* the connections that will not be listed any more

vars == <<closed, listed, past>>

Init == closed = FALSE /\ listed = {} /\ past = {}

Join(c) ==
    /\ c \notin listed \cup past
    /\ listed' = listed \cup {c}
    /\ UNCHANGED <<closed, past>>

Leave(c) ==
    /\ c \in listed
    /\ listed' = listed \ {c}
    /\ past' = past \cup {c}
    /\ UNCHANGED closed

Refuse(c) ==
    /\ closed
    /\ c \notin listed
    /\ past' = past \cup {c}
    /\ UNCHANGED <<closed, listed>>

StrikeOut(u) ==
    LET struck == {c \in listed : UserOf[c] = u}
    IN  /\ closed
        /\ listed' = listed \ struck
        /\ past' = past \cup struck
        /\ UNCHANGED closed

Close == closed' = TRUE /\ UNCHANGED <<listed, past>>

Next ==
    \/ \E c \in Conns : Join(c) \/ Leave(c) \/ Refuse(c)
    \/ \E u \in Users : StrikeOut(u)
    \/ Close

Spec == Init /\ [][Next]_vars
==============================================================================
