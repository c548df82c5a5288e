------------------------------ MODULE MCMembers ------------------------------
(* Members with a member who has one connection, two guests, and two admin threads. *)
EXTENDS Members, TLC

CONSTANTS m1, g, c1, c2, c3, a1, a2, chat, kickout

MCUsers == {m1, g}
MCConns == {c1, c2, c3}
MCUserOf == [c \in MCConns |-> IF c = c1 THEN m1 ELSE g]
MCAdmins == {a1, a2}
MCPerms == {chat}
MCAdminPerms == {kickout}
MCOps == {"approve", "ban", "unban", "delete", "add", "setAdmin", "addRights",
          "guestPerms", "noGuest", "noJoin"}
Symmetry == Permutations({c2, c3}) \cup Permutations({a1, a2})
==============================================================================
