----------------------------- MODULE MCRoomLife ------------------------------
(* RoomLife with two connections and one admin. *)
EXTENDS RoomLife, TLC

CONSTANTS c1, c2, a1, r1, r2, h1, h2, h3

MCConns == {c1, c2}
MCAdmins == {a1}
MCRooms == {r1, r2}
MCHubs == {h1, h2, h3}
MCOps == {"ban", "approve", "delete", "deleteEntry", "deleteByID", "deleteCreator"}
==============================================================================
