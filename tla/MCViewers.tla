------------------------------ MODULE MCViewers ------------------------------
(* Viewers with two players, of which one may lack the permission to set the status. *)
EXTENDS Viewers, TLC

CONSTANTS a, b, playing, paused

MCViewers == {a, b}
OnlyA == {a}
MCStatuses == {playing, paused}
==============================================================================
