------------------------------- MODULE MCClient ------------------------------
(* Client with a writer and two other goroutines. *)
EXTENDS Client

CONSTANTS writer, g1, g2

MCGoroutines == {writer, g1, g2}
==============================================================================
