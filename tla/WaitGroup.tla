------------------------------ MODULE WaitGroup ------------------------------
(***************************************************************************)
(* Go's sync.WaitGroup, as internal/op/client.go and internal/op/hub.go    *)
(* use it: every goroutine adds one, does some work, and calls Done; a     *)
(* closing goroutine calls Wait.  The counter is represented by the set of *)
(* goroutines that have called Add(1) and not yet Done, which is exact     *)
(* because no goroutine adds twice.                                        *)
(*                                                                         *)
(* A goroutine that had to block in Wait does not go on in the step in     *)
(* which the counter reaches zero: it is first made runnable ("woken") and *)
(* resumes later.  When it resumes and finds the counter raised again, the *)
(* runtime panics with "WaitGroup is reused before previous Wait has       *)
(* returned".                                                              *)
(***************************************************************************)

\* A wait group nobody holds and nobody waits for.
IdleGroup == [holders |-> {}, waiting |-> {}, woken |-> {}]

WaitGroups(G) == [holders : SUBSET G, waiting : SUBSET G, woken : SUBSET G]

Added(wg, g) == [wg EXCEPT !.holders = @ \cup {g}]

\* The last Done releases every goroutine blocked in Wait.
Released(wg, g) ==
    LET left == wg.holders \ {g}
    IN  IF left = {}
        THEN [holders |-> {}, waiting |-> {}, woken |-> wg.woken \cup wg.waiting]
        ELSE [wg EXCEPT !.holders = left]

Blocked(wg, g) == [wg EXCEPT !.waiting = @ \cup {g}]

Resumed(wg, g) == [wg EXCEPT !.woken = @ \ {g}]

Quiet(wg) == wg.holders = {}
==============================================================================
