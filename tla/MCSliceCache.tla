---------------------------- MODULE MCSliceCache -----------------------------
(* SliceCache with a source of two full slices and a short one. *)
EXTENDS SliceCache, TLC

CONSTANTS t1, t2

TwoRequests == {t1, t2}

\* Across two slices, to past the end of the source, at its very end, and past
\* its last slice.
MCRanges == {<<0, 2>>, <<3, 9>>, <<5, -1>>, <<6, -1>>}
==============================================================================
