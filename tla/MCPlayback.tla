----------------------------- MODULE MCPlayback ------------------------------
(* Playback with one writer, as writers only take turns, and two readers, which overlap. *)
EXTENDS Playback, TLC

CONSTANTS w1, r1, r2

OneWriter == {w1}
TwoReaders == {r1, r2}
MCSeeks == {2}
MCRates == {2}
MCDiffs == {1}

Symmetry == Permutations(TwoReaders)
==============================================================================
