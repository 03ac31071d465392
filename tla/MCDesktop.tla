----------------------------- MODULE MCDesktop -----------------------------
(* Symmetry of Desktop, for TLC.                                           *)
EXTENDS Desktop, TLC

Symmetry == Permutations(Dirs) \cup Permutations(Threads) \cup Permutations(Clicks)

=============================================================================
