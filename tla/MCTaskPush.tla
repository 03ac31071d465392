----------------------------- MODULE MCTaskPush -----------------------------
(* Symmetry of TaskPush, for TLC.                                          *)
EXTENDS TaskPush, TLC

Symmetry == Permutations(Tasks) \cup Permutations(Pushes)

=============================================================================
