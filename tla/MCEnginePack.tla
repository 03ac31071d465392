---------------------------- MODULE MCEnginePack ----------------------------
(* Symmetry of EnginePack, for TLC.                                        *)
EXTENDS EnginePack, TLC

Symmetry == Permutations(Procs) \cup Permutations(Inodes)

=============================================================================
