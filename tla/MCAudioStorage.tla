--------------------------- MODULE MCAudioStorage ---------------------------
(* Symmetry of AudioStorage, for TLC.                                      *)
EXTENDS AudioStorage, TLC

Symmetry == Permutations(Uploads) \cup Permutations(Listeners) \cup Permutations(Sources)

=============================================================================
