----------------------------- MODULE MCAccounts -----------------------------
(* Symmetry and the patches of Accounts, for TLC.                          *)
EXTENDS Accounts, TLC

PatchBodies == {<<"user", "keep">>, <<"superadmin", "on">>, <<"keep", "off">>}
Symmetry == Permutations(Users) \cup Permutations(Subs) \cup Permutations(Requests)

=============================================================================
