--------------------------- MODULE MCUserDirectory ---------------------------
(* UserDirectory with three slots: two writers of one login and a reader.     *)
EXTENDS UserDirectory, TLC

Symmetry == Permutations(Slots) \cup Permutations(Logins)
=============================================================================
