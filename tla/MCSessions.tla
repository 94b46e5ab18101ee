----------------------------- MODULE MCSessions -----------------------------
(* Sessions with two slots, logins, passwords and tokens, and a clock that    *)
(* can outrun a token twice over.                                             *)
EXTENDS Sessions, TLC

Symmetry == Permutations(Slots) \cup Permutations(Logins) \cup
            Permutations(Passwords) \cup Permutations(Tokens)
=============================================================================
