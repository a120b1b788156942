----------------------------- MODULE MCSessions -----------------------------
(* Small instances of Sessions for TLC. *)
EXTENDS Sessions, TLC

Symmetry == Permutations(Users) \cup Permutations(Names)
               \cup Permutations(Tokens) \cup Permutations(Requests)
               \cup Permutations(Browsers)
=============================================================================
