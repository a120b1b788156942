--------------------------- MODULE MCAuthProvider ---------------------------
(* Small instances of AuthProvider for TLC. *)
EXTENDS AuthProvider, TLC

Symmetry == Permutations(Tokens) \cup Permutations(Requests)
=============================================================================
