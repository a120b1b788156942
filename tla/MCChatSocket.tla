---------------------------- MODULE MCChatSocket ----------------------------
(* Small instances of ChatSocket for TLC. *)
EXTENDS ChatSocket, TLC

Symmetry == Permutations(Tabs) \cup Permutations(Users) \cup Permutations(Sends)
=============================================================================
