---------------------------- MODULE MCRealtime ----------------------------
(* Realtime on small instances; the model values are in the .cfg files. *)
EXTENDS Realtime, TLC

(* Sound for the safety runs only: TLC's liveness checking needs it off. *)
Symmetry == Permutations(Sockets) \cup Permutations(Requests)
            \cup Permutations(Messages)
===========================================================================
