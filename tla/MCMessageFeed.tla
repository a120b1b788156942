---------------------------- MODULE MCMessageFeed ----------------------------
(* Small instances of MessageFeed for TLC. *)
EXTENDS MessageFeed

FourMessages == 1..4

(* 1 and 2 share a tick, across the boundary of the first page; that tick is *)
(* a whole second, which prints behind 3; 4 started before them all.         *)
TieAndOverlap == {<<3, 3, 4, 2>>}
=============================================================================
