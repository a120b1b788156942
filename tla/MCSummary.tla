----------------------------- MODULE MCSummary -----------------------------
(* Summary with small chunks; the numbers are in the .cfg files. *)
EXTENDS Summary
=============================================================================
