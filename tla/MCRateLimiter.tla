--------------------------- MODULE MCRateLimiter ---------------------------
(* One limiter with small numbers; the model values are in the .cfg files. *)
EXTENDS RateLimiter, TLC

Symmetry == Permutations(Keys)
============================================================================
