--------------------------- MODULE MCRateLimiter ---------------------------
(* An instance of RateLimiter for TLC. The calls are alike, and so are the   *)
(* keys; no property tells them apart.                                       *)
EXTENDS RateLimiter, TLC
Symmetry == Permutations(Requests) \cup Permutations(Keys)
=============================================================================
