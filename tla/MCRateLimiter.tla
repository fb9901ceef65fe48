--------------------------- MODULE MCRateLimiter ---------------------------
(* Instance of RateLimiter for TLC: two callers, the keys "", its stand-in *)
(* and another, a clock that passes the first garbage collection.          *)
EXTENDS RateLimiter, TLC

Symmetry == Permutations(Callers)
=============================================================================
