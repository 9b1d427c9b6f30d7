--------------------------- MODULE MCRateLimiter ---------------------------
(* Two clients of one limiter: quota 2, windows of 2 ticks, 5 ticks.        *)
EXTENDS RateLimiter, TLC

\* The clients are interchangeable.
Symmetry == Permutations(IP)
=============================================================================
