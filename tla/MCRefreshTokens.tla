-------------------------- MODULE MCRefreshTokens --------------------------
(* RefreshTokens on a small instance. *)
EXTENDS RefreshTokens, TLC

\* Requests and users are only compared for equality: any permutation of
\* either maps behaviours to behaviours.
Symmetry == Permutations(Request) \cup Permutations(User)
=============================================================================
