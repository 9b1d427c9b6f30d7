------------------------- MODULE MCAccessRevocation -------------------------
(* Small instances of access revocation: logouts are interchangeable. *)
EXTENDS AccessRevocation, TLC

Symmetry == Permutations(Logout)
=============================================================================
