------------------------------ MODULE MCGuards ------------------------------
(* A small instance of the guards: one user, whose role changes, and a token *)
(* that outlives the change.                                                  *)
EXTENDS Guards
=============================================================================
