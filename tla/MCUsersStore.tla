---------------------------- MODULE MCUsersStore ----------------------------
(* Small instances of the users table: the two seeded users and one more    *)
(* address.                                                                  *)
EXTENDS UsersStore, TLC

CONSTANTS admin, test, other, teacher, student, administrator

\* A promotion, and a change of address to one that may be taken.
Promote == [email |-> NULL, role |-> teacher]
Readdress == [email |-> other, role |-> NULL]
Bodies == {Promote, Readdress}

Symmetry == Permutations(Request)
=============================================================================
