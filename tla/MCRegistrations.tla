-------------------------- MODULE MCRegistrations --------------------------
(* Small instances of registrations-service.  MaxFaults lets the database go *)
(* away and the process die once each, or either one twice.  Bodies with two *)
(* flaws fail for the first of them.                                         *)
EXTENDS Registrations

CONSTANTS e1, e2

Events == {e1, e2}
Bodies == [eventId : Events \cup {NULL, Unfit}, origin : {"fits"}]
          \cup {[eventId |-> e1, origin |-> "unfit"]}
=============================================================================
