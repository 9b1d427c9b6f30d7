------------------------- MODULE RegistrationLedger -------------------------
(***************************************************************************)
(* What registrations-service promises: a user is registered for an event  *)
(* once and for good, and a receipt (an answer 201) is given once for a    *)
(* registration, and only for one that has been made.  A registration may  *)
(* remain without a receipt: its answer was lost, or its request failed    *)
(* after the row was committed.                                            *)
(***************************************************************************)
CONSTANTS
    Registration,       \* pairs of a user and an event
    Client      \* who asks for registrations

VARIABLES
    registered, \* the pairs registered
    receipts    \* the pairs of a client and the registration it was told of

Init == registered = {} /\ receipts = {}

Register(p) ==
    /\ p \notin registered
    /\ registered' = registered \cup {p}
    /\ UNCHANGED receipts

GiveReceipt(c, p) ==
    /\ p \in registered
    /\ \A d \in Client : <<d, p>> \notin receipts
    /\ receipts' = receipts \cup {<<c, p>>}
    /\ UNCHANGED registered

Next == \E p \in Registration : Register(p) \/ \E c \in Client : GiveReceipt(c, p)

Spec == Init /\ [][Next]_<<registered, receipts>>
=============================================================================
