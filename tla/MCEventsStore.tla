--------------------------- MODULE MCEventsStore ---------------------------
(* Small instances of the events table: one word for slugs, an owner, an    *)
(* admin without a numeric id and a stranger.                               *)
EXTENDS EventsStore, TLC

CONSTANT a

Owner == [id |-> 1, isAdmin |-> FALSE]
\* Callers whose JWT has a string sub: @OwnerId yields undefined.
Stranger == [id |-> NULL, isAdmin |-> FALSE]
Admin == [id |-> NULL, isAdmin |-> TRUE]

Absent == [startsAt |-> NULL, endsAt |-> NULL, opensAt |-> NULL, closesAt |-> NULL, slug |-> NULL]

\* A body for POST without a slug: toSlug yields the empty one.  As a PATCH it
\* moves the dates and renames nothing.
NewFair == [Absent EXCEPT !.startsAt = 1, !.endsAt = 3, !.slug = <<>>]
\* Each is ordered against 1..3, not against each other; the first renames, too,
\* to the slug that a second NewFair is given.
StartLater == [Absent EXCEPT !.startsAt = 2, !.slug = <<1>>]
EndEarlier == [Absent EXCEPT !.endsAt = 2]
\* Registration before the event starts: POST refuses it, PATCH does not.
BadWindow == [NewFair EXCEPT !.endsAt = 2, !.opensAt = 0, !.closesAt = 2, !.slug = <<a>>]

\* Requests that race ...
RacingRequester == {Owner, Stranger}

\* ... and that may also be refused.
AnyRequester == {Owner, Stranger, Admin}

Bodies == {NewFair, StartLater, EndEarlier, BadWindow}

Symmetry == Permutations(Request)
=============================================================================
