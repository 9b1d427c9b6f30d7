----------------------------- MODULE EventTable -----------------------------
(***************************************************************************)
(* What the writing endpoints of events-service promise of the table: a    *)
(* draft is added under a slug of its own, a row is altered and keeps its  *)
(* owner, one row at a time, and none is ever removed.                     *)
(***************************************************************************)
EXTENDS Naturals, Sequences

VARIABLE events     \* the rows, in the order of their ids

\* No event but the i-th has the slug.
Free(slug, i) == \A j \in 1..Len(events) : events[j].slug = slug => j = i

Empty == events = <<>>

Add ==
    LET row == events'[Len(events) + 1]
    IN  /\ Len(events') > Len(events)
        /\ events' = Append(events, row)
        /\ row.state = "draft"
        /\ Free(row.slug, 0)

Alter(i) ==
    /\ events' = [events EXCEPT ![i] = events'[i]]
    /\ events'[i].owner = events[i].owner
    /\ Free(events'[i].slug, i)

Change == Add \/ \E i \in 1..Len(events) : Alter(i)

Table == Empty /\ [][Change]_events
=============================================================================
