---------------------------- MODULE EventsStore ----------------------------
(***************************************************************************)
(* EventsService of events-service (events.service.ts): create, update and *)
(* publish over the table events, with the slug search that create and     *)
(* update run first.  Requests interleave at every await; TypeORM's save   *)
(* of a loaded entity is a SELECT and, for the columns that differ, an     *)
(* UPDATE (TypeOrm.tla).                                                   *)
(*                                                                         *)
(* Events are never deleted, so the table is a sequence whose indices are  *)
(* the ids.  Of a row's columns the model keeps those the handlers read or *)
(* compare; title, summary, banner and the like behave as the dates do.    *)
(* A slug is the sequence of its parts: "fair-2-1" is <<fair, 2, 1>>.      *)
(***************************************************************************)
EXTENDS Naturals, Sequences, FiniteSets, TypeOrm

CONSTANTS
    UserId,     \* numeric user ids
    Requester,  \* the callers: what @OwnerId yields of them, and their role
    Request,    \* HTTP requests to POST /events, PATCH /events/:id, .../publish
    Word,       \* words of slugs
    Dto,        \* the bodies that pass the ValidationPipe; NULL for absent fields
    Suffix,     \* bound on the counter of ensureUniqueSlug
    NULL        \* undefined, or SQL NULL

Slug == Seq(Word \cup Nat)
DtoType == [startsAt : Nat \cup {NULL}, endsAt : Nat \cup {NULL},
            opensAt : Nat \cup {NULL}, closesAt : Nat \cup {NULL},
            slug : Slug \cup {NULL}]

ASSUME NULLAssumption == NULL \notin Nat \cup Slug \cup UserId
ASSUME DtoAssumption == Dto \subseteq DtoType
ASSUME RequesterAssumption == Requester \subseteq [id : UserId \cup {NULL}, isAdmin : BOOLEAN]
ASSUME SuffixAssumption == Suffix \in Nat

VARIABLES
    events,     \* the table
    pc,         \* pc[r]: where the handler of r is suspended, or its answer
    op,         \* op[r]: the endpoint r called
    who,        \* who[r]: its requester
    id,         \* id[r]: the event it updates or publishes, 0 for a create
    entity,     \* entity[r]: the row object the handler holds
    loaded,     \* loaded[r]: the row as save's SELECT returned it
    base,       \* base[r]: ensureUniqueSlug's baseSlug
    counter,    \* counter[r]: its counter
    overtook    \* history: the requests that wrote while r was in flight

vars == <<events, pc, op, who, id, entity, loaded, base, counter, overtook>>

State == {"draft", "published"}     \* 'archived' is never assigned
Row == [owner : UserId \cup {NULL}, state : State, slug : Slug,
        startsAt : Nat, endsAt : Nat,
        opensAt : Nat \cup {NULL}, closesAt : Nat \cup {NULL}]

InFlight == {"probe", "insert", "select", "save"}
\* Answers: 2xx, 400, 403, 404, 500 for a unique violation or another error, and
\* 500 or none at all for a statement that was committed.
Answer == {"ok", "badRequest", "forbidden", "notFound", "conflict", "failed", "lost"}
\* The statement is committed, whatever becomes of the answer.
Written == {"commit", "ok", "lost"}

NoRow == [owner |-> NULL, state |-> "draft", slug |-> <<>>, startsAt |-> 0, endsAt |-> 0,
          opensAt |-> NULL, closesAt |-> NULL]

Nobody == [id |-> NULL, isAdmin |-> FALSE]

TypeOK ==
    /\ events \in Seq(Row)
    /\ pc \in [Request -> {"idle", "commit"} \cup InFlight \cup Answer]
    /\ op \in [Request -> {"none", "create", "update", "publish"}]
    /\ who \in [Request -> Requester \cup {Nobody}]
    /\ id \in [Request -> Nat]
    /\ entity \in [Request -> Row]
    /\ loaded \in [Request -> Row]
    /\ base \in [Request -> Slug]
    /\ counter \in [Request -> Nat]
    /\ overtook \in [Request -> SUBSET Request]

Init ==
    /\ events = <<>>
    /\ pc = [r \in Request |-> "idle"]
    /\ op = [r \in Request |-> "none"]
    /\ who = [r \in Request |-> Nobody]
    /\ id = [r \in Request |-> 0]
    /\ entity = [r \in Request |-> NoRow]
    /\ loaded = [r \in Request |-> NoRow]
    /\ base = [r \in Request |-> <<>>]
    /\ counter = [r \in Request |-> 0]
    /\ overtook = [r \in Request |-> {}]

Goto(r, label) == pc' = [pc EXCEPT ![r] = label]

\* r's first step: which endpoint, on which event, on whose behalf.
Begin(r, endpoint, i, u) ==
    /\ pc[r] = "idle"
    /\ op' = [op EXCEPT ![r] = endpoint]
    /\ id' = [id EXCEPT ![r] = i]
    /\ who' = [who EXCEPT ![r] = u]
    /\ UNCHANGED <<events, loaded, overtook>>

\* ensureUniqueSlug(slug): the handler's slug is the candidate it probes next.
SearchSlug(r, row, slug) ==
    /\ Goto(r, "probe")
    /\ entity' = [entity EXCEPT ![r] = [row EXCEPT !.slug = slug]]
    /\ base' = [base EXCEPT ![r] = slug]
    /\ counter' = [counter EXCEPT ![r] = 1]

Hold(r, row) == entity' = [entity EXCEPT ![r] = row] /\ UNCHANGED <<base, counter>>

Answered(r, answer) == Goto(r, answer) /\ UNCHANGED <<entity, base, counter>>

----------------------------------------------------------------------------
(* create *)

Ordered(row) == row.endsAt > row.startsAt

\* The registration window, when both ends are given, lies within the event.
WindowOK(row) ==
    row.opensAt # NULL /\ row.closesAt # NULL =>
        /\ row.closesAt > row.opensAt
        /\ row.opensAt >= row.startsAt
        /\ row.closesAt <= row.endsAt

\* Mutant: an event that starts in a state nothing leads out of.
NewEventArchived(d, u) ==
    [owner |-> u.id, state |-> "archived", slug |-> d.slug,
     startsAt |-> d.startsAt, endsAt |-> d.endsAt,
     opensAt |-> d.opensAt, closesAt |-> d.closesAt]

\* Mutant: an event that is published from the start.
NewEventPublished(d, u) ==
    [owner |-> u.id, state |-> "published", slug |-> d.slug,
     startsAt |-> d.startsAt, endsAt |-> d.endsAt,
     opensAt |-> d.opensAt, closesAt |-> d.closesAt]

NewEvent(d, u) ==
    [owner |-> u.id, state |-> "draft", slug |-> d.slug,
     startsAt |-> d.startsAt, endsAt |-> d.endsAt,
     opensAt |-> d.opensAt, closesAt |-> d.closesAt]

\* A create's body has both dates; its slug here is the dto's slug, or
\* toSlug(title) when it has none (the empty one included).
Create(r, u, d) ==
    /\ d.startsAt # NULL /\ d.endsAt # NULL /\ d.slug # NULL
    /\ Begin(r, "create", 0, u)
    /\ LET row == NewEvent(d, u)
       IN  IF Ordered(row) /\ WindowOK(row) THEN SearchSlug(r, row, row.slug)
           ELSE Answered(r, "badRequest")

----------------------------------------------------------------------------
(* update and publish: the row is loaded, the requester and the row checked *)

Permitted(u, row) == u.id = row.owner \/ u.isAdmin

Given(field, current) == IF field # NULL THEN field ELSE current

\* Object.assign of the given fields; ownerUserId and state are no dto fields.
Merged(row, d) ==
    [row EXCEPT !.startsAt = Given(d.startsAt, @), !.endsAt = Given(d.endsAt, @),
                !.opensAt = Given(d.opensAt, @), !.closesAt = Given(d.closesAt, @)]

\* An empty slug counts as none: `if (updateEventDto.slug)`.
HasSlug(d) == d.slug # NULL /\ d.slug # <<>>

\* Mutant: the dates are compared only when the body holds both.
UpdateRowLax(r, u, row, d) ==
    \/ /\ ~ Permitted(u, row)
       /\ Answered(r, "forbidden")
    \/ /\ Permitted(u, row) /\ HasSlug(d)
       /\ SearchSlug(r, Merged(row, d), d.slug)
    \/ /\ Permitted(u, row) /\ ~ HasSlug(d)
       /\ d.startsAt # NULL /\ d.endsAt # NULL => d.endsAt > d.startsAt
       /\ Goto(r, "select") /\ Hold(r, Merged(row, d))

UpdateRow(r, u, row, d) ==
    \/ /\ ~ Permitted(u, row)
       /\ Answered(r, "forbidden")
    \/ /\ Permitted(u, row) /\ ~ Ordered(Merged(row, d))
       /\ Answered(r, "badRequest")
    \/ /\ Permitted(u, row) /\ Ordered(Merged(row, d)) /\ HasSlug(d)
       /\ SearchSlug(r, Merged(row, d), d.slug)
    \/ /\ Permitted(u, row) /\ Ordered(Merged(row, d)) /\ ~ HasSlug(d)
       /\ Goto(r, "select") /\ Hold(r, Merged(row, d))

Update(r, u, i, d) ==
    /\ Begin(r, "update", i, u)
    /\ IF i \in 1..Len(events) THEN UpdateRow(r, u, events[i], d)
       ELSE Answered(r, "notFound")

\* Mutant: anybody may publish.
PublishRowUnchecked(r, u, row) ==
    \/ /\ row.state # "draft"
       /\ Answered(r, "badRequest")
    \/ /\ row.state = "draft"
       /\ Goto(r, "select") /\ Hold(r, [row EXCEPT !.state = "published"])

\* Mutant: publish toggles the state.
PublishRowToggles(r, u, row) ==
    \/ /\ ~ Permitted(u, row)
       /\ Answered(r, "forbidden")
    \/ /\ Permitted(u, row)
       /\ Goto(r, "select")
       /\ Hold(r, [row EXCEPT !.state = IF @ = "draft" THEN "published" ELSE "draft"])

PublishRow(r, u, row) ==
    \/ /\ ~ Permitted(u, row)
       /\ Answered(r, "forbidden")
    \/ /\ Permitted(u, row) /\ row.state # "draft"
       /\ Answered(r, "badRequest")
    \/ /\ Permitted(u, row) /\ row.state = "draft"
       /\ Goto(r, "select") /\ Hold(r, [row EXCEPT !.state = "published"])

Publish(r, u, i) ==
    /\ Begin(r, "publish", i, u)
    /\ IF i \in 1..Len(events) THEN PublishRow(r, u, events[i])
       ELSE Answered(r, "notFound")

----------------------------------------------------------------------------
(* ensureUniqueSlug *)

\* Some row other than r's own has the slug.
Taken(r, slug) == \E j \in 1..Len(events) : j # id[r] /\ events[j].slug = slug

\* Mutant: the search looks at published events only.
ProbePublished(r) ==
    /\ pc[r] = "probe"
    /\ ~ \E j \in 1..Len(events) : /\ j # id[r] /\ events[j].slug = entity[r].slug
                                   /\ events[j].state = "published"
    /\ Goto(r, IF op[r] = "create" THEN "insert" ELSE "select")
    /\ UNCHANGED <<events, op, who, id, entity, loaded, base, counter, overtook>>

\* Mutant: the loop tries the same slug again.
ProbeAgain(r) ==
    /\ pc[r] = "probe" /\ ~ Taken(r, entity[r].slug)
    /\ Goto(r, IF op[r] = "create" THEN "insert" ELSE "select")
    /\ UNCHANGED <<events, op, who, id, entity, loaded, base, counter, overtook>>

\* Mutant: excludeId is dropped, and the search meets the request's own row.
ProbeOwn(r) ==
    /\ pc[r] = "probe"
    /\ LET taken == \E j \in 1..Len(events) : events[j].slug = entity[r].slug
       IN  \/ /\ ~ taken
              /\ Goto(r, IF op[r] = "create" THEN "insert" ELSE "select")
              /\ UNCHANGED <<entity, counter>>
           \/ /\ taken /\ counter[r] <= Suffix
              /\ entity' = [entity EXCEPT ![r].slug = Append(base[r], counter[r])]
              /\ counter' = [counter EXCEPT ![r] = @ + 1]
              /\ UNCHANGED pc
    /\ UNCHANGED <<events, op, who, id, loaded, base, overtook>>

\* The findOne of one turn of the loop.
Probe(r) ==
    /\ pc[r] = "probe"
    /\ \/ /\ ~ Taken(r, entity[r].slug)
          /\ Goto(r, IF op[r] = "create" THEN "insert" ELSE "select")
          /\ UNCHANGED <<entity, counter>>
       \/ /\ Taken(r, entity[r].slug)
          /\ counter[r] <= Suffix
          /\ entity' = [entity EXCEPT ![r].slug = Append(base[r], counter[r])]
          /\ counter' = [counter EXCEPT ![r] = @ + 1]
          /\ UNCHANGED pc
    /\ UNCHANGED <<events, op, who, id, loaded, base, overtook>>

----------------------------------------------------------------------------
(* eventRepository.save *)

\* r's statement is committed.
Commit(r, table) ==
    /\ events' = table
    /\ Goto(r, "commit")
    /\ overtook' = [q \in Request |->
                      IF pc[q] \in InFlight /\ q # r THEN overtook[q] \cup {r} ELSE overtook[q]]

\* save of a new entity: an INSERT, refused by the unique index on slug, and
\* by NOT NULL when the caller had no numeric id.
Insert(r) ==
    /\ pc[r] = "insert"
    /\ \/ /\ Taken(r, entity[r].slug)
          /\ Goto(r, "conflict") /\ UNCHANGED <<events, overtook>>
       \/ /\ ~ Taken(r, entity[r].slug) /\ entity[r].owner = NULL
          /\ Goto(r, "failed") /\ UNCHANGED <<events, overtook>>
       \/ /\ ~ Taken(r, entity[r].slug) /\ entity[r].owner # NULL
          /\ Commit(r, Append(events, entity[r]))
    /\ UNCHANGED <<op, who, id, entity, loaded, base, counter>>

Select(r) ==
    /\ pc[r] = "select"
    /\ loaded' = [loaded EXCEPT ![r] = events[id[r]]]
    /\ Goto(r, "save")
    /\ UNCHANGED <<events, op, who, id, entity, base, counter, overtook>>

\* The row r writes, after its UPDATE.
Saved(r) ==
    LET row == events[id[r]]
    IN  [c \in DOMAIN row |-> SavedColumn(row[c], loaded[r][c], entity[r][c])]

\* Mutant: the unique index covers published events only.
SavePublishedIndex(r) ==
    /\ pc[r] = "save"
    /\ IF Taken(r, Saved(r).slug) /\ Saved(r).state = "published"
       THEN Goto(r, "conflict") /\ UNCHANGED <<events, overtook>>
       ELSE Commit(r, [events EXCEPT ![id[r]] = Saved(r)])
    /\ UNCHANGED <<op, who, id, entity, loaded, base, counter>>

\* The UPDATE, refused by the unique index on slug.
Save(r) ==
    /\ pc[r] = "save"
    /\ \/ /\ Taken(r, Saved(r).slug)
          /\ Goto(r, "conflict") /\ UNCHANGED <<events, overtook>>
       \/ /\ ~ Taken(r, Saved(r).slug)
          /\ Commit(r, [events EXCEPT ![id[r]] = Saved(r)])
    /\ UNCHANGED <<op, who, id, entity, loaded, base, counter>>

\* 201 or 200 with the saved entity.
Reply(r) ==
    /\ pc[r] = "commit"
    /\ Goto(r, "ok")
    /\ UNCHANGED <<events, op, who, id, entity, loaded, base, counter, overtook>>

\* A statement fails, the connection is lost, or the process dies: before the
\* COMMIT, or after it, when the handler or its client never learns of it.
Abort(r) ==
    /\ \/ pc[r] \in InFlight /\ Goto(r, "failed")
       \/ pc[r] = "commit" /\ Goto(r, "lost")
    /\ UNCHANGED <<events, op, who, id, entity, loaded, base, counter, overtook>>

----------------------------------------------------------------------------

Step(r) == Probe(r) \/ Insert(r) \/ Select(r) \/ Save(r) \/ Reply(r)

Next == \E r \in Request :
    \/ \E u \in Requester :
          \/ \E d \in Dto : Create(r, u, d)
          \/ \E i \in 1..(Len(events) + 1) :
                \/ \E d \in Dto : Update(r, u, i, d)
                \/ Publish(r, u, i)
    \/ Step(r)
    \/ Abort(r)

Spec == Init /\ [][Next]_vars

\* The database answers or fails, so a suspended handler is resumed.
Fairness == \A r \in Request : WF_vars(Step(r))

FairSpec == Spec /\ Fairness

----------------------------------------------------------------------------
(* Properties *)

Abstract == INSTANCE EventTable

\* Only the owner of an event, or an admin, ever changes its row, even when
\* the row was loaded and checked many steps earlier; and the owner and the
\* rows themselves stay (events.service.ts 189-192, 244-247).
OnlyPermittedWrites ==
    [][\A i \in 1..Len(events) :
          /\ i \in 1..Len(events') /\ events'[i].owner = events[i].owner
          /\ events'[i] # events[i] =>
                \E r \in Request : pc[r] = "save" /\ id[r] = i /\ Permitted(who[r], events[i])]_vars

\* A unique violation, answered as a 500, is always somebody else's race: the
\* slug was free, or the row's own, when the request came, and another request
\* wrote it while this one was in flight (events.service.ts 264-282 probes; 76
\* and 226 write).  One at a time, requests never see it.
ConflictOnlyInRace ==
    \A r \in Request : pc[r] = "conflict" =>
        \E s \in overtook[r] : entity[s].slug = entity[r].slug

\* i has been published by a permitted publish, whatever became of its answer.
WasPublished(i) ==
    \E r \in Request : /\ op[r] = "publish" /\ id[r] = i /\ pc[r] \in Written
                       /\ Permitted(who[r], events[i])

\* An event is published only through the UPDATE of a publish on behalf of
\* somebody permitted, which is answered 200 unless a failure takes the answer
\* from it after its COMMIT: no create and no update ever publishes, not even
\* by writing back a stale state, and neither does a publish that fails before
\* (events.service.ts 240-261).
PublishedByPublish ==
    \A i \in 1..Len(events) : events[i].state = "published" => WasPublished(i)

\* Two requests wrote event i, one of them while the other was in flight.
WasRaced(i) ==
    \E r \in Request : \E s \in overtook[r] : pc[r] \in Written /\ id[r] = i /\ id[s] = i

\* An event ends before it starts only after a race: each update validates the
\* dates it merges into the row it loaded (events.service.ts 202-204), and what
\* requests write one at a time stays ordered, publishes included.
DatesOrderedUnlessRaced ==
    \A i \in 1..Len(events) : ~ Ordered(events[i]) => WasRaced(i)

\* A published event goes back to draft only through an update that writes
\* back the draft it had loaded, after a request that left the event published
\* overtook it.
UnpublishedOnlyInRace ==
    [][\A i \in 1..Len(events) :
          events[i].state = "published" /\ events'[i].state # "published" =>
             \E r \in Request : \E s \in overtook[r] :
                /\ op[r] = "update" /\ id[r] = i /\ pc[r] = "save"
                /\ id[s] = i /\ entity[s].state = "published"]_vars

\* Requests change the table as EventTable says: one row at a time, no row lost
\* or handed on, no slug given twice, and no new event but a draft, through every
\* interleaving of probes, SELECTs and writes (events.service.ts 26-77, 171-262).
ImplementsTable == Abstract!Table

\* The rows a slug search of r may stumble over, and the requests that may have
\* freed a slug behind it: a publish, too, writes back the slug it had loaded.
OtherRows(r) == {j \in 1..Len(events) : j # id[r]}
Renamers(r) == {s \in overtook[r] : op[s] # "create"}

\* The `while (true)` of the slug search (events.service.ts:271) makes one turn
\* more than there are rows other than the request's own, plus one for each
\* update or publish that was written meanwhile: other requests delay it by at
\* most a turn each, and a rename to the event's own slug costs none.
SearchBounded ==
    \A r \in Request :
        counter[r] <= 1 + Cardinality(OtherRows(r)) + Cardinality(Renamers(r))

\* endsAt must be after startsAt (events.service.ts:203), whoever updates what.
DatesOrdered == \A i \in 1..Len(events) : Ordered(events[i])

\* Every request that passed its checks is answered: in particular the slug
\* search ends, though other requests keep taking the slugs it would try.
RequestsEnd == \A r \in Request : pc[r] \in InFlight \cup {"commit"} ~> pc[r] \in Answer

----------------------------------------------------------------------------
(* The inductive invariant behind the properties *)

\* What a handler in flight holds, by endpoint.
HandlerOK(r) ==
    /\ pc[r] = "insert" => op[r] = "create"
    /\ pc[r] \in {"select", "save"} => op[r] \in {"update", "publish"}
    /\ pc[r] \in InFlight =>
          /\ op[r] # "none"
          /\ op[r] # "publish" => Ordered(entity[r])
          /\ op[r] = "create" => entity[r].state = "draft" /\ id[r] = 0
          /\ op[r] = "publish" => entity[r].state = "published"
          /\ op[r] # "create" =>
                /\ id[r] \in 1..Len(events)
                /\ Permitted(who[r], events[id[r]])
                /\ entity[r].owner = events[id[r]].owner
    /\ pc[r] = "save" => loaded[r].owner = events[id[r]].owner
    /\ \A s \in overtook[r] : pc[s] \in Written

\* Past the search, a slug is somebody else's only if that request overtook r.
SlugOK(r) ==
    \/ pc[r] = "conflict"
    \/ pc[r] \in {"insert", "select", "save"} /\ Taken(r, entity[r].slug)
    => \E s \in overtook[r] : entity[s].slug = entity[r].slug

\* An update that holds a published row holds it from a publish; one that holds
\* a draft of a published event was overtaken.
StateOK(r) ==
    op[r] = "update" /\ pc[r] \in InFlight =>
        /\ entity[r].state = "published" => WasPublished(id[r])
        /\ entity[r].state = "draft" /\ events[id[r]].state = "published" =>
              \E s \in overtook[r] : id[s] = id[r] /\ entity[s].state = "published"

\* Only of a raced row does a request hold unordered dates, and a row that
\* differs from what save's SELECT loaded was written by one that overtook r.
DatesOK(r) ==
    /\ pc[r] \in InFlight /\ ~ Ordered(entity[r]) => WasRaced(id[r])
    /\ pc[r] = "save" /\ loaded[r] # events[id[r]] =>
          \E s \in overtook[r] : id[s] = id[r]

RequestOK(r) == HandlerOK(r) /\ SlugOK(r) /\ StateOK(r) /\ DatesOK(r)

\* The unique index.
UniqueSlugs ==
    \A i, j \in 1..Len(events) : events[i].slug = events[j].slug => i = j

Inv ==
    /\ TypeOK
    /\ \A r \in Request : RequestOK(r)
    /\ UniqueSlugs
    /\ PublishedByPublish
    /\ DatesOrderedUnlessRaced

\* The slug of the k-th turn of r's search.
Candidate(r, k) == IF k = 1 THEN base[r] ELSE Append(base[r], k - 1)

\* The candidates that r has passed and that are free by now.
Freed(r) == {k \in 1..(counter[r] - 1) : ~ Taken(r, Candidate(r, k))}

\* Each candidate r has passed is taken still, or was freed by a request of its own.
SearchOK(r) ==
    /\ IsFiniteSet(overtook[r])
    /\ pc[r] = "idle" => counter[r] = 0
    /\ pc[r] = "probe" =>
          /\ counter[r] >= 1
          /\ entity[r].slug = Candidate(r, counter[r])
          /\ Cardinality(Freed(r)) <= Cardinality(Renamers(r))

SearchInv == SearchBounded /\ \A r \in Request : SearchOK(r)
=============================================================================
