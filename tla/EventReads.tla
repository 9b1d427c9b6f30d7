----------------------------- MODULE EventReads -----------------------------
(***************************************************************************)
(* The reading endpoints of events-service over a table that its writing   *)
(* endpoints change meanwhile (EventTable; EventsStore implements it):     *)
(*   - GET /events, whose getManyAndCount is a query for the page and one  *)
(*     for the total, asked page by page by a client;                      *)
(*   - GET /events/:idOrSlug, asked by a client that kept a slug.          *)
(* The order of a page is that of startsAt alone: rows that start together *)
(* come in any order, another one in each query.                           *)
(***************************************************************************)
EXTENDS EventTable, Slugs, FiniteSets

CONSTANTS
    EventRow,   \* rows: the columns the endpoints compare
    Query,      \* filters of a listing: [state, from], NULL for one not given
    Limit,      \* values of limit
    MaxEvents,  \* bound on the table
    NULL        \* undefined

ASSUME RowAssumption == \A row \in EventRow :
    /\ DOMAIN row = {"owner", "state", "slug", "startsAt"}
    /\ row.startsAt \in Nat /\ row.state \in {"draft", "published"}
ASSUME QueryAssumption ==
    /\ NULL \notin Nat \cup {"draft", "published"}
    /\ Query \subseteq [state : {NULL, "draft", "published"}, from : Nat \cup {NULL}]
ASSUME LimitAssumption == Limit \subseteq Nat
ASSUME BoundAssumption == MaxEvents \in Nat

VARIABLES
    pc,         \* what the client does
    query, page, limit,     \* the listing it asks for
    seen,       \* the ids answered so far
    again,      \* those answered by a second page
    kept,       \* history: ids that stayed in the listing, where they were
    tied,       \* history: ids that started together with another in the listing
    came, left, \* history: an event entered or left the listing, or moved in it
    link,       \* the event a client knows, with its slug of then
    renamed,    \* history: that event has another slug now, or had
    answer      \* the answer to GET /events/:idOrSlug

history == <<kept, tied, came, left>>
walk == <<query, page, limit, seen, again>>
lookup == <<link, renamed, answer>>
vars == <<events, pc, walk, history, lookup>>

Id == 1..Len(events)
NoLink == [id |-> 0, slug |-> <<>>]
Answer(status, i) == [status |-> status, id |-> i]

----------------------------------------------------------------------------
(* findAll *)

\* `query.page` or `query.limit` of the SQL: what is not given has a default.
Given(field, default) == IF field # NULL THEN field ELSE default

Listed(q) == {i \in Id : /\ events[i].state = Given(q.state, "published")
                         /\ events[i].startsAt >= Given(q.from, 0)}

\* Mutants: pages counted from zero; pages that overlap.
OffsetFromZero(p, l) == p * l
OffsetOverlaps(p, l) == IF p > 1 THEN (p - 1) * l - 1 ELSE (p - 1) * l

Offset(p, l) == (p - 1) * l

\* The rows of S before i, when tie orders those that start together.
Before(S, tie, i) ==
    {j \in S : \/ events[j].startsAt < events[i].startsAt
               \/ events[j].startsAt = events[i].startsAt /\ tie[j] < tie[i]}

Position(S, tie, i) == Cardinality(Before(S, tie, i))

\* ORDER BY, OFFSET and LIMIT; TypeORM leaves out a LIMIT of 0.
Page(S, tie) ==
    {i \in S : /\ Position(S, tie, i) >= Offset(page, limit)
               /\ limit # 0 => Position(S, tie, i) < Offset(page, limit) + limit}

Tie == {t \in [Id -> Id] : \A i, j \in Id : t[i] = t[j] => i = j}

\* The ids of S that start together with another.
Tied(S) == {i \in S : \E j \in S \ {i} : events[j].startsAt = events[i].startsAt}

\* Mutant: a negative OFFSET goes through.
AskUnchecked(q, p, l) ==
    /\ pc = "idle"
    /\ query' = q /\ page' = p /\ limit' = l
    /\ pc' = "asking"
    /\ kept' = Listed(q) /\ tied' = Tied(Listed(q))
    /\ UNCHANGED <<events, seen, again, came, left, lookup>>

\* The client asks for its first page; PostgreSQL refuses a negative OFFSET.
Ask(q, p, l) ==
    /\ pc = "idle"
    /\ query' = q /\ page' = p /\ limit' = l
    /\ pc' = IF Offset(p, l) < 0 THEN "failed" ELSE "asking"
    /\ kept' = Listed(q) /\ tied' = Tied(Listed(q))
    /\ UNCHANGED <<events, seen, again, came, left, lookup>>

\* The query for the rows of the page.
GetMany ==
    /\ pc = "asking"
    /\ \E tie \in Tie : LET ids == Page(Listed(query), tie)
                        IN  seen' = seen \cup ids /\ again' = again \cup (seen \cap ids)
    /\ pc' = "counting"
    /\ UNCHANGED <<events, query, page, limit, history, lookup>>

\* The query for the total, and the answer.  The client is done when the pages
\* it has reach the total, and asks for the next page otherwise.
Count ==
    /\ pc = "counting"
    /\ IF limit = 0 \/ page * limit >= Cardinality(Listed(query))
       THEN pc' = "done" /\ UNCHANGED page
       ELSE pc' = "asking" /\ page' = page + 1
    /\ UNCHANGED <<events, query, limit, seen, again, history, lookup>>

----------------------------------------------------------------------------
(* findOne *)

\* A client learns of an event, from a listing or the answer to a POST.
Learn(i) ==
    /\ pc = "idle"
    /\ link' = [id |-> i, slug |-> events[i].slug]
    /\ pc' = "linked"
    /\ UNCHANGED <<events, walk, history, renamed, answer>>

\* Mutant: every path is taken for an id.
findOneById(path) ==
    LET found == {i \in Id : i = Number(path)}
    IN  IF found = {} THEN Answer(404, 0)
        ELSE LET i == CHOOSE i \in found : TRUE
             IN  IF events[i].state = "published" THEN Answer(200, i) ELSE Answer(403, 0)

\* findOne and findOneByIdOrSlug: a path with a leading number is an id, and
\* the controller passes no requester on.
findOne(path) ==
    LET found == {i \in Id : IF IsNumber(path) THEN i = Number(path) ELSE events[i].slug = path}
    IN  IF found = {} THEN Answer(404, 0)
        ELSE LET i == CHOOSE i \in found : TRUE
             IN  IF events[i].state = "published" THEN Answer(200, i) ELSE Answer(403, 0)

\* GET /events/:idOrSlug; GET /events/ is the listing.
Get(path) == IF path = <<>> THEN Answer(200, 0) ELSE findOne(path)

Follow ==
    /\ pc = "linked"
    /\ answer' = Get(link.slug)
    /\ pc' = "followed"
    /\ UNCHANGED <<events, walk, history, link, renamed>>

----------------------------------------------------------------------------
(* The writing endpoints *)

\* i is in the listing before and after the step, in its place.
Stays(i) == i \in Listed(query) /\ i \in Listed(query)' /\ events'[i].startsAt = events[i].startsAt

\* What a client in the middle of its pages has to reckon with.
Notice ==
    IF pc \in {"asking", "counting"}
    THEN /\ kept' = {i \in kept : Stays(i)}
         /\ tied' = tied \cup Tied(Listed(query))'
         /\ came' = (came \/ \E i \in Listed(query)' : ~ Stays(i))
         /\ left' = (left \/ \E i \in Listed(query) : ~ Stays(i))
    ELSE UNCHANGED history

\* Any change of the table, until the client has its last answer: at most this
\* is what the writing endpoints do to it when their requests race.
Write ==
    /\ pc \in {"idle", "asking", "counting", "linked"}
    /\ UNCHANGED <<pc, walk, link, answer>>
    /\ \E row \in EventRow :
          \/ Len(events) < MaxEvents /\ events' = Append(events, row)
          \/ \E i \in Id : events' = [events EXCEPT ![i] = row]
    /\ Change
    /\ Notice
    /\ renamed' = (renamed \/ (pc = "linked" /\ events'[link.id].slug # link.slug))

\* What they do when nothing races: the first free candidate of the search, for
\* the i-th event or, if i = 0, for a new one.
ensureUniqueSlug(base, i) ==
    Suffixed(base, CHOOSE n \in 0..Len(events) :
                       /\ Free(Suffixed(base, n), i)
                       /\ \A m \in 0..(n - 1) : ~ Free(Suffixed(base, m), i))

\* row holds the body's slug, or that of its title.
Create(row) ==
    /\ row.state = "draft" /\ Len(events) < MaxEvents
    /\ events' = Append(events, [row EXCEPT !.slug = ensureUniqueSlug(@, 0)])

\* row holds the body's date and slug; an empty slug counts as none.
Update(i, row) ==
    LET slug == IF row.slug = <<>> THEN events[i].slug ELSE ensureUniqueSlug(row.slug, i)
    IN  events' = [events EXCEPT ![i].startsAt = row.startsAt, ![i].slug = slug]

Publish(i) ==
    /\ events[i].state = "draft"
    /\ events' = [events EXCEPT ![i].state = "published"]

----------------------------------------------------------------------------

Init ==
    /\ Empty
    /\ pc = "idle"
    /\ query = [state |-> NULL, from |-> NULL] /\ page = 1 /\ limit = 0
    /\ seen = {} /\ again = {}
    /\ kept = {} /\ tied = {} /\ came = FALSE /\ left = FALSE
    /\ link = NoLink /\ renamed = FALSE /\ answer = Answer(0, 0)

Next ==
    \/ Write
    \/ \E q \in Query, p \in {0, 1}, l \in Limit : Ask(q, p, l)
    \/ GetMany \/ Count
    \/ \E i \in Id : Learn(i)
    \/ Follow

Spec == Init /\ [][Next]_vars

\* The writing endpoints alone, one request after the other.
NextAlone ==
    /\ \/ \E row \in EventRow : Create(row)
       \/ \E i \in Id : Publish(i) \/ \E row \in EventRow : Update(i, row)
    /\ UNCHANGED <<pc, walk, history, lookup>>

SpecAlone == Init /\ [][NextAlone]_vars

----------------------------------------------------------------------------
(* Properties *)

TypeOK ==
    /\ events \in Seq(EventRow)
    /\ pc \in {"idle", "asking", "counting", "done", "failed", "linked", "followed"}
    /\ query \in [state : {NULL, "draft", "published"}, from : Nat \cup {NULL}]
    /\ page \in Nat /\ limit \in Nat
    /\ pc \in {"asking", "counting"} => Offset(page, limit) \in Nat
    /\ seen \in SUBSET Id /\ again \in SUBSET Id
    /\ kept \in SUBSET Id /\ tied \in SUBSET Id
    /\ came \in BOOLEAN /\ left \in BOOLEAN /\ renamed \in BOOLEAN
    /\ pc = "linked" => link.id \in Id

\* A client that asks for page after page misses an event that was in the
\* listing all along only if another event left the listing, or moved in it,
\* before the last page, or if the event starts together with another: an
\* event that is published meanwhile hides none, and neither does a total that
\* is counted after the page (events.service.ts 122-129).
NothingSkipped == pc = "done" /\ ~ left => kept \ tied \subseteq seen

\* A client sees an event on two pages only if some event entered the listing,
\* or moved in it, meanwhile, or if the event starts together with another: an
\* event that leaves repeats none (events.service.ts 122-129).
NothingTwice == ~ came => again \subseteq tied

\* A slug learned from the service leads to its event as long as the event is
\* published and keeps the slug, whatever others are named meanwhile, unless
\* the slug is empty or has a leading number (events.controller.ts 79-83,
\* events.service.ts 141-169).
LinkLeadsToItsEvent ==
    [][pc = "linked" /\ pc' = "followed" /\ ~ renamed
         /\ link.slug # <<>> /\ ~ IsNumber(link.slug) =>
            answer' = IF events[link.id].state = "published" THEN Answer(200, link.id)
                      ELSE Answer(403, 0)]_vars

\* "Get Event by Slug" (https/events/events.http:184): a published event is
\* found under its slug.
FoundByItsSlug ==
    \A i \in Id : events[i].state = "published" => Get(events[i].slug) = Answer(200, i)

----------------------------------------------------------------------------
(* The inductive invariant behind the properties *)

\* The events of S that start before i: i's position, if it starts alone.
Earlier(S, i) == {j \in S : events[j].startsAt < events[i].startsAt}
Rank(i) == Cardinality(Earlier(Listed(query), i))

\* The positions answered so far.
Reach == IF pc = "asking" THEN Offset(page, limit) ELSE Offset(page, limit) + limit

\* The history fits the listing.
HistoryOK ==
    pc \in {"asking", "counting"} =>
        kept \subseteq Listed(query) /\ Tied(Listed(query)) \subseteq tied

\* What has not been answered lies ahead, unless something left.
AheadOK ==
    pc \in {"asking", "counting"} /\ ~ left =>
        \A i \in (kept \ tied) \ seen :
            Rank(i) >= Reach /\ (pc = "counting" => limit # 0)

\* What has been answered lies behind, unless something came.
BehindOK ==
    pc \in {"asking", "counting"} /\ ~ came /\ limit # 0 =>
        \A i \in (seen \cap Listed(query)) \ tied : Rank(i) < Reach

\* Nothing is answered before the first page, and a limit of 0 has no second.
FirstOK ==
    /\ pc = "idle" => seen = {} /\ again = {}
    /\ pc = "asking" /\ limit = 0 => seen = {}

LinkOK == pc = "linked" /\ ~ renamed => events[link.id].slug = link.slug

UniqueSlugs == \A i, j \in Id : events[i].slug = events[j].slug => i = j

Inv ==
    /\ TypeOK
    /\ HistoryOK /\ AheadOK /\ BehindOK /\ FirstOK
    /\ LinkOK /\ UniqueSlugs
    /\ NothingSkipped /\ NothingTwice
=============================================================================
