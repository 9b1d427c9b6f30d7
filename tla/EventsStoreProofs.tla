------------------------- MODULE EventsStoreProofs -------------------------
(***************************************************************************)
(* Proofs about the events table, for every set of requests, requesters    *)
(* and bodies: Inv is inductive, and the properties follow from it.        *)
(***************************************************************************)
EXTENDS EventsStore, FiniteSetTheorems, TLAPS

\* Whether a statement is committed is read off a handler's label throughout.
USE DEF Written

----------------------------------------------------------------------------
(* What the steps do *)

\* What the checks of create, update and publish establish for the row e that
\* a request of u holds from then on.
Checked(o, i, u, e) ==
    /\ o # "publish" => Ordered(e)
    /\ o = "create" => e.state = "draft" /\ i = 0
    /\ o = "publish" => e.state = "published" /\ (Ordered(events[i]) => Ordered(e))
    /\ o # "create" =>
          /\ i \in 1..Len(events) /\ Permitted(u, events[i])
          /\ e.owner = events[i].owner
          /\ o = "update" => e.state = events[i].state

\* r has begun: it is in flight with a checked row, or has been refused.
Begun(r, o, i, u, e, label) ==
    /\ pc[r] = "idle"
    /\ pc' = [pc EXCEPT ![r] = label]
    /\ op' = [op EXCEPT ![r] = o]
    /\ id' = [id EXCEPT ![r] = i]
    /\ who' = [who EXCEPT ![r] = u]
    /\ entity' = [entity EXCEPT ![r] = e]
    /\ \/ label = "probe" /\ base' = [base EXCEPT ![r] = e.slug] /\ counter' = [counter EXCEPT ![r] = 1]
       \/ label # "probe" /\ UNCHANGED <<base, counter>>
    /\ UNCHANGED <<events, loaded, overtook>>
    /\ label \in {"probe", "select"} => Checked(o, i, u, e)
    /\ label = "select" => o # "create" /\ e.slug = events[i].slug

\* A body's dates are numbers or absent, its slug a slug or absent.
LEMMA DtoFields ==
    ASSUME NEW d \in Dto
    PROVE  /\ d.startsAt \in Nat \cup {NULL} /\ d.endsAt \in Nat \cup {NULL}
           /\ d.opensAt \in Nat \cup {NULL} /\ d.closesAt \in Nat \cup {NULL}
           /\ d.slug \in Slug \cup {NULL}
BY DtoAssumption DEF DtoType

\* Merging a body into a row changes its dates only.
LEMMA MergedRow ==
    ASSUME NEW row \in Row, NEW d \in Dto
    PROVE  /\ Merged(row, d) \in Row
           /\ Merged(row, d).owner = row.owner
           /\ Merged(row, d).state = row.state
           /\ Merged(row, d).slug = row.slug
<1>1. /\ Given(d.startsAt, row.startsAt) \in Nat
      /\ Given(d.endsAt, row.endsAt) \in Nat
      /\ Given(d.opensAt, row.opensAt) \in Nat \cup {NULL}
      /\ Given(d.closesAt, row.closesAt) \in Nat \cup {NULL}
  BY DtoFields DEF Given, Row
<1>2. QED
  BY <1>1 DEF Merged, Row

\* create begins as described.
LEMMA CreateBegins ==
    ASSUME TypeOK, NEW r \in Request, NEW u \in Requester, NEW d \in Dto, Create(r, u, d)
    PROVE  \E e \in Row, label \in {"probe", "badRequest"} : Begun(r, "create", 0, u, e, label)
<1> DEFINE row == NewEvent(d, u)
<1>1. row \in Row /\ row.slug \in Slug /\ [row EXCEPT !.slug = row.slug] = row /\ row.state = "draft"
  <2>1. /\ d.startsAt \in Nat /\ d.endsAt \in Nat /\ d.slug \in Slug
        /\ d.opensAt \in Nat \cup {NULL} /\ d.closesAt \in Nat \cup {NULL}
    BY DtoFields DEF Create
  <2>2. u.id \in UserId \cup {NULL}
    BY RequesterAssumption
  <2>3. QED
    BY <2>1, <2>2 DEF NewEvent, Row, State
<1>2. CASE Ordered(row) /\ WindowOK(row)
  <2>1. SearchSlug(r, row, row.slug)
    BY <1>2 DEF Create
  <2>2. Begun(r, "create", 0, u, row, "probe")
    BY <1>1, <1>2, <2>1 DEF TypeOK, Create, Begin, Begun, SearchSlug, Goto, Checked
  <2>3. QED
    BY <1>1, <2>2
<1>3. CASE ~ (Ordered(row) /\ WindowOK(row))
  <2>1. Answered(r, "badRequest")
    BY <1>3 DEF Create
  <2>2. entity' = [entity EXCEPT ![r] = entity[r]]
    BY <2>1 DEF TypeOK, Answered
  <2>3. Begun(r, "create", 0, u, entity[r], "badRequest")
    BY <2>1, <2>2 DEF TypeOK, Create, Begin, Begun, Answered, Goto
  <2>4. QED
    BY <2>3 DEF TypeOK
<1>4. QED
  BY <1>2, <1>3

\* update begins as described.
LEMMA UpdateBegins ==
    ASSUME TypeOK, NEW r \in Request, NEW u \in Requester, NEW d \in Dto,
           NEW i \in Nat, Update(r, u, i, d)
    PROVE  \E e \in Row, label \in {"probe", "select", "badRequest", "forbidden", "notFound"} :
              Begun(r, "update", i, u, e, label)
<1>1. ASSUME NEW label \in {"badRequest", "forbidden", "notFound"}, Answered(r, label)
      PROVE  Begun(r, "update", i, u, entity[r], label)
  BY <1>1 DEF TypeOK, Update, Begin, Begun, Answered, Goto
<1>2. entity[r] \in Row
  BY DEF TypeOK
<1>3. CASE i \notin 1..Len(events)
  BY <1>1, <1>2, <1>3 DEF Update
<1>4. CASE i \in 1..Len(events)
  <2> DEFINE row == events[i]
  <2>1. row \in Row /\ UpdateRow(r, u, row, d)
    BY <1>4 DEF TypeOK, Update
  <2>2. CASE Answered(r, "forbidden") \/ Answered(r, "badRequest")
    BY <1>1, <1>2, <2>2
  <2>3. CASE /\ Permitted(u, row) /\ Ordered(Merged(row, d)) /\ HasSlug(d)
             /\ SearchSlug(r, Merged(row, d), d.slug)
    <3> DEFINE e == [Merged(row, d) EXCEPT !.slug = d.slug]
    <3>1. /\ e \in Row /\ e.owner = row.owner /\ e.state = row.state /\ Ordered(e)
          /\ d.slug \in Slug
      BY <2>1, <2>3, MergedRow, DtoFields DEF HasSlug, Row, Ordered
    <3>2. Begun(r, "update", i, u, e, "probe")
      BY <1>4, <2>3, <3>1 DEF TypeOK, Update, Begin, Begun, SearchSlug, Goto, Checked
    <3>3. QED
      BY <3>1, <3>2
  <2>4. CASE /\ Permitted(u, row) /\ Ordered(Merged(row, d)) /\ ~ HasSlug(d)
             /\ Goto(r, "select") /\ Hold(r, Merged(row, d))
    <3>1. Begun(r, "update", i, u, Merged(row, d), "select")
      BY <1>4, <2>1, <2>4, MergedRow DEF TypeOK, Update, Begin, Begun, Hold, Goto, Checked
    <3>2. QED
      BY <2>1, <3>1, MergedRow
  <2>5. QED
    BY <2>1, <2>2, <2>3, <2>4 DEF UpdateRow
<1>5. QED
  BY <1>3, <1>4

\* publish begins as described.
LEMMA PublishBegins ==
    ASSUME TypeOK, NEW r \in Request, NEW u \in Requester, NEW i \in Nat, Publish(r, u, i)
    PROVE  \E e \in Row, label \in {"select", "badRequest", "forbidden", "notFound"} :
              Begun(r, "publish", i, u, e, label)
<1>1. ASSUME NEW label \in {"badRequest", "forbidden", "notFound"}, Answered(r, label)
      PROVE  Begun(r, "publish", i, u, entity[r], label)
  BY <1>1 DEF TypeOK, Publish, Begin, Begun, Answered, Goto
<1>2. entity[r] \in Row
  BY DEF TypeOK
<1>3. CASE i \notin 1..Len(events)
  BY <1>1, <1>2, <1>3 DEF Publish
<1>4. CASE i \in 1..Len(events)
  <2> DEFINE row == events[i]
             e == [row EXCEPT !.state = "published"]
  <2>1. row \in Row /\ PublishRow(r, u, row)
    BY <1>4 DEF TypeOK, Publish
  <2>2. /\ e \in Row /\ e.owner = row.owner /\ e.slug = row.slug /\ e.state = "published"
        /\ e.startsAt = row.startsAt /\ e.endsAt = row.endsAt
    BY <2>1 DEF Row, State
  <2>3. CASE Answered(r, "forbidden") \/ Answered(r, "badRequest")
    BY <1>1, <1>2, <2>3
  <2>4. CASE Permitted(u, row) /\ Goto(r, "select") /\ Hold(r, e)
    <3>1. Ordered(row) => Ordered(e)
      BY <2>2 DEF Ordered
    <3>2. Begun(r, "publish", i, u, e, "select")
      BY <1>4, <2>2, <2>4, <3>1 DEF TypeOK, Publish, Begin, Begun, Hold, Goto, Checked
    <3>3. QED
      BY <2>2, <3>2
  <2>5. QED
    BY <2>1, <2>3, <2>4 DEF PublishRow
<1>5. QED
  BY <1>3, <1>4

----------------------------------------------------------------------------
(* What every step keeps *)

\* Requests that wrote stay as they are, the history grows, rows keep their
\* owners and are never removed.
Kept ==
    /\ \A q \in Request : pc[q] \in Written =>
          /\ pc'[q] \in Written /\ op'[q] = op[q] /\ id'[q] = id[q]
          /\ who'[q] = who[q] /\ entity'[q] = entity[q]
    /\ \A q \in Request : overtook[q] \subseteq overtook'[q]
    /\ Len(events') >= Len(events)
    /\ \A i \in 1..Len(events) : events'[i].owner = events[i].owner

\* What happened to an event stays true of it.
LEMMA HistoryKept ==
    ASSUME Inv, Kept, NEW i \in 1..Len(events)
    PROVE  /\ WasPublished(i) => WasPublished(i)'
           /\ WasRaced(i) => WasRaced(i)'
<1>1. ASSUME WasPublished(i) PROVE WasPublished(i)'
  <2>1. PICK r \in Request : /\ op[r] = "publish" /\ id[r] = i /\ pc[r] \in Written
                             /\ Permitted(who[r], events[i])
    BY <1>1 DEF WasPublished
  <2>2. /\ op'[r] = "publish" /\ id'[r] = i /\ pc'[r] \in Written
        /\ Permitted(who'[r], events'[i])
    BY <2>1 DEF Kept, Permitted
  <2>3. QED
    BY <2>2 DEF WasPublished, Permitted
<1>2. ASSUME WasRaced(i) PROVE WasRaced(i)'
  <2>0. PICK r \in Request : \E s \in overtook[r] : pc[r] \in Written /\ id[r] = i /\ id[s] = i
    BY <1>2 DEF WasRaced
  <2>1. PICK s \in overtook[r] : pc[r] \in Written /\ id[r] = i /\ id[s] = i
    BY <2>0
  <2>2. s \in Request /\ pc[s] \in Written
    BY <2>1 DEF Inv, TypeOK, RequestOK, HandlerOK
  <2>3. pc'[r] \in Written /\ id'[r] = i /\ id'[s] = i /\ s \in overtook'[r]
    BY <2>1, <2>2 DEF Kept
  <2>4. QED
    BY <2>3 DEF WasRaced
<1>3. QED
  BY <1>1, <1>2

\* Witnesses in a request's history keep witnessing.
LEMMA WitnessKept ==
    ASSUME Inv, Kept, NEW r \in Request, NEW s \in overtook[r]
    PROVE  s \in overtook'[r] /\ entity'[s] = entity[s] /\ id'[s] = id[s] /\ pc'[s] \in Written
BY DEF Inv, TypeOK, RequestOK, HandlerOK, Kept

----------------------------------------------------------------------------
(* The initial states *)

LEMMA InitInv == Init => Inv
BY DEF Init, Inv, TypeOK, RequestOK, HandlerOK, SlugOK, StateOK, DatesOK, UniqueSlugs, Taken,
       PublishedByPublish, DatesOrderedUnlessRaced, InFlight, NoRow, Nobody, Row, Slug, State

----------------------------------------------------------------------------
(* The steps that leave the table alone *)

\* q does nothing while the table and the history stay.
Untouched(q) ==
    /\ pc'[q] = pc[q] /\ op'[q] = op[q] /\ id'[q] = id[q] /\ who'[q] = who[q]
    /\ entity'[q] = entity[q] /\ loaded'[q] = loaded[q]

\* A request that does nothing stays as it should be.
LEMMA OthersKept ==
    ASSUME Inv, Kept, UNCHANGED <<events, overtook>>, NEW q \in Request, Untouched(q)
    PROVE  RequestOK(q)'
<1>1. RequestOK(q)
  BY DEF Inv
<1>2. HandlerOK(q)'
  BY <1>1, WitnessKept DEF RequestOK, HandlerOK, Untouched, Permitted, Ordered
<1>3. SlugOK(q)'
  <2> SUFFICES ASSUME \/ pc[q] = "conflict"
                      \/ pc[q] \in {"insert", "select", "save"} /\ Taken(q, entity[q].slug)
               PROVE  \E s \in overtook'[q] : entity'[s].slug = entity[q].slug
    BY DEF SlugOK, Untouched, Taken
  <2>1. PICK s \in overtook[q] : entity[s].slug = entity[q].slug
    BY <1>1 DEF RequestOK, SlugOK
  <2>2. QED
    BY <2>1, WitnessKept
<1>4. id'[q] = id[q] /\ (pc[q] \in InFlight /\ op[q] # "create" => id[q] \in 1..Len(events))
  BY <1>1 DEF Untouched, RequestOK, HandlerOK
<1>5. pc[q] \in InFlight /\ op[q] # "create" =>
         /\ WasPublished(id[q]) => WasPublished(id[q])'
         /\ WasRaced(id[q]) => WasRaced(id[q])'
  BY <1>4, HistoryKept DEF WasPublished, WasRaced
<1>6. StateOK(q)'
  BY <1>1, <1>4, <1>5, WitnessKept DEF RequestOK, StateOK, Untouched
<1>7. DatesOK(q)'
  <2>1. pc[q] \in InFlight /\ ~ Ordered(entity[q]) => op[q] # "create"
    BY <1>1 DEF RequestOK, HandlerOK
  <2>2. QED
    BY <1>1, <1>4, <1>5, <2>1, WitnessKept DEF RequestOK, DatesOK, Untouched, Ordered
<1>8. QED
  BY <1>2, <1>3, <1>6, <1>7 DEF RequestOK

\* What the table and its history promise stays when neither changes.
LEMMA TableKept ==
    ASSUME Inv, Kept, UNCHANGED <<events, overtook>>
    PROVE  UniqueSlugs' /\ PublishedByPublish' /\ DatesOrderedUnlessRaced'
BY HistoryKept DEF Inv, UniqueSlugs, PublishedByPublish, DatesOrderedUnlessRaced, Ordered

\* A request that begins.
LEMMA BeginStep ==
    ASSUME Inv, NEW r \in Request,
           NEW o \in {"create", "update", "publish"}, NEW i \in Nat, NEW u \in Requester,
           NEW e \in Row,
           NEW label \in {"probe", "select", "badRequest", "forbidden", "notFound"},
           Begun(r, o, i, u, e, label)
    PROVE  Inv'
<1>1. TypeOK'
  <2>1. base' \in [Request -> Slug] /\ counter' \in [Request -> Nat]
    <3>1. e.slug \in Slug
      BY DEF Row
    <3>2. CASE UNCHANGED <<base, counter>>
      BY <3>2 DEF Inv, TypeOK
    <3>3. CASE base' = [base EXCEPT ![r] = e.slug] /\ counter' = [counter EXCEPT ![r] = 1]
      BY <3>1, <3>3 DEF Inv, TypeOK
    <3>4. QED
      BY <3>2, <3>3 DEF Begun
  <2>2. pc' \in [Request -> {"idle", "commit"} \cup InFlight \cup Answer]
    BY DEF Inv, TypeOK, Begun, InFlight, Answer
  <2>3. /\ op' \in [Request -> {"none", "create", "update", "publish"}]
        /\ who' \in [Request -> Requester \cup {Nobody}]
        /\ id' \in [Request -> Nat] /\ entity' \in [Request -> Row]
    BY DEF Inv, TypeOK, Begun
  <2>4. UNCHANGED <<events, loaded, overtook>>
    BY DEF Begun
  <2>5. QED
    BY <2>1, <2>2, <2>3, <2>4 DEF Inv, TypeOK
<1>2. /\ \A q \in Request \ {r} : Untouched(q)
      /\ pc[r] = "idle" /\ pc'[r] = label /\ op'[r] = o /\ id'[r] = i
      /\ who'[r] = u /\ entity'[r] = e
      /\ events' = events /\ loaded' = loaded /\ overtook' = overtook
  BY DEF Inv, TypeOK, Begun, Untouched
<1>3. Kept
  BY <1>2 DEF Kept, Inv, TypeOK, Untouched
<1>4. label \in {"probe", "select"} => Checked(o, i, u, e)
  BY DEF Begun
<1>5. label = "select" => o # "create" /\ e.slug = events[i].slug
  BY DEF Begun
<1>6. HandlerOK(r)'
  <2>1. \A s \in overtook'[r] : pc'[s] \in Written
    BY <1>2, <1>3, WitnessKept
  <2>2. QED
    BY <2>1, <1>2, <1>4, <1>5 DEF HandlerOK, Checked, InFlight, Permitted, Ordered
<1>7. SlugOK(r)'
  <2> SUFFICES ASSUME label = "select", Taken(r, e.slug)' PROVE FALSE
    BY <1>2 DEF SlugOK, Taken
  <2>1. i \in 1..Len(events) /\ e.slug = events[i].slug
    BY <1>4, <1>5 DEF Checked
  <2>2. \E j \in 1..Len(events) : j # i /\ events[j].slug = e.slug
    BY <1>2 DEF Taken
  <2>3. QED
    BY <2>1, <2>2 DEF Inv, UniqueSlugs
<1>8. StateOK(r)'
  <2> SUFFICES ASSUME o = "update", label \in InFlight
               PROVE  /\ e.state = "published" => WasPublished(i)'
                      /\ e.state = events[i].state
    BY <1>2 DEF StateOK, WasPublished
  <2>1. i \in 1..Len(events) /\ e.state = events[i].state
    BY <1>4 DEF Checked, InFlight
  <2>2. QED
    BY <2>1, <1>3, HistoryKept DEF Inv, PublishedByPublish
<1>9. DatesOK(r)'
  <2> SUFFICES ASSUME label \in InFlight, ~ Ordered(e)
               PROVE  WasRaced(i)'
    BY <1>2 DEF DatesOK, WasRaced, Ordered
  <2>1. o = "publish" /\ i \in 1..Len(events) /\ ~ Ordered(events[i])
    BY <1>4 DEF Checked, InFlight
  <2>2. QED
    BY <2>1, <1>3, HistoryKept DEF Inv, DatesOrderedUnlessRaced
<1>10. \A q \in Request : RequestOK(q)'
  BY <1>2, <1>3, <1>6, <1>7, <1>8, <1>9, OthersKept DEF RequestOK
<1>11. QED
  BY <1>1, <1>2, <1>3, <1>10, TableKept DEF Inv

\* One turn of the slug search.
LEMMA ProbeStep == ASSUME Inv, NEW r \in Request, Probe(r) PROVE Inv'
<1>1. RequestOK(r) /\ pc[r] = "probe"
  BY DEF Inv, Probe
<1>2. /\ \A q \in Request \ {r} : Untouched(q)
      /\ UNCHANGED <<events, overtook, op, id, who, loaded>>
      /\ entity'[r].state = entity[r].state /\ entity'[r].owner = entity[r].owner
      /\ entity'[r].startsAt = entity[r].startsAt /\ entity'[r].endsAt = entity[r].endsAt
  BY DEF Inv, TypeOK, Probe, Untouched, Goto, Row
<1>3. TypeOK'
  <2> DEFINE slug == Append(base[r], counter[r])
  <2>0. entity[r] \in Row /\ counter[r] \in Nat /\ base[r] \in Slug
    BY DEF Inv, TypeOK
  <2>1. slug \in Slug
    BY <2>0 DEF Slug
  <2>2. \/ entity' = entity /\ counter' = counter
        \/ entity' = [entity EXCEPT ![r].slug = slug] /\ counter' = [counter EXCEPT ![r] = @ + 1]
    BY DEF Probe
  <2> HIDE DEF slug
  <2>3. [entity[r] EXCEPT !.slug = slug] \in Row
    BY <2>0, <2>1 DEF Row
  <2>4. entity' \in [Request -> Row] /\ counter' \in [Request -> Nat]
    <3>1. CASE entity' = entity /\ counter' = counter
      BY <3>1 DEF Inv, TypeOK
    <3>2. CASE entity' = [entity EXCEPT ![r].slug = slug] /\ counter' = [counter EXCEPT ![r] = @ + 1]
      <4>1. counter' \in [Request -> Nat]
        BY <2>0, <3>2 DEF Inv, TypeOK
      <4>2. entity \in [Request -> Row]
        BY DEF Inv, TypeOK
      <4>3. entity' = [entity EXCEPT ![r] = [entity[r] EXCEPT !.slug = slug]]
        BY <3>2, <4>2
      <4>4. entity' \in [Request -> Row]
        BY <2>3, <4>2, <4>3
      <4>5. QED
        BY <4>1, <4>4
    <3>3. QED
      BY <2>2, <3>1, <3>2
  <2>5. \/ pc' = pc \/ pc' = [pc EXCEPT ![r] = "insert"] \/ pc' = [pc EXCEPT ![r] = "select"]
    BY DEF Probe, Goto
  <2>6. pc' \in [Request -> {"idle", "commit"} \cup InFlight \cup Answer]
    BY <2>5 DEF Inv, TypeOK, InFlight
  <2>7. QED
    BY <2>4, <2>6 DEF Inv, TypeOK, Probe
<1>4. Kept
  BY <1>1, <1>2 DEF Kept, Inv, TypeOK, Untouched
<1>5. \/ pc'[r] = "probe"
      \/ /\ pc'[r] = IF op[r] = "create" THEN "insert" ELSE "select"
         /\ ~ Taken(r, entity[r].slug) /\ entity'[r] = entity[r]
  BY DEF Inv, TypeOK, Probe, Goto
<1>6. HandlerOK(r)'
  <2>1. \A s \in overtook'[r] : pc'[s] \in Written
    BY <1>2, <1>4, WitnessKept
  <2>2. op[r] \in {"create", "update", "publish"}
    BY <1>1 DEF Inv, TypeOK, RequestOK, HandlerOK, InFlight
  <2>3. pc'[r] = "probe" \/ (pc'[r] = "insert" /\ op[r] = "create")
        \/ (pc'[r] = "select" /\ op[r] \in {"update", "publish"})
    BY <1>5, <2>2
  <2>4. /\ Ordered(entity[r])' <=> Ordered(entity[r])
        /\ Permitted(who[r], events[id[r]])' <=> Permitted(who[r], events[id[r]])
    BY <1>2 DEF Ordered, Permitted
  <2>5. HandlerOK(r)
    BY <1>1 DEF RequestOK
  <2>6. QED
    BY <1>1, <1>2, <2>1, <2>2, <2>3, <2>4, <2>5 DEF HandlerOK, InFlight
<1>7. SlugOK(r)'
  BY <1>2, <1>5 DEF SlugOK, Taken
<1>8. pc[r] \in InFlight /\ pc'[r] \in InFlight /\ pc'[r] # "save"
  BY <1>1, <1>5 DEF InFlight
<1>9. StateOK(r)'
  BY <1>1, <1>2, <1>4, <1>8, HistoryKept, WitnessKept
     DEF RequestOK, StateOK, HandlerOK, WasPublished
<1>10. DatesOK(r)'
  <2>1. ASSUME ~ Ordered(entity[r]) PROVE WasRaced(id[r])'
    <3>1. id[r] \in 1..Len(events) /\ WasRaced(id[r])
      BY <1>1, <1>8, <2>1 DEF RequestOK, HandlerOK, DatesOK
    <3>2. QED
      BY <3>1, <1>2, <1>4, HistoryKept DEF WasRaced
  <2>2. QED
    BY <2>1, <1>2, <1>8 DEF DatesOK, Ordered
<1>11. \A q \in Request : RequestOK(q)'
  BY <1>2, <1>4, <1>6, <1>7, <1>9, <1>10, OthersKept DEF RequestOK
<1>12. QED
  BY <1>2, <1>3, <1>4, <1>11, TableKept DEF Inv

\* save's SELECT.
LEMMA SelectStep == ASSUME Inv, NEW r \in Request, Select(r) PROVE Inv'
<1>1. RequestOK(r) /\ pc[r] = "select" /\ op[r] # "create" /\ id[r] \in 1..Len(events)
  BY DEF Inv, Select, RequestOK, HandlerOK, InFlight
<1>2. /\ \A q \in Request \ {r} : Untouched(q)
      /\ UNCHANGED <<events, overtook, op, id, who, entity>>
      /\ pc'[r] = "save" /\ loaded'[r] = events[id[r]]
  BY DEF Inv, TypeOK, Select, Untouched, Goto
<1>3. TypeOK'
  BY <1>1 DEF Inv, TypeOK, Select, Goto, InFlight
<1>4. Kept
  BY <1>1, <1>2 DEF Kept, Inv, TypeOK, Untouched
<1>5. HandlerOK(r)'
  <2>1. \A s \in overtook'[r] : pc'[s] \in Written
    BY <1>2, <1>4, WitnessKept
  <2>2. QED
    BY <1>1, <1>2, <2>1 DEF RequestOK, HandlerOK, InFlight, Permitted, Ordered
<1>6. SlugOK(r)'
  BY <1>1, <1>2 DEF RequestOK, SlugOK, Taken
<1>7. StateOK(r)'
  BY <1>1, <1>2, <1>4, HistoryKept, WitnessKept DEF RequestOK, StateOK, WasPublished, InFlight
<1>8. DatesOK(r)'
  BY <1>1, <1>2, <1>4, HistoryKept DEF RequestOK, DatesOK, WasRaced, Ordered, InFlight
<1>9. \A q \in Request : RequestOK(q)'
  BY <1>2, <1>4, <1>5, <1>6, <1>7, <1>8, OthersKept DEF RequestOK
<1>10. QED
  BY <1>2, <1>3, <1>4, <1>9, TableKept DEF Inv

\* A request that is answered without a write: it fails, or its write would
\* have taken a slug that a request which overtook it holds.
LEMMA GiveUpStep ==
    ASSUME Inv, NEW r \in Request, pc[r] \in InFlight,
           NEW label \in {"failed", "conflict"}, Goto(r, label),
           UNCHANGED <<events, op, who, id, entity, loaded, base, counter, overtook>>,
           label = "conflict" => \E s \in overtook[r] : entity[s].slug = entity[r].slug
    PROVE  Inv'
<1>1. /\ \A q \in Request \ {r} : Untouched(q)
      /\ pc'[r] = label
  BY DEF Inv, TypeOK, Untouched, Goto
<1>2. TypeOK'
  BY DEF Inv, TypeOK, Goto, Answer
<1>3. Kept
  BY <1>1 DEF Kept, Inv, TypeOK, Untouched, InFlight
<1>4. HandlerOK(r)'
  <2>1. \A s \in overtook'[r] : pc'[s] \in Written
    BY <1>3, WitnessKept
  <2>2. QED
    BY <1>1, <2>1 DEF HandlerOK, InFlight
<1>5. SlugOK(r)' /\ StateOK(r)' /\ DatesOK(r)'
  BY <1>1 DEF SlugOK, StateOK, DatesOK, InFlight
<1>6. \A q \in Request : RequestOK(q)'
  BY <1>1, <1>3, <1>4, <1>5, OthersKept DEF RequestOK
<1>7. QED
  BY <1>2, <1>3, <1>6, TableKept DEF Inv

\* A request whose statement is committed, and that is answered, or is not.
LEMMA AnswerStep ==
    ASSUME Inv, NEW r \in Request, pc[r] = "commit",
           NEW label \in {"ok", "lost"}, Goto(r, label),
           UNCHANGED <<events, op, who, id, entity, loaded, base, counter, overtook>>
    PROVE  Inv'
<1>1. /\ \A q \in Request \ {r} : Untouched(q)
      /\ pc'[r] = label
  BY DEF Inv, TypeOK, Untouched, Goto
<1>2. TypeOK'
  BY DEF Inv, TypeOK, Goto, Answer
<1>3. Kept
  BY <1>1 DEF Kept, Inv, TypeOK, Untouched
<1>4. HandlerOK(r)'
  <2>1. \A s \in overtook'[r] : pc'[s] \in Written
    BY <1>3, WitnessKept
  <2>2. QED
    BY <1>1, <2>1 DEF HandlerOK, InFlight
<1>5. SlugOK(r)' /\ StateOK(r)' /\ DatesOK(r)'
  BY <1>1 DEF SlugOK, StateOK, DatesOK, InFlight
<1>6. \A q \in Request : RequestOK(q)'
  BY <1>1, <1>3, <1>4, <1>5, OthersKept DEF RequestOK
<1>7. QED
  BY <1>2, <1>3, <1>6, TableKept DEF Inv

----------------------------------------------------------------------------
(* The steps that write *)

\* The row of an UPDATE, column by column.
LEMMA SavedFields ==
    ASSUME TypeOK, NEW r \in Request, id[r] \in 1..Len(events)
    PROVE  LET row == events[id[r]]
           IN  /\ Saved(r) \in Row
               /\ Saved(r).owner = SavedColumn(row.owner, loaded[r].owner, entity[r].owner)
               /\ Saved(r).state = SavedColumn(row.state, loaded[r].state, entity[r].state)
               /\ Saved(r).slug = SavedColumn(row.slug, loaded[r].slug, entity[r].slug)
               /\ Saved(r).startsAt = SavedColumn(row.startsAt, loaded[r].startsAt, entity[r].startsAt)
               /\ Saved(r).endsAt = SavedColumn(row.endsAt, loaded[r].endsAt, entity[r].endsAt)
<1> DEFINE row == events[id[r]]
<1>1. row \in Row /\ loaded[r] \in Row /\ entity[r] \in Row
  BY DEF TypeOK
<1>2. DOMAIN row = {"owner", "state", "slug", "startsAt", "endsAt", "opensAt", "closesAt"}
  BY <1>1 DEF Row
<1>3. Saved(r) = [owner |-> SavedColumn(row.owner, loaded[r].owner, entity[r].owner),
                  state |-> SavedColumn(row.state, loaded[r].state, entity[r].state),
                  slug |-> SavedColumn(row.slug, loaded[r].slug, entity[r].slug),
                  startsAt |-> SavedColumn(row.startsAt, loaded[r].startsAt, entity[r].startsAt),
                  endsAt |-> SavedColumn(row.endsAt, loaded[r].endsAt, entity[r].endsAt),
                  opensAt |-> SavedColumn(row.opensAt, loaded[r].opensAt, entity[r].opensAt),
                  closesAt |-> SavedColumn(row.closesAt, loaded[r].closesAt, entity[r].closesAt)]
  BY <1>2 DEF Saved
<1>4. QED
  BY <1>1, <1>3 DEF SavedColumn, Row

\* r has committed a statement that leaves the rows other than i alone, keeps
\* the owner of row i, and gives row i a slug that nobody else has.
Wrote(r, i) ==
    /\ pc[r] \in {"insert", "save"}
    /\ pc' = [pc EXCEPT ![r] = "commit"]
    /\ overtook' = [q \in Request |->
                      IF pc[q] \in InFlight /\ q # r THEN overtook[q] \cup {r} ELSE overtook[q]]
    /\ UNCHANGED <<op, who, id, entity, loaded, base, counter>>
    /\ events' \in Seq(Row)
    /\ i \in 1..Len(events') /\ Len(events) <= Len(events') /\ Len(events') <= Len(events) + 1
    /\ i # id[r] => i = Len(events) + 1
    /\ \A j \in 1..Len(events') : j # i => j \in 1..Len(events) /\ events'[j] = events[j]
    /\ i \in 1..Len(events) => i = id[r] /\ events'[i].owner = events[i].owner
    /\ \A j \in 1..Len(events) : j # i => events[j].slug # events'[i].slug
    /\ \/ events'[i].slug = entity[r].slug
       \/ i \in 1..Len(events) /\ events'[i].slug = events[i].slug
    /\ \/ events'[i].state = entity[r].state
       \/ i \in 1..Len(events) /\ events'[i].state = events[i].state

\* A write keeps what every step keeps, and the types.
LEMMA WroteKept ==
    ASSUME Inv, NEW r \in Request, NEW i \in Nat, Wrote(r, i)
    PROVE  Kept /\ TypeOK'
<1>1. TypeOK'
  BY DEF Inv, TypeOK, Wrote, Answer
<1>2. \A q \in Request : pc[q] \in Written => pc'[q] \in Written
  BY DEF Inv, TypeOK, Wrote
<1>3. \A q \in Request : overtook[q] \subseteq overtook'[q]
  BY DEF Wrote
<1>4. \A j \in 1..Len(events) : j \in 1..Len(events') /\ events'[j].owner = events[j].owner
  <2> SUFFICES ASSUME NEW j \in 1..Len(events)
               PROVE  j \in 1..Len(events') /\ events'[j].owner = events[j].owner
    OBVIOUS
  <2>1. Len(events) \in Nat /\ Len(events') \in Nat
    BY DEF Inv, TypeOK, Wrote
  <2>2. j \in 1..Len(events')
    BY <2>1 DEF Wrote
  <2>3. events'[j].owner = events[j].owner
    BY <2>2 DEF Wrote
  <2>4. QED
    BY <2>2, <2>3
<1>5. QED
  BY <1>1, <1>2, <1>3, <1>4 DEF Kept, Wrote

\* A write by r leaves another request as it should be: if the row it holds was
\* written, r is in its history.
LEMMA OthersAfterWrite ==
    ASSUME Inv, NEW r \in Request, NEW i \in Nat, Wrote(r, i), NEW q \in Request \ {r}
    PROVE  RequestOK(q)'
<1>1. Kept /\ RequestOK(q) /\ Untouched(q)
  BY WroteKept DEF Inv, TypeOK, Wrote, Untouched
<1>2. pc[q] \in InFlight => r \in overtook'[q] /\ entity'[r] = entity[r] /\ id'[r] = id[r]
  BY DEF Wrote
<1>3. HandlerOK(q)'
  <2>1. \A s \in overtook'[q] : pc'[s] \in Written
    <3>1. overtook'[q] \subseteq overtook[q] \cup {r} /\ pc'[r] \in Written
      BY DEF Inv, TypeOK, Wrote
    <3>2. QED
      BY <1>1, <3>1, WitnessKept
  <2>2. id[q] \in 1..Len(events) =>
           id[q] \in 1..Len(events') /\ events'[id[q]].owner = events[id[q]].owner
    BY <1>1 DEF Inv, TypeOK, Kept, Wrote
  <2>3. pc[q] \in {"select", "save"} => id[q] \in 1..Len(events)
    BY <1>1 DEF RequestOK, HandlerOK, InFlight
  <2>4. QED
    BY <1>1, <2>1, <2>2, <2>3 DEF RequestOK, HandlerOK, Untouched, Permitted, Ordered
<1>4. SlugOK(q)'
  <2>1. CASE pc[q] = "conflict"
    BY <1>1, <2>1, WitnessKept DEF RequestOK, SlugOK, Untouched
  <2>2. CASE pc[q] \in {"insert", "select", "save"} /\ Taken(q, entity[q].slug)'
    <3>1. PICK j \in 1..Len(events') : j # id[q] /\ events'[j].slug = entity[q].slug
      BY <1>1, <2>2 DEF Taken, Untouched
    <3>2. CASE j \in 1..Len(events) /\ events'[j].slug = events[j].slug
      BY <1>1, <2>2, <3>1, <3>2, WitnessKept DEF RequestOK, SlugOK, Taken, Untouched
    <3>3. CASE events'[j].slug = entity[r].slug
      BY <1>1, <1>2, <2>2, <3>1, <3>3 DEF SlugOK, Untouched, InFlight
    <3>4. QED
      BY <3>1, <3>2, <3>3 DEF Wrote
  <2>3. QED
    BY <1>1, <2>1, <2>2 DEF SlugOK, Untouched
<1>5. ASSUME pc[q] \in InFlight, op[q] # "create"
      PROVE  /\ id[q] \in 1..Len(events)
             /\ WasPublished(id[q]) => WasPublished(id[q])'
             /\ WasRaced(id[q]) => WasRaced(id[q])'
  <2>1. id[q] \in 1..Len(events) /\ id'[q] = id[q]
    BY <1>1, <1>5 DEF RequestOK, HandlerOK, Untouched
  <2>2. QED
    BY <1>1, <2>1, HistoryKept DEF WasPublished, WasRaced
<1>6. StateOK(q)'
  <2> SUFFICES ASSUME op[q] = "update", pc[q] \in InFlight
               PROVE  /\ entity[q].state = "published" => WasPublished(id[q])'
                      /\ entity[q].state = "draft" /\ events'[id[q]].state = "published" =>
                            \E s \in overtook'[q] : id'[s] = id[q] /\ entity'[s].state = "published"
    BY <1>1 DEF StateOK, Untouched
  <2>1. entity[q].state = "published" => WasPublished(id[q])'
    BY <1>1, <1>5 DEF RequestOK, StateOK
  <2>2. ASSUME entity[q].state = "draft", events'[id[q]].state = "published"
        PROVE  \E s \in overtook'[q] : id'[s] = id[q] /\ entity'[s].state = "published"
    <3>1. CASE events[id[q]].state = "published"
      BY <1>1, <2>2, <3>1, WitnessKept DEF RequestOK, StateOK
    <3>2. CASE events[id[q]].state # "published"
      <4>1. id[q] \in 1..Len(events') /\ events'[id[q]] # events[id[q]]
        BY <1>5, <2>2, <3>2 DEF Inv, TypeOK, Wrote
      <4>2. i = id[q] /\ id[r] = id[q] /\ entity[r].state = "published"
        BY <1>5, <2>2, <3>2, <4>1 DEF Wrote
      <4>3. QED
        BY <1>2, <4>2
    <3>3. QED
      BY <3>1, <3>2
  <2>3. QED
    BY <2>1, <2>2
<1>7. DatesOK(q)'
  <2>1. ASSUME pc[q] \in InFlight, ~ Ordered(entity[q]) PROVE WasRaced(id[q])'
    BY <1>1, <1>5, <2>1 DEF RequestOK, HandlerOK, DatesOK
  <2>2. ASSUME pc[q] = "save", loaded[q] # events'[id[q]]
        PROVE  \E s \in overtook'[q] : id'[s] = id[q]
    <3>1. pc[q] \in InFlight /\ id[q] \in 1..Len(events)
      BY <1>1, <2>2 DEF RequestOK, HandlerOK, InFlight
    <3>2. CASE events'[id[q]] = events[id[q]]
      BY <1>1, <2>2, <3>2, WitnessKept DEF RequestOK, DatesOK
    <3>3. CASE events'[id[q]] # events[id[q]]
      <4>1. i = id[q] /\ id[r] = id[q]
        BY <3>1, <3>3 DEF Inv, TypeOK, Wrote
      <4>2. QED
        BY <1>2, <3>1, <4>1
    <3>4. QED
      BY <3>2, <3>3
  <2>3. QED
    BY <1>1, <2>1, <2>2 DEF DatesOK, Untouched, Ordered, WasRaced
<1>8. QED
  BY <1>3, <1>4, <1>6, <1>7 DEF RequestOK

\* A write keeps the invariant if the row it leaves is published only when it
\* was before or a publish was, and unordered only when it was raced.
LEMMA WriteStep ==
    ASSUME Inv, NEW r \in Request, NEW i \in Nat, Wrote(r, i),
           events'[i].state = "published" => WasPublished(i)',
           ~ Ordered(events'[i]) => WasRaced(i)'
    PROVE  Inv'
<1>1. Kept /\ TypeOK'
  BY WroteKept
<1>2. RequestOK(r)'
  <2>1. pc'[r] \in Written /\ overtook'[r] = overtook[r]
    BY DEF Inv, TypeOK, Wrote
  <2>2. \A s \in overtook'[r] : pc'[s] \in Written
    BY <1>1, <2>1, WitnessKept
  <2>3. QED
    BY <2>1, <2>2 DEF RequestOK, HandlerOK, SlugOK, StateOK, DatesOK, InFlight
<1>3. \A q \in Request : RequestOK(q)'
  BY <1>2, OthersAfterWrite
<1>4. UniqueSlugs'
  BY DEF Inv, UniqueSlugs, Wrote
<1>5. PublishedByPublish'
  BY <1>1, HistoryKept DEF Inv, PublishedByPublish, Wrote
<1>6. DatesOrderedUnlessRaced'
  <2> SUFFICES ASSUME NEW j \in 1..Len(events'), ~ Ordered(events'[j]), j # i
               PROVE  WasRaced(j)'
    BY DEF DatesOrderedUnlessRaced, Ordered
  <2>1. j \in 1..Len(events) /\ events'[j] = events[j]
    BY DEF Wrote
  <2>2. QED
    BY <1>1, <2>1, HistoryKept DEF Inv, DatesOrderedUnlessRaced
<1>7. QED
  BY <1>1, <1>3, <1>4, <1>5, <1>6 DEF Inv

\* What an INSERT that goes through does.
LEMMA InsertWrites ==
    ASSUME Inv, NEW r \in Request, Insert(r),
           ~ Taken(r, entity[r].slug), Commit(r, Append(events, entity[r]))
    PROVE  /\ Len(events) + 1 \in Nat /\ Wrote(r, Len(events) + 1)
           /\ events'[Len(events) + 1] = entity[r]
<1>1. RequestOK(r) /\ pc[r] = "insert" /\ id[r] = 0
  BY DEF Inv, Insert, RequestOK, HandlerOK, InFlight
<1> DEFINE i == Len(events) + 1
<1>2. /\ i \in Nat /\ events' \in Seq(Row) /\ Len(events') = i /\ events'[i] = entity[r]
      /\ \A j \in 1..Len(events) : events'[j] = events[j]
  BY DEF Inv, TypeOK, Commit
<1>3. \A j \in 1..Len(events) : events[j].slug # entity[r].slug
  BY <1>1 DEF Taken
<1>4. Wrote(r, i)
  BY <1>1, <1>2, <1>3 DEF Inv, TypeOK, Insert, Commit, Goto, Wrote
<1>5. QED
  BY <1>2, <1>4

\* The INSERT of a create.
LEMMA InsertStep == ASSUME Inv, NEW r \in Request, Insert(r) PROVE Inv'
<1>1. RequestOK(r) /\ pc[r] = "insert" /\ op[r] = "create" /\ id[r] = 0
      /\ entity[r].state = "draft" /\ Ordered(entity[r])
  BY DEF Inv, Insert, RequestOK, HandlerOK, InFlight
<1>2. CASE Taken(r, entity[r].slug) /\ Goto(r, "conflict") /\ UNCHANGED <<events, overtook>>
  <2>1. \E s \in overtook[r] : entity[s].slug = entity[r].slug
    BY <1>1, <1>2 DEF RequestOK, SlugOK
  <2>2. QED
    BY <1>1, <1>2, <2>1, GiveUpStep DEF Insert, InFlight
<1>3. CASE Goto(r, "failed") /\ UNCHANGED <<events, overtook>>
  BY <1>1, <1>3, GiveUpStep DEF Insert, InFlight
<1>4. CASE ~ Taken(r, entity[r].slug) /\ Commit(r, Append(events, entity[r]))
  <2>1. /\ Len(events) + 1 \in Nat /\ Wrote(r, Len(events) + 1)
        /\ events'[Len(events) + 1] = entity[r]
    BY <1>4, InsertWrites
  <2>2. QED
    BY <1>1, <2>1, WriteStep
<1>5. QED
  BY <1>2, <1>3, <1>4 DEF Insert

\* What an UPDATE that goes through does.
LEMMA SaveWrites ==
    ASSUME Inv, NEW r \in Request, pc[r] = "save", Save(r),
           ~ Taken(r, Saved(r).slug), Commit(r, [events EXCEPT ![id[r]] = Saved(r)])
    PROVE  /\ Wrote(r, id[r]) /\ events'[id[r]] = Saved(r)
           /\ id[r] \in 1..Len(events)
<1>1. id[r] \in 1..Len(events) /\ entity[r].owner = events[id[r]].owner
      /\ loaded[r].owner = events[id[r]].owner
  BY DEF Inv, RequestOK, HandlerOK, InFlight
<1>2. /\ Saved(r) \in Row /\ Saved(r).owner = events[id[r]].owner
      /\ Saved(r).slug \in {entity[r].slug, events[id[r]].slug}
      /\ Saved(r).state \in {entity[r].state, events[id[r]].state}
  BY <1>1, SavedFields DEF Inv, SavedColumn
<1>3. /\ events' \in Seq(Row) /\ Len(events') = Len(events) /\ events'[id[r]] = Saved(r)
      /\ \A j \in 1..Len(events) : j # id[r] => events'[j] = events[j]
  BY <1>1, <1>2 DEF Inv, TypeOK, Commit
<1>4. \A j \in 1..Len(events) : j # id[r] => events[j].slug # Saved(r).slug
  BY DEF Taken
<1>5. Wrote(r, id[r])
  BY <1>1, <1>2, <1>3, <1>4 DEF Inv, TypeOK, Save, Commit, Goto, Wrote
<1>6. QED
  BY <1>1, <1>3, <1>5

\* The UPDATE of an update or a publish.
LEMMA SaveStep == ASSUME Inv, NEW r \in Request, Save(r) PROVE Inv'
<1> DEFINE row == events[id[r]]
<1>1. /\ RequestOK(r) /\ pc[r] = "save" /\ op[r] \in {"update", "publish"}
      /\ id[r] \in 1..Len(events) /\ Permitted(who[r], row)
  BY DEF Inv, Save, RequestOK, HandlerOK, InFlight
<1>2. /\ Saved(r) \in Row /\ Saved(r).owner = row.owner
      /\ Saved(r).slug = SavedColumn(row.slug, loaded[r].slug, entity[r].slug)
      /\ Saved(r).state \in {entity[r].state, row.state}
  BY <1>1, SavedFields DEF Inv, SavedColumn, RequestOK, HandlerOK, InFlight
<1>3. CASE Taken(r, Saved(r).slug) /\ Goto(r, "conflict") /\ UNCHANGED <<events, overtook>>
  <2>1. ~ Taken(r, row.slug)
    BY <1>1 DEF Inv, UniqueSlugs, Taken
  <2>2. Taken(r, entity[r].slug)
    BY <1>2, <1>3, <2>1 DEF SavedColumn
  <2>3. \E s \in overtook[r] : entity[s].slug = entity[r].slug
    BY <1>1, <2>2 DEF RequestOK, SlugOK
  <2>4. QED
    BY <1>1, <1>3, <2>3, GiveUpStep DEF Save, InFlight
<1>4. CASE ~ Taken(r, Saved(r).slug) /\ Commit(r, [events EXCEPT ![id[r]] = Saved(r)])
  <2>1. Wrote(r, id[r]) /\ events'[id[r]] = Saved(r)
    BY <1>1, <1>4, SaveWrites
  <2>2. Kept
    BY <1>1, <2>1, WroteKept
  <2>3. /\ pc'[r] \in Written /\ id'[r] = id[r] /\ op'[r] = op[r] /\ who'[r] = who[r]
        /\ overtook'[r] = overtook[r] /\ id' = id
    BY <2>1 DEF Inv, TypeOK, Wrote
  <2>4. ASSUME Saved(r).state = "published" PROVE WasPublished(id[r])'
    <3>1. CASE op[r] = "publish"
      BY <1>1, <1>2, <2>1, <2>3, <3>1 DEF WasPublished, Permitted
    <3>2. CASE op[r] = "update"
      <4>1. WasPublished(id[r])
        BY <1>1, <1>2, <2>4, <3>2 DEF Inv, RequestOK, StateOK, PublishedByPublish, InFlight
      <4>2. QED
        BY <1>1, <2>2, <2>3, <4>1, HistoryKept DEF WasPublished
    <3>3. QED
      BY <1>1, <3>1, <3>2
  <2>5. ASSUME ~ Ordered(Saved(r)) PROVE WasRaced(id[r])'
    <3>1. CASE loaded[r] = row
      <4>1. Saved(r).startsAt = entity[r].startsAt /\ Saved(r).endsAt = entity[r].endsAt
        BY <1>1, <3>1, SavedFields DEF Inv, SavedColumn
      <4>2. WasRaced(id[r])
        BY <1>1, <2>5, <4>1 DEF RequestOK, DatesOK, Ordered, InFlight
      <4>3. QED
        BY <1>1, <2>2, <2>3, <4>2, HistoryKept DEF WasRaced
    <3>2. CASE loaded[r] # row
      <4>1. \E s \in overtook[r] : id[s] = id[r]
        BY <1>1, <3>2 DEF RequestOK, DatesOK
      <4>2. QED
        BY <2>3, <4>1 DEF WasRaced
    <3>3. QED
      BY <3>1, <3>2
  <2>6. PICK i \in Nat : i = id[r]
    BY DEF Inv, TypeOK
  <2>7. WasPublished(id[r])' => WasPublished(i)'
    BY <2>3, <2>6 DEF WasPublished
  <2>8. WasRaced(id[r])' => WasRaced(i)'
    BY <2>3, <2>6 DEF WasRaced
  <2>9. QED
    BY <2>1, <2>4, <2>5, <2>6, <2>7, <2>8, WriteStep
<1>5. QED
  BY <1>1, <1>3, <1>4 DEF Save

----------------------------------------------------------------------------
(* The theorems *)

LEMMA NextInv == ASSUME Inv, [Next]_vars PROVE Inv'
<1>1. CASE UNCHANGED vars
  <2>1. Kept /\ \A q \in Request : Untouched(q)
    BY <1>1 DEF vars, Kept, Untouched, Inv, TypeOK
  <2>2. \A q \in Request : RequestOK(q)'
    BY <1>1, <2>1, OthersKept DEF vars
  <2>3. TypeOK'
    BY <1>1 DEF Inv, TypeOK, vars
  <2>4. QED
    BY <1>1, <2>1, <2>2, <2>3, TableKept DEF Inv, vars
<1>2. ASSUME NEW r \in Request, NEW u \in Requester, NEW d \in Dto, Create(r, u, d)
      PROVE  Inv'
  <2>1. PICK e \in Row, label \in {"probe", "badRequest"} : Begun(r, "create", 0, u, e, label)
    BY <1>2, CreateBegins DEF Inv
  <2>2. QED
    BY <2>1, BeginStep
<1>3. ASSUME NEW r \in Request, NEW u \in Requester, NEW i \in 1..(Len(events) + 1),
             NEW d \in Dto, Update(r, u, i, d)
      PROVE  Inv'
  <2>1. PICK e \in Row, label \in {"probe", "select", "badRequest", "forbidden", "notFound"} :
           Begun(r, "update", i, u, e, label)
    BY <1>3, UpdateBegins DEF Inv
  <2>2. QED
    BY <2>1, BeginStep
<1>4. ASSUME NEW r \in Request, NEW u \in Requester, NEW i \in 1..(Len(events) + 1),
             Publish(r, u, i)
      PROVE  Inv'
  <2>1. PICK e \in Row, label \in {"select", "badRequest", "forbidden", "notFound"} :
           Begun(r, "publish", i, u, e, label)
    BY <1>4, PublishBegins DEF Inv
  <2>2. QED
    BY <2>1, BeginStep
<1>5. ASSUME NEW r \in Request, Step(r) PROVE Inv'
  BY <1>5, ProbeStep, InsertStep, SelectStep, SaveStep, AnswerStep DEF Step, Reply
<1>6. ASSUME NEW r \in Request, Abort(r) PROVE Inv'
  BY <1>6, GiveUpStep, AnswerStep DEF Abort
<1>7. QED
  BY <1>1, <1>2, <1>3, <1>4, <1>5, <1>6 DEF Next

\* The handlers' invariant: what create, update and publish hold between their
\* awaits fits the table and its history (events.service.ts 26-77, 171-282).
THEOREM EventsInvariant == Spec => []Inv
BY InitInv, NextInv, PTL DEF Spec

\* Every reachable state is well typed (events.service.ts, event.entity.ts).
THEOREM EventsTypeCorrect == Spec => []TypeOK
<1>1. Inv => TypeOK
  BY DEF Inv
<1>2. QED
  BY <1>1, EventsInvariant, PTL

\* A unique violation on the slug comes of a race only (ensureUniqueSlug,
\* events.service.ts 264-282).
THEOREM ConflictsAreRaces == Spec => []ConflictOnlyInRace
<1>1. Inv => ConflictOnlyInRace
  BY DEF Inv, RequestOK, SlugOK, ConflictOnlyInRace
<1>2. QED
  BY <1>1, EventsInvariant, PTL

\* Events are published by permitted publishes only, through their committed
\* UPDATE, whatever becomes of the answer (events.service.ts 229-262).
THEOREM EventsArePublishedByPublish == Spec => []PublishedByPublish
<1>1. Inv => PublishedByPublish
  BY DEF Inv
<1>2. QED
  BY <1>1, EventsInvariant, PTL

\* Unordered dates come of a race only (events.service.ts 202-204).
THEOREM DatesBreakOnlyInRaces == Spec => []DatesOrderedUnlessRaced
<1>1. Inv => DatesOrderedUnlessRaced
  BY DEF Inv
<1>2. QED
  BY <1>1, EventsInvariant, PTL

\* A step leaves every row alone, or it is the UPDATE of one row.
LEMMA TableStep ==
    ASSUME Inv, [Next]_vars
    PROVE  \/ /\ Len(events') >= Len(events)
              /\ \A i \in 1..Len(events) : events'[i] = events[i]
           \/ \E r \in Request : /\ pc[r] = "save" /\ Save(r) /\ id[r] \in 1..Len(events)
                                 /\ Wrote(r, id[r]) /\ events'[id[r]] = Saved(r)
<1>0. Len(events) \in Nat
  BY DEF Inv, TypeOK
<1>1. CASE UNCHANGED events
  BY <1>0, <1>1
<1>2. ASSUME NEW r \in Request, events' = Append(events, entity[r]) PROVE
        Len(events') >= Len(events) /\ \A i \in 1..Len(events) : events'[i] = events[i]
  BY <1>2 DEF Inv, TypeOK
<1>3. ASSUME NEW r \in Request, Save(r), ~ UNCHANGED events
      PROVE  /\ pc[r] = "save" /\ id[r] \in 1..Len(events)
             /\ Wrote(r, id[r]) /\ events'[id[r]] = Saved(r)
  <2>1. /\ pc[r] = "save" /\ ~ Taken(r, Saved(r).slug)
        /\ Commit(r, [events EXCEPT ![id[r]] = Saved(r)])
    BY <1>3 DEF Save
  <2>2. QED
    BY <1>3, <2>1, SaveWrites
<1>4. \/ UNCHANGED events
      \/ \E r \in Request : events' = Append(events, entity[r])
      \/ \E r \in Request : Save(r)
  BY DEF Next, Step, vars, Begin, Create, Update, Publish, Probe, Insert, Commit, Select, Reply, Abort
<1>5. QED
  BY <1>1, <1>2, <1>3, <1>4

\* Rows change on behalf of permitted requesters only, and keep their owners
\* (events.service.ts 189-192, 244-247).
THEOREM WritesArePermitted == Spec => OnlyPermittedWrites
<1>1. ASSUME Inv, [Next]_vars, NEW i \in 1..Len(events)
      PROVE  /\ i \in 1..Len(events') /\ events'[i].owner = events[i].owner
             /\ events'[i] # events[i] =>
                   \E r \in Request : pc[r] = "save" /\ id[r] = i /\ Permitted(who[r], events[i])
  <2>1. CASE Len(events') >= Len(events) /\ \A j \in 1..Len(events) : events'[j] = events[j]
    <3>1. Len(events) \in Nat /\ Inv'
      BY <1>1, NextInv DEF Inv, TypeOK
    <3>2. Len(events') \in Nat
      BY <3>1 DEF Inv, TypeOK
    <3>3. QED
      BY <2>1, <3>1, <3>2
  <2>2. ASSUME NEW r \in Request, pc[r] = "save", Wrote(r, id[r]), id[r] \in 1..Len(events)
        PROVE  /\ i \in 1..Len(events') /\ events'[i].owner = events[i].owner
               /\ events'[i] # events[i] => id[r] = i /\ Permitted(who[r], events[i])
    <3>1. Kept /\ Len(events) \in Nat /\ Len(events') \in Nat /\ Len(events') >= Len(events)
      <4>1. id[r] \in Nat /\ Len(events) \in Nat
        BY <1>1 DEF Inv, TypeOK
      <4>2. Kept
        BY <1>1, <2>2, <4>1, WroteKept
      <4>3. Len(events') \in Nat
        BY <2>2 DEF Wrote
      <4>4. QED
        BY <4>1, <4>2, <4>3 DEF Kept
    <3>2. i \in 1..Len(events') /\ events'[i].owner = events[i].owner
      BY <3>1 DEF Kept
    <3>3. Permitted(who[r], events[id[r]])
      BY <1>1, <2>2 DEF Inv, RequestOK, HandlerOK, InFlight
    <3>4. events'[i] # events[i] => id[r] = i
      BY <2>2, <3>2 DEF Wrote
    <3>5. QED
      BY <3>2, <3>3, <3>4
  <2>3. QED
    BY <1>1, <2>1, <2>2, TableStep
<1>2. Inv /\ [Next]_vars =>
         [\A i \in 1..Len(events) :
             /\ i \in 1..Len(events') /\ events'[i].owner = events[i].owner
             /\ events'[i] # events[i] =>
                   \E r \in Request : pc[r] = "save" /\ id[r] = i /\ Permitted(who[r], events[i])]_vars
  BY <1>1
<1>3. QED
  BY <1>2, EventsInvariant, PTL DEF Spec, OnlyPermittedWrites

\* A published event becomes a draft only through an update that a request
\* leaving it published overtook (events.service.ts 212-226, 249-261).
THEOREM UnpublishingIsARace == Spec => UnpublishedOnlyInRace
<1>1. ASSUME Inv, [Next]_vars, NEW i \in 1..Len(events),
             events[i].state = "published", events'[i].state # "published"
      PROVE  \E r \in Request : \E s \in overtook[r] :
                /\ op[r] = "update" /\ id[r] = i /\ pc[r] = "save"
                /\ id[s] = i /\ entity[s].state = "published"
  <2>1. PICK r \in Request : /\ pc[r] = "save" /\ id[r] \in 1..Len(events)
                             /\ Wrote(r, id[r]) /\ events'[id[r]] = Saved(r)
    BY <1>1, TableStep
  <2>2. i = id[r]
    <3>1. Kept /\ Len(events) \in Nat /\ Len(events') \in Nat /\ Len(events') >= Len(events)
      <4>1. id[r] \in Nat /\ Len(events) \in Nat
        BY <1>1 DEF Inv, TypeOK
      <4>2. Kept
        BY <1>1, <2>1, <4>1, WroteKept
      <4>3. Len(events') \in Nat
        BY <2>1 DEF Wrote
      <4>4. QED
        BY <4>1, <4>2, <4>3 DEF Kept
    <3>2. i \in 1..Len(events')
      BY <3>1
    <3>3. QED
      BY <1>1, <2>1, <3>2 DEF Wrote
  <2>3. RequestOK(r) /\ entity[r] \in Row
    BY <1>1 DEF Inv, TypeOK
  <2>4. entity[r].state # "published"
    BY <1>1, <2>1, <2>2, SavedFields DEF Inv, SavedColumn
  <2>5. entity[r].state = "draft" /\ op[r] = "update"
    BY <2>1, <2>3, <2>4 DEF Row, State, RequestOK, HandlerOK, InFlight
  <2>6. PICK s \in overtook[r] : id[s] = id[r] /\ entity[s].state = "published"
    BY <1>1, <2>1, <2>2, <2>3, <2>5 DEF RequestOK, StateOK, InFlight
  <2>7. QED
    BY <2>1, <2>2, <2>5, <2>6
<1>2. Inv /\ [Next]_vars =>
         [\A i \in 1..Len(events) :
             events[i].state = "published" /\ events'[i].state # "published" =>
                \E r \in Request : \E s \in overtook[r] :
                   /\ op[r] = "update" /\ id[r] = i /\ pc[r] = "save"
                   /\ id[s] = i /\ entity[s].state = "published"]_vars
  BY <1>1
<1>3. QED
  BY <1>2, EventsInvariant, PTL DEF Spec, UnpublishedOnlyInRace

----------------------------------------------------------------------------
(* The store implements the table *)

\* A step changes nothing, inserts a create's row, or saves a row.
LEMMA TableWrites ==
    ASSUME [Next]_vars
    PROVE  \/ UNCHANGED events
           \/ \E r \in Request : Insert(r) /\ Commit(r, Append(events, entity[r]))
                                 /\ ~ Taken(r, entity[r].slug)
           \/ \E r \in Request : Save(r) /\ Commit(r, [events EXCEPT ![id[r]] = Saved(r)])
                                 /\ ~ Taken(r, Saved(r).slug)
BY DEF Next, Step, vars, Begin, Create, Update, Publish, Probe, Insert, Select, Save, Reply, Abort

LEMMA TableChange == ASSUME Inv, [Next]_vars PROVE [Abstract!Change]_events
<1>1. ASSUME NEW r \in Request, Insert(r), Commit(r, Append(events, entity[r])),
             ~ Taken(r, entity[r].slug)
      PROVE  Abstract!Change
  <2>1. events \in Seq(Row) /\ entity[r] \in Row /\ Len(events) \in Nat
    BY DEF Inv, TypeOK
  <2>2. entity[r].state = "draft" /\ id[r] = 0
    BY <1>1 DEF Inv, RequestOK, HandlerOK, Insert, InFlight
  <2>3. /\ events' = Append(events, entity[r])
        /\ Len(events') > Len(events) /\ events'[Len(events) + 1] = entity[r]
    BY <1>1, <2>1 DEF Commit
  <2>4. Abstract!Free(entity[r].slug, 0)
    BY <1>1, <2>2 DEF Abstract!Free, Taken
  <2>5. Abstract!Add
    BY <2>2, <2>3, <2>4 DEF Abstract!Add
  <2>6. QED
    BY <2>5 DEF Abstract!Change
<1>2. ASSUME NEW r \in Request, Save(r), Commit(r, [events EXCEPT ![id[r]] = Saved(r)]),
             ~ Taken(r, Saved(r).slug), ~ UNCHANGED events
      PROVE  Abstract!Change
  <2>1. /\ id[r] \in 1..Len(events) /\ events'[id[r]] = Saved(r)
        /\ events' = [events EXCEPT ![id[r]] = events'[id[r]]]
    <3>1. id[r] \in 1..Len(events) /\ events'[id[r]] = Saved(r)
      BY <1>2, SaveWrites DEF Save
    <3>2. QED
      BY <1>2, <3>1 DEF Commit
  <2>2. Saved(r).owner = events[id[r]].owner
    <3>1. entity[r].owner = events[id[r]].owner /\ loaded[r].owner = events[id[r]].owner
      BY <1>2 DEF Inv, RequestOK, HandlerOK, InFlight, Save
    <3>2. QED
      BY <2>1, <3>1, SavedFields DEF Inv, SavedColumn
  <2>3. Abstract!Free(Saved(r).slug, id[r])
    BY <1>2 DEF Abstract!Free, Taken
  <2>4. Abstract!Alter(id[r])
    BY <2>1, <2>2, <2>3 DEF Abstract!Alter
  <2>5. QED
    BY <2>1, <2>4 DEF Abstract!Change
<1>3. QED
  BY <1>1, <1>2, TableWrites

\* Whatever the interleaving, the table only changes as EventTable allows: one
\* row at a time, none lost or handed on, no slug twice
\* (events.service.ts 26-77, 171-262).
THEOREM StoreImplementsTable == Spec => ImplementsTable
<1>1. Init => Abstract!Empty
  BY DEF Init, Abstract!Empty
<1>2. Inv /\ [Next]_vars => [Abstract!Change]_events
  BY TableChange
<1>3. QED
  BY <1>1, <1>2, EventsInvariant, PTL DEF Spec, ImplementsTable, Abstract!Table
----------------------------------------------------------------------------
(* The slug search is bounded *)

\* What SearchBounded says of one request.
Bounded(r) == counter[r] <= 1 + Cardinality(OtherRows(r)) + Cardinality(Renamers(r))

FiniteHistory == TypeOK /\ \A r \in Request : IsFiniteSet(overtook[r])

Countable ==
    \A r \in Request :
       /\ IsFiniteSet(OtherRows(r)) /\ Cardinality(OtherRows(r)) \in Nat
       /\ IsFiniteSet(Renamers(r)) /\ Cardinality(Renamers(r)) \in Nat
       /\ IsFiniteSet(Freed(r)) /\ Cardinality(Freed(r)) \in Nat

\* The sets that are counted are finite.
LEMMA CountedSets == FiniteHistory => Countable
<1> SUFFICES ASSUME TypeOK, NEW r \in Request, IsFiniteSet(overtook[r])
             PROVE  /\ IsFiniteSet(OtherRows(r)) /\ Cardinality(OtherRows(r)) \in Nat
                    /\ IsFiniteSet(Renamers(r)) /\ Cardinality(Renamers(r)) \in Nat
                    /\ IsFiniteSet(Freed(r)) /\ Cardinality(Freed(r)) \in Nat
  BY DEF FiniteHistory, Countable
<1>1. Len(events) \in Int /\ counter[r] - 1 \in Int /\ 1 \in Int
  BY DEF TypeOK
<1>2. IsFiniteSet(1..Len(events)) /\ IsFiniteSet(1..(counter[r] - 1))
  BY <1>1, FS_Interval
<1>3. /\ OtherRows(r) \in SUBSET (1..Len(events))
      /\ Renamers(r) \in SUBSET overtook[r]
      /\ Freed(r) \in SUBSET (1..(counter[r] - 1))
  BY DEF OtherRows, Renamers, Freed
<1>4. IsFiniteSet(OtherRows(r)) /\ IsFiniteSet(Renamers(r)) /\ IsFiniteSet(Freed(r))
  BY <1>2, <1>3, FS_Subset
<1>5. QED
  BY <1>4, FS_CardinalityType

\* No two turns of a search try the same slug.
LEMMA CandidatesDiffer ==
    ASSUME TypeOK, NEW r \in Request, NEW j \in Nat, NEW k \in Nat,
           Candidate(r, j) = Candidate(r, k)
    PROVE  j = k
<1>1. base[r] \in Seq(Word \cup Nat)
  BY DEF TypeOK, Slug
<1>2. ASSUME NEW m \in Int
      PROVE  /\ Len(Append(base[r], m)) = Len(base[r]) + 1
             /\ Append(base[r], m)[Len(base[r]) + 1] = m
  BY <1>1
<1>3. j - 1 \in Int /\ k - 1 \in Int /\ Len(base[r]) \in Nat
  BY <1>1
<1>4. /\ Len(Append(base[r], j - 1)) # Len(base[r]) /\ Len(Append(base[r], k - 1)) # Len(base[r])
      /\ Append(base[r], j - 1) = Append(base[r], k - 1) => j - 1 = k - 1
  BY <1>2, <1>3
<1>5. Append(base[r], j - 1) # base[r] /\ Append(base[r], k - 1) # base[r]
  BY <1>4
<1>6. CASE j = 1 \/ k = 1
  BY <1>5, <1>6 DEF Candidate
<1>7. CASE j # 1 /\ k # 1
  <2>1. j - 1 = k - 1
    BY <1>4, <1>7 DEF Candidate
  <2>2. QED
    BY <2>1
<1>8. QED
  BY <1>6, <1>7

SearchesOK == TypeOK /\ \A r \in Request : SearchOK(r)
SearchesBounded == \A r \in Request : pc[r] = "probe" => Bounded(r)

\* The counting: the turns a search has made are the candidates freed since, and
\* those still taken, each by a row of its own.
LEMMA TurnsAreCounted == SearchesOK => SearchesBounded
<1> SUFFICES ASSUME TypeOK, \A q \in Request : SearchOK(q), NEW r \in Request, pc[r] = "probe"
             PROVE  Bounded(r)
  BY DEF SearchesOK, SearchesBounded
<1> DEFINE passed == 1..(counter[r] - 1)
           held == {k \in passed : Taken(r, Candidate(r, k))}
           by == [k \in held |-> CHOOSE j \in OtherRows(r) : events[j].slug = Candidate(r, k)]
<1>1. /\ counter[r] \in Nat /\ counter[r] >= 1
      /\ Cardinality(Freed(r)) <= Cardinality(Renamers(r))
  BY DEF TypeOK, SearchOK
<1>2. /\ IsFiniteSet(OtherRows(r)) /\ Cardinality(OtherRows(r)) \in Nat
      /\ Cardinality(Renamers(r)) \in Nat
      /\ IsFiniteSet(Freed(r)) /\ Cardinality(Freed(r)) \in Nat
  <2>1. \A q \in Request : IsFiniteSet(overtook[q])
    BY DEF SearchOK
  <2>2. QED
    BY <2>1, CountedSets DEF FiniteHistory, Countable
<1>3. passed = held \cup Freed(r) /\ held \cap Freed(r) = {}
  BY DEF Freed
<1>4. \A k \in held : \E j \in OtherRows(r) : events[j].slug = Candidate(r, k)
  BY DEF OtherRows, Taken
<1>5. \A k \in held : by[k] \in OtherRows(r) /\ events[by[k]].slug = Candidate(r, k)
  BY <1>4
<1>6. \A j, k \in held : by[j] = by[k] => j = k
  <2> SUFFICES ASSUME NEW j \in held, NEW k \in held, by[j] = by[k] PROVE j = k
    OBVIOUS
  <2>1. j \in Nat /\ k \in Nat
    BY <1>1
  <2>2. Candidate(r, j) = Candidate(r, k)
    <3> HIDE DEF held, by
    <3>1. QED
      BY <1>5
  <2>3. QED
    BY <2>1, <2>2, CandidatesDiffer
<1>7. by \in Injection(held, OtherRows(r))
  <2>1. by \in [held -> OtherRows(r)]
    BY <1>5
  <2> HIDE DEF by, held
  <2>2. IsInjective(by)
    BY <1>6, <2>1 DEF IsInjective
  <2>3. QED
    BY <2>1, <2>2 DEF Injection
<1>8. /\ IsFiniteSet(passed) /\ Cardinality(passed) = counter[r] - 1
  <2> DEFINE n == counter[r] - 1
  <2>1. 1 \in Int /\ n \in Int /\ ~ (1 > n + 1)
    BY <1>1
  <2> HIDE DEF n
  <2>2. IsFiniteSet(1..n) /\ Cardinality(1..n) = IF 1 > n THEN 0 ELSE n - 1 + 1
    BY <2>1, FS_Interval
  <2>3. IsFiniteSet(1..n) /\ Cardinality(1..n) = n
    BY <2>1, <2>2
  <2>4. QED
    BY <2>3 DEF n
<1> HIDE DEF passed, by, held
<1>9. IsFiniteSet(held) /\ Cardinality(held) <= Cardinality(OtherRows(r))
  BY <1>2, <1>7, FS_Injection
<1>10. Cardinality(passed) = Cardinality(held) + Cardinality(Freed(r)) - Cardinality({})
  BY <1>2, <1>3, <1>9, FS_Union
<1>11. Cardinality(held) \in Nat /\ Cardinality({}) = 0
  BY <1>9, FS_CardinalityType, FS_EmptySet
<1>12. QED
  BY <1>1, <1>2, <1>8, <1>9, <1>10, <1>11 DEF Bounded

\* q's search rests: its handler and counter stay as they are, or it is answered.
Resting(q) ==
    /\ op'[q] = op[q] /\ id'[q] = id[q] /\ base'[q] = base[q] /\ counter'[q] = counter[q]
    /\ pc'[q] = "idle" => pc[q] = "idle"
    /\ pc'[q] = "probe" => pc[q] = "probe" /\ entity'[q] = entity[q]

\* Rows stay, and so do the writers that overtook a request.
LEMMA CountsKept ==
    ASSUME Inv, Inv', SearchInv, Kept, NEW q \in Request, id'[q] = id[q],
           IsFiniteSet(overtook'[q])
    PROVE  /\ Cardinality(OtherRows(q)) <= Cardinality(OtherRows(q)')
           /\ Cardinality(Renamers(q)) <= Cardinality(Renamers(q)')
           /\ Cardinality(OtherRows(q)) \in Nat /\ Cardinality(OtherRows(q)') \in Nat
           /\ Cardinality(Renamers(q)) \in Nat /\ Cardinality(Renamers(q)') \in Nat
<1>1. Len(events) \in Nat /\ Len(events') \in Nat /\ Len(events) <= Len(events')
  BY DEF Inv, TypeOK, Kept
<1>2. OtherRows(q) \in SUBSET (OtherRows(q)')
  BY <1>1 DEF OtherRows
<1>3. Renamers(q) \in SUBSET (Renamers(q)')
  BY DEF Renamers, Kept, Inv, TypeOK, RequestOK, HandlerOK
<1>4. IsFiniteSet(OtherRows(q)')
  <2>1. IsFiniteSet(1..Len(events'))
    BY <1>1, FS_Interval
  <2>2. OtherRows(q)' \in SUBSET (1..Len(events'))
    BY DEF OtherRows
  <2>3. QED
    BY <2>1, <2>2, FS_Subset
<1>5. IsFiniteSet(Renamers(q)')
  <2>1. Renamers(q)' \in SUBSET (overtook'[q])
    BY DEF Renamers
  <2>2. QED
    BY <2>1, FS_Subset
<1>6. QED
  BY <1>2, <1>3, <1>4, <1>5, FS_Subset, FS_CardinalityType

\* While the table and the history stay, a resting search is as it was.
LEMMA SearchRests ==
    ASSUME Inv, Inv', SearchInv, Kept, UNCHANGED <<events, overtook>>,
           NEW q \in Request, Resting(q)
    PROVE  SearchOK(q)' /\ Bounded(q)'
<1>1. SearchOK(q) /\ Bounded(q) /\ counter[q] \in Nat /\ counter'[q] = counter[q]
  BY DEF SearchInv, SearchBounded, Bounded, Inv, TypeOK, Resting
<1>2. IsFiniteSet(overtook'[q])
  BY <1>1 DEF SearchOK
<1>3. /\ Cardinality(OtherRows(q)) <= Cardinality(OtherRows(q)')
      /\ Cardinality(Renamers(q)) <= Cardinality(Renamers(q)')
      /\ Cardinality(OtherRows(q)) \in Nat /\ Cardinality(OtherRows(q)') \in Nat
      /\ Cardinality(Renamers(q)) \in Nat /\ Cardinality(Renamers(q)') \in Nat
  BY <1>2, CountsKept DEF Resting
<1>4. Bounded(q)'
  BY <1>1, <1>3 DEF Bounded
<1>5. ASSUME pc'[q] = "probe"
      PROVE  /\ counter'[q] >= 1 /\ entity'[q].slug = Candidate(q, counter[q])'
             /\ Cardinality(Freed(q)') <= Cardinality(Renamers(q)')
  <2>1. /\ pc[q] = "probe" /\ counter[q] >= 1 /\ entity[q].slug = Candidate(q, counter[q])
        /\ Cardinality(Freed(q)) <= Cardinality(Renamers(q))
    BY <1>1, <1>5 DEF Resting, SearchOK
  <2>2. entity'[q].slug = Candidate(q, counter[q])'
    BY <1>1, <1>5, <2>1 DEF Resting, Candidate
  <2>3. Freed(q)' = Freed(q)
    BY DEF Freed, Taken, Candidate, Resting
  <2>4. Cardinality(Freed(q)) \in Nat
    <3>1. \A r \in Request : IsFiniteSet(overtook[r])
      BY DEF SearchInv, SearchOK
    <3>2. QED
      BY <3>1, CountedSets DEF Inv, FiniteHistory, Countable
  <2>5. QED
    BY <1>1, <1>3, <2>1, <2>2, <2>3, <2>4
<1>6. QED
  BY <1>1, <1>2, <1>4, <1>5 DEF SearchOK, Resting

\* A write frees at most one candidate of another search, and none if it inserts.
LEMMA WriteFrees ==
    ASSUME Inv, NEW r \in Request, NEW i \in Nat, Wrote(r, i),
           NEW q \in Request \ {r}, pc[q] = "probe"
    PROVE  \/ Freed(q)' \subseteq Freed(q)
           \/ op[r] # "create" /\ \E k \in Nat : Freed(q)' \subseteq Freed(q) \cup {k}
<1>1. /\ Len(events) \in Nat /\ Len(events') \in Nat /\ Len(events) <= Len(events')
      /\ counter'[q] = counter[q] /\ counter[q] \in Nat
      /\ id'[q] = id[q] /\ base'[q] = base[q]
  BY DEF Inv, TypeOK, Wrote
<1>2. \A k \in Nat : Candidate(q, k)' = Candidate(q, k)
  BY <1>1 DEF Candidate
<1>3. ASSUME NEW k \in Freed(q)', k \notin Freed(q)
      PROVE  k \in Nat /\ i \in 1..Len(events) /\ events[i].slug = Candidate(q, k)
  <2>1. k \in 1..(counter[q] - 1) /\ k \in Nat
    BY <1>1 DEF Freed
  <2>2. Taken(q, Candidate(q, k)) /\ ~ Taken(q, Candidate(q, k))'
    BY <1>1, <1>3, <2>1 DEF Freed
  <2>3. PICK j \in 1..Len(events) : j # id[q] /\ events[j].slug = Candidate(q, k)
    BY <2>2 DEF Taken
  <2>4. j \in 1..Len(events') /\ events'[j].slug # Candidate(q, k)
    BY <1>1, <1>2, <2>1, <2>2, <2>3 DEF Taken
  <2>5. j = i
    BY <2>3, <2>4 DEF Wrote
  <2>6. QED
    BY <2>1, <2>3, <2>5
<1>4. CASE op[r] = "create"
  <2>1. id[r] = 0
    BY <1>4 DEF Inv, RequestOK, HandlerOK, Wrote, InFlight
  <2>2. i \notin 1..Len(events)
    BY <1>1, <2>1 DEF Wrote
  <2>3. QED
    BY <1>3, <2>2
<1>5. CASE op[r] # "create"
  <2> SUFFICES ASSUME NEW k \in Freed(q)', k \notin Freed(q)
               PROVE  k \in Nat /\ Freed(q)' \subseteq Freed(q) \cup {k}
    BY <1>5
  <2>1. k \in Nat
    BY <1>3
  <2>2. ASSUME NEW j \in Freed(q)', j \notin Freed(q) PROVE j = k
    <3>1. j \in Nat /\ Candidate(q, j) = Candidate(q, k)
      BY <1>3, <2>2
    <3>2. QED
      BY <2>1, <3>1, CandidatesDiffer DEF Inv
  <2>3. QED
    BY <2>1, <2>2
<1>6. QED
  BY <1>4, <1>5

\* A write leaves a search within its bound: what it frees, it answers for.
LEMMA SearchOvertaken ==
    ASSUME Inv, Inv', SearchInv, NEW r \in Request, NEW i \in Nat, Wrote(r, i), NEW q \in Request
    PROVE  SearchOK(q)' /\ Bounded(q)'
<1>1. Resting(q) /\ Kept
  BY WroteKept DEF Inv, TypeOK, Wrote, Resting
<1>2. SearchOK(q) /\ Bounded(q) /\ counter[q] \in Nat /\ counter'[q] = counter[q]
  BY <1>1 DEF SearchInv, SearchBounded, Bounded, Inv, TypeOK, Resting
<1>3. IsFiniteSet(overtook'[q])
  <2>1. overtook'[q] = overtook[q] \/ overtook'[q] = overtook[q] \cup {r}
    BY DEF Inv, TypeOK, Wrote
  <2>2. IsFiniteSet(overtook[q])
    BY <1>2 DEF SearchOK
  <2>3. QED
    BY <2>1, <2>2, FS_AddElement
<1>4. /\ Cardinality(OtherRows(q)) <= Cardinality(OtherRows(q)')
      /\ Cardinality(Renamers(q)) <= Cardinality(Renamers(q)')
      /\ Cardinality(OtherRows(q)) \in Nat /\ Cardinality(OtherRows(q)') \in Nat
      /\ Cardinality(Renamers(q)) \in Nat /\ Cardinality(Renamers(q)') \in Nat
  BY <1>1, <1>3, CountsKept DEF Resting
<1>5. Bounded(q)'
  BY <1>2, <1>4 DEF Bounded
<1>6. ASSUME pc'[q] = "probe"
      PROVE  /\ counter'[q] >= 1 /\ entity'[q].slug = Candidate(q, counter[q])'
             /\ Cardinality(Freed(q)') <= Cardinality(Renamers(q)')
  <2>1. /\ pc[q] = "probe" /\ counter[q] >= 1 /\ entity[q].slug = Candidate(q, counter[q])
        /\ Cardinality(Freed(q)) <= Cardinality(Renamers(q))
    BY <1>1, <1>2, <1>6 DEF Resting, SearchOK
  <2>2. entity'[q].slug = Candidate(q, counter[q])'
    BY <1>1, <1>2, <1>6, <2>1 DEF Resting, Candidate
  <2>3. \A p \in Request : IsFiniteSet(overtook[p])
    BY DEF SearchInv, SearchOK
  <2>4. IsFiniteSet(Freed(q)) /\ Cardinality(Freed(q)) \in Nat /\ IsFiniteSet(Renamers(q))
    BY <2>3, CountedSets DEF Inv, FiniteHistory, Countable
  <2>5. q \in Request \ {r}
    BY <1>6 DEF Inv, TypeOK, Wrote
  <2>6. CASE Freed(q)' \subseteq Freed(q)
    <3>1. Freed(q)' \in SUBSET Freed(q)
      BY <2>6
    <3>2. Cardinality(Freed(q)') <= Cardinality(Freed(q)) /\ Cardinality(Freed(q)') \in Nat
      BY <2>4, <3>1, FS_Subset, FS_CardinalityType
    <3>3. QED
      BY <1>2, <1>4, <2>1, <2>2, <2>4, <3>2
  <2>7. CASE op[r] # "create" /\ \E k \in Nat : Freed(q)' \subseteq Freed(q) \cup {k}
    <3>1. PICK k \in Nat : Freed(q)' \in SUBSET (Freed(q) \cup {k})
      BY <2>7
    <3>2. /\ IsFiniteSet(Freed(q) \cup {k})
          /\ Cardinality(Freed(q) \cup {k}) \in Nat
          /\ Cardinality(Freed(q) \cup {k}) <= Cardinality(Freed(q)) + 1
      <4>1. /\ IsFiniteSet(Freed(q) \cup {k})
            /\ Cardinality(Freed(q) \cup {k}) =
                  IF k \in Freed(q) THEN Cardinality(Freed(q)) ELSE Cardinality(Freed(q)) + 1
        BY <2>4, FS_AddElement
      <4>2. QED
        BY <2>4, <4>1
    <3>3. Cardinality(Freed(q)') <= Cardinality(Freed(q)) + 1 /\ Cardinality(Freed(q)') \in Nat
      BY <2>4, <3>1, <3>2, FS_Subset, FS_CardinalityType
    <3>4. r \notin Renamers(q)
      BY <2>5 DEF Renamers, Wrote, Inv, RequestOK, HandlerOK
    <3>5. Renamers(q)' = Renamers(q) \cup {r}
      <4>1. overtook'[q] = overtook[q] \cup {r} /\ op' = op
        BY <2>1, <2>5 DEF Wrote, InFlight
      <4>2. QED
        BY <2>7, <4>1 DEF Renamers
    <3>6. Cardinality(Renamers(q)') = Cardinality(Renamers(q)) + 1
      BY <2>4, <3>4, <3>5, FS_AddElement
    <3>7. QED
      BY <1>2, <1>4, <2>1, <2>2, <2>4, <3>3, <3>6
  <2>8. QED
    BY <2>1, <2>5, <2>6, <2>7, WriteFrees
<1>7. QED
  BY <1>1, <1>2, <1>3, <1>5, <1>6 DEF SearchOK, Resting

\* The same of the sets after a step.
LEMMA CountedSetsAfter ==
    ASSUME TypeOK', \A q \in Request : IsFiniteSet(overtook'[q]), NEW r \in Request
    PROVE  /\ Cardinality(OtherRows(r)') \in Nat
           /\ Cardinality(Renamers(r)') \in Nat
<1>1. FiniteHistory'
  BY DEF FiniteHistory
<1>2. Countable'
  BY <1>1, CountedSets, PTL
<1>3. QED
  BY <1>2 DEF Countable

\* A request that begins starts its search at the first candidate.
LEMMA SearchBegins ==
    ASSUME Inv, Inv', SearchInv, NEW r \in Request,
           NEW o \in {"create", "update", "publish"}, NEW i \in Nat, NEW u \in Requester,
           NEW e \in Row,
           NEW label \in {"probe", "select", "badRequest", "forbidden", "notFound"},
           Begun(r, o, i, u, e, label)
    PROVE  SearchInv'
<1>1. /\ UNCHANGED <<events, overtook>> /\ pc[r] = "idle" /\ pc'[r] = label /\ entity'[r] = e
      /\ \/ label = "probe" /\ base'[r] = e.slug /\ counter'[r] = 1
         \/ label # "probe" /\ counter'[r] = counter[r]
  BY DEF Inv, TypeOK, Begun
<1>2. Kept /\ \A q \in Request \ {r} : Resting(q)
  BY DEF Inv, TypeOK, Begun, Kept, Resting
<1>3. \A q \in Request \ {r} : SearchOK(q)' /\ Bounded(q)'
  BY <1>1, <1>2, SearchRests
<1>4. \A q \in Request : IsFiniteSet(overtook'[q])
  BY <1>1 DEF SearchInv, SearchOK
<1>5. Cardinality(OtherRows(r)') \in Nat /\ Cardinality(Renamers(r)') \in Nat
  BY <1>4, CountedSetsAfter DEF Inv
<1>6. counter[r] = 0
  BY <1>1 DEF SearchInv, SearchOK
<1>7. Bounded(r)'
  BY <1>1, <1>5, <1>6 DEF Bounded
<1>8. ASSUME label = "probe"
      PROVE  /\ counter'[r] >= 1 /\ entity'[r].slug = Candidate(r, counter[r])'
             /\ Cardinality(Freed(r)') <= Cardinality(Renamers(r)')
  <2>1. Freed(r)' = {}
    BY <1>1, <1>8 DEF Freed
  <2>2. Cardinality(Freed(r)') = 0
    BY <2>1, FS_EmptySet
  <2>3. QED
    BY <1>1, <1>5, <1>8, <2>2 DEF Candidate
<1>9. SearchOK(r)'
  BY <1>1, <1>4, <1>8 DEF SearchOK
<1>10. QED
  BY <1>3, <1>7, <1>9 DEF SearchInv, SearchBounded, Bounded

\* One turn of the search passes a candidate that is taken.
LEMMA SearchTurns ==
    ASSUME Inv, Inv', SearchInv, NEW r \in Request, Probe(r)
    PROVE  SearchInv'
<1>1. /\ UNCHANGED <<events, overtook, op, id, base>> /\ pc[r] = "probe"
      /\ counter[r] \in Nat /\ base[r] \in Slug
  BY DEF Probe, Inv, TypeOK
<1>2. Kept /\ \A q \in Request \ {r} : Resting(q)
  BY DEF Inv, TypeOK, Probe, Goto, Kept, Resting
<1>3. CASE Goto(r, IF op[r] = "create" THEN "insert" ELSE "select") /\ UNCHANGED <<entity, counter>>
  <2>1. Resting(r)
    BY <1>1, <1>3 DEF Inv, TypeOK, Goto, Resting
  <2>2. \A q \in Request : SearchOK(q)' /\ Bounded(q)'
    BY <1>1, <1>2, <2>1, SearchRests
  <2>3. QED
    BY <2>2 DEF SearchInv, SearchBounded, Bounded
<1>4. CASE /\ Taken(r, entity[r].slug) /\ UNCHANGED pc
           /\ entity' = [entity EXCEPT ![r].slug = Append(base[r], counter[r])]
           /\ counter' = [counter EXCEPT ![r] = @ + 1]
  <2>1. \A q \in Request \ {r} : SearchOK(q)' /\ Bounded(q)'
    BY <1>1, <1>2, SearchRests
  <2>2. /\ counter[r] >= 1 /\ entity[r].slug = Candidate(r, counter[r])
        /\ Cardinality(Freed(r)) <= Cardinality(Renamers(r)) /\ IsFiniteSet(overtook[r])
    BY <1>1 DEF SearchInv, SearchOK
  <2>3. counter'[r] = counter[r] + 1
    BY <1>4 DEF Inv, TypeOK
  <2>4. entity'[r].slug = Append(base[r], counter[r])
    BY <1>4 DEF Inv, TypeOK, Row
  <2>5. entity'[r].slug = Candidate(r, counter[r])'
    BY <1>1, <2>2, <2>3, <2>4 DEF Candidate
  <2>6. Freed(r)' = Freed(r)
    <3>1. \A k \in Nat : Candidate(r, k)' = Candidate(r, k)
      BY <1>1 DEF Candidate
    <3>2. \A k \in Nat : Taken(r, Candidate(r, k))' <=> Taken(r, Candidate(r, k))
      BY <1>1, <3>1 DEF Taken
    <3>3. 1..(counter'[r] - 1) = 1..(counter[r] - 1) \cup {counter[r]}
      BY <1>1, <2>2, <2>3
    <3>4. Taken(r, Candidate(r, counter[r]))
      BY <1>4, <2>2
    <3>5. QED
      BY <1>1, <3>2, <3>3, <3>4 DEF Freed
  <2>7. Renamers(r)' = Renamers(r)
    BY <1>1 DEF Renamers
  <2>8. SearchOK(r)'
    BY <1>1, <1>4, <2>2, <2>3, <2>5, <2>6, <2>7 DEF SearchOK
  <2>9. SearchesOK'
    BY <2>1, <2>8 DEF Inv, SearchesOK
  <2>10. SearchesBounded'
    BY <2>9, TurnsAreCounted, PTL
  <2>11. Bounded(r)'
    BY <1>1, <1>4, <2>10 DEF SearchesBounded
  <2>12. QED
    BY <2>1, <2>8, <2>11 DEF SearchInv, SearchBounded, Bounded
<1>5. QED
  BY <1>3, <1>4 DEF Probe

\* A step that neither begins nor turns a search, nor writes.
LEMMA SearchesRest ==
    ASSUME Inv, Inv', SearchInv, Kept, UNCHANGED <<events, overtook>>,
           \A q \in Request : Resting(q)
    PROVE  SearchInv'
<1>1. \A q \in Request : SearchOK(q)' /\ Bounded(q)'
  BY SearchRests
<1>2. QED
  BY <1>1 DEF SearchInv, SearchBounded, Bounded

\* A write.
LEMMA SearchesOvertaken ==
    ASSUME Inv, Inv', SearchInv, NEW r \in Request, NEW i \in Nat, Wrote(r, i)
    PROVE  SearchInv'
<1>1. \A q \in Request : SearchOK(q)' /\ Bounded(q)'
  BY SearchOvertaken
<1>2. QED
  BY <1>1 DEF SearchInv, SearchBounded, Bounded

LEMMA NextSearchInv == ASSUME Inv, SearchInv, [Next]_vars PROVE SearchInv'
<1>0. Inv'
  BY NextInv
<1>1. ASSUME Kept, UNCHANGED <<events, overtook>>, \A q \in Request : Resting(q)
      PROVE  SearchInv'
  BY <1>0, <1>1, SearchesRest
<1>2. CASE UNCHANGED vars
  <2>1. Kept /\ \A q \in Request : Resting(q)
    BY <1>2 DEF vars, Kept, Resting, Inv, TypeOK
  <2>2. QED
    BY <1>1, <1>2, <2>1 DEF vars
<1>3. ASSUME NEW r \in Request, pc' = [pc EXCEPT ![r] = pc'[r]],
             \/ pc[r] \in InFlight /\ pc'[r] \in {"save", "conflict", "failed"}
             \/ pc[r] = "commit" /\ pc'[r] \in {"ok", "lost"},
             UNCHANGED <<events, op, who, id, entity, base, counter, overtook>>
      PROVE  SearchInv'
  <2>1. Kept /\ \A q \in Request : Resting(q)
    BY <1>3 DEF Kept, Resting, Inv, TypeOK, InFlight
  <2>2. QED
    BY <1>1, <1>3, <2>1
<1>4. ASSUME NEW r \in Request, NEW u \in Requester, NEW d \in Dto, Create(r, u, d)
      PROVE  SearchInv'
  <2>1. PICK e \in Row, label \in {"probe", "badRequest"} : Begun(r, "create", 0, u, e, label)
    BY <1>4, CreateBegins DEF Inv
  <2>2. QED
    BY <1>0, <2>1, SearchBegins
<1>5. ASSUME NEW r \in Request, NEW u \in Requester, NEW i \in 1..(Len(events) + 1),
             NEW d \in Dto, Update(r, u, i, d)
      PROVE  SearchInv'
  <2>1. PICK e \in Row, label \in {"probe", "select", "badRequest", "forbidden", "notFound"} :
           Begun(r, "update", i, u, e, label)
    BY <1>5, UpdateBegins DEF Inv
  <2>2. QED
    BY <1>0, <2>1, SearchBegins
<1>6. ASSUME NEW r \in Request, NEW u \in Requester, NEW i \in 1..(Len(events) + 1),
             Publish(r, u, i)
      PROVE  SearchInv'
  <2>1. PICK e \in Row, label \in {"select", "badRequest", "forbidden", "notFound"} :
           Begun(r, "publish", i, u, e, label)
    BY <1>6, PublishBegins DEF Inv
  <2>2. QED
    BY <1>0, <2>1, SearchBegins
<1>7. ASSUME NEW r \in Request, Probe(r) PROVE SearchInv'
  BY <1>0, <1>7, SearchTurns
<1>8. ASSUME NEW r \in Request, Insert(r) PROVE SearchInv'
  <2>1. CASE ~ Taken(r, entity[r].slug) /\ Commit(r, Append(events, entity[r]))
    <3>1. Len(events) + 1 \in Nat /\ Wrote(r, Len(events) + 1)
      BY <1>8, <2>1, InsertWrites
    <3>2. QED
      BY <1>0, <3>1, SearchesOvertaken
  <2>2. CASE (Goto(r, "conflict") \/ Goto(r, "failed")) /\ UNCHANGED <<events, overtook>>
    BY <1>3, <1>8, <2>2 DEF Insert, Goto, InFlight, Inv, TypeOK
  <2>3. QED
    BY <1>8, <2>1, <2>2 DEF Insert
<1>9. ASSUME NEW r \in Request, Select(r) PROVE SearchInv'
  BY <1>3, <1>9 DEF Select, Goto, InFlight, Inv, TypeOK
<1>10. ASSUME NEW r \in Request, Save(r) PROVE SearchInv'
  <2>1. CASE ~ Taken(r, Saved(r).slug) /\ Commit(r, [events EXCEPT ![id[r]] = Saved(r)])
    <3>1. pc[r] = "save" /\ id[r] \in Nat
      BY <1>10 DEF Save, Inv, TypeOK
    <3>2. Wrote(r, id[r])
      BY <1>10, <2>1, <3>1, SaveWrites
    <3>3. QED
      BY <1>0, <3>1, <3>2, SearchesOvertaken
  <2>2. CASE Goto(r, "conflict") /\ UNCHANGED <<events, overtook>>
    BY <1>3, <1>10, <2>2 DEF Save, Goto, InFlight, Inv, TypeOK
  <2>3. QED
    BY <1>10, <2>1, <2>2 DEF Save
<1>11. ASSUME NEW r \in Request, Reply(r) \/ Abort(r) PROVE SearchInv'
  BY <1>3, <1>11 DEF Reply, Abort, Goto, Inv, TypeOK
<1>12. QED
  BY <1>2, <1>4, <1>5, <1>6, <1>7, <1>8, <1>9, <1>10, <1>11 DEF Next, Step

LEMMA InitSearchInv == Init => SearchInv
<1> SUFFICES ASSUME Init PROVE SearchInv
  OBVIOUS
<1>1. \A r \in Request : overtook[r] = {} /\ pc[r] = "idle" /\ counter[r] = 0
  BY DEF Init
<1>2. FiniteHistory
  <2>1. TypeOK
    BY InitInv DEF Inv
  <2>2. QED
    BY <1>1, <2>1, FS_EmptySet DEF FiniteHistory
<1>3. Countable
  BY <1>2, CountedSets
<1>4. \A r \in Request : Bounded(r)
  BY <1>1, <1>3 DEF Countable, Bounded
<1>5. \A r \in Request : SearchOK(r)
  BY <1>1, FS_EmptySet DEF SearchOK
<1>6. QED
  BY <1>4, <1>5 DEF SearchInv, SearchBounded, Bounded

LEMMA SearchInvariant == Spec => [](Inv /\ SearchInv)
<1>1. Init => Inv /\ SearchInv
  BY InitInv, InitSearchInv
<1>2. Inv /\ SearchInv /\ [Next]_vars => (Inv /\ SearchInv)'
  BY NextInv, NextSearchInv
<1>3. QED
  BY <1>1, <1>2, PTL DEF Spec

\* The slug search makes one turn more than there are rows other than the
\* request's own, and one for each update or publish written meanwhile
\* (the `while (true)` of events.service.ts 264-282).
THEOREM SearchesAreBounded == Spec => []SearchBounded
<1>1. SearchInv => SearchBounded
  BY DEF SearchInv
<1>2. QED
  BY <1>1, SearchInvariant, PTL

\* The creates whose INSERT is committed: one for each row.
Creators == {s \in Request : op[s] = "create" /\ pc[s] \in Written}
RowsCreated == Len(events) = Cardinality(Creators)

\* A step commits nobody's statement and leaves the table, or commits one.
LEMMA StepWrites ==
    ASSUME Inv, [Next]_vars
    PROVE  \/ /\ UNCHANGED events
              /\ \A q \in Request : (pc'[q] \in Written) <=> (pc[q] \in Written)
           \/ \E r \in Request : Insert(r) /\ Commit(r, Append(events, entity[r]))
           \/ \E r \in Request : /\ Save(r) /\ Commit(r, [events EXCEPT ![id[r]] = Saved(r)])
                                 /\ ~ Taken(r, Saved(r).slug)
<1> DEFINE quiet == UNCHANGED events /\ \A q \in Request : (pc'[q] \in Written) <=> (pc[q] \in Written)
           inserts == \E r \in Request : Insert(r) /\ Commit(r, Append(events, entity[r]))
           saves == \E r \in Request : /\ Save(r) /\ Commit(r, [events EXCEPT ![id[r]] = Saved(r)])
                                       /\ ~ Taken(r, Saved(r).slug)
<1>1. ASSUME NEW r \in Request, NEW label \in (InFlight \cup Answer) \ Written,
             pc[r] \notin Written, Goto(r, label), UNCHANGED events
      PROVE  quiet
  BY <1>1 DEF Goto, Inv, TypeOK
<1>2. ASSUME UNCHANGED vars PROVE quiet
  BY <1>2 DEF vars
<1>3. ASSUME NEW r \in Request, NEW u \in Requester, NEW d \in Dto, Create(r, u, d) PROVE quiet
  BY <1>1, <1>3 DEF Create, Begin, SearchSlug, Answered, InFlight, Answer
<1>4. ASSUME NEW r \in Request, NEW u \in Requester, NEW i \in 1..(Len(events) + 1),
             NEW d \in Dto, Update(r, u, i, d) PROVE quiet
  BY <1>1, <1>4 DEF Update, UpdateRow, Begin, SearchSlug, Answered, InFlight, Answer
<1>5. ASSUME NEW r \in Request, NEW u \in Requester, NEW i \in 1..(Len(events) + 1),
             Publish(r, u, i) PROVE quiet
  BY <1>1, <1>5 DEF Publish, PublishRow, Begin, Answered, InFlight, Answer
<1>6. ASSUME NEW r \in Request, Probe(r) PROVE quiet
  BY <1>1, <1>6 DEF Probe, InFlight, Answer
<1>7. ASSUME NEW r \in Request, Select(r) \/ Reply(r) \/ Abort(r) PROVE quiet
  <2>1. CASE pc[r] = "commit" /\ UNCHANGED events /\ (Goto(r, "ok") \/ Goto(r, "lost"))
    BY <2>1 DEF Goto, Inv, TypeOK
  <2>2. CASE pc[r] \in InFlight /\ UNCHANGED events /\ (Goto(r, "save") \/ Goto(r, "failed"))
    BY <1>1, <2>2 DEF InFlight, Answer
  <2>3. QED
    BY <1>7, <2>1, <2>2 DEF Select, Reply, Abort, InFlight
<1>8. ASSUME NEW r \in Request, Insert(r) PROVE quiet \/ inserts
  BY <1>1, <1>8 DEF Insert, InFlight, Answer
<1>9. ASSUME NEW r \in Request, Save(r) PROVE quiet \/ saves
  BY <1>1, <1>9 DEF Save, InFlight, Answer
<1> HIDE DEF quiet, inserts, saves
<1>10. quiet \/ inserts \/ saves
  BY <1>2, <1>3, <1>4, <1>5, <1>6, <1>7, <1>8, <1>9 DEF Next, Step
<1>11. QED
  BY <1>10 DEF quiet, inserts, saves

LEMMA NextKeeps == ASSUME Inv, [Next]_vars PROVE Kept
<1>1. ASSUME NEW r \in Request, pc[r] \notin Written, UNCHANGED <<events, overtook>>,
             \A q \in Request \ {r} : Untouched(q)
      PROVE  Kept
  BY <1>1 DEF Kept, Untouched, Inv, TypeOK
<1>2. ASSUME NEW r \in Request, NEW o, NEW i, NEW u, NEW e, NEW label, Begun(r, o, i, u, e, label)
      PROVE  Kept
  BY <1>1, <1>2 DEF Begun, Untouched, Inv, TypeOK
<1>3. CASE UNCHANGED vars
  BY <1>3 DEF vars, Kept, Inv, TypeOK
<1>4. ASSUME NEW r \in Request, NEW u \in Requester, NEW d \in Dto, Create(r, u, d) PROVE Kept
  BY <1>2, <1>4, CreateBegins DEF Inv
<1>5. ASSUME NEW r \in Request, NEW u \in Requester, NEW i \in 1..(Len(events) + 1),
             NEW d \in Dto, Update(r, u, i, d) PROVE Kept
  BY <1>2, <1>5, UpdateBegins DEF Inv
<1>6. ASSUME NEW r \in Request, NEW u \in Requester, NEW i \in 1..(Len(events) + 1),
             Publish(r, u, i) PROVE Kept
  BY <1>2, <1>6, PublishBegins DEF Inv
<1>7. ASSUME NEW r \in Request, Probe(r) PROVE Kept
  BY <1>1, <1>7 DEF Probe, Goto, Untouched, Inv, TypeOK
<1>8. ASSUME NEW r \in Request, Select(r) \/ Reply(r) \/ Abort(r) PROVE Kept
  <2>1. CASE pc[r] = "commit"
    BY <1>8, <2>1 DEF Select, Reply, Abort, Goto, InFlight, Kept, Inv, TypeOK
  <2>2. CASE pc[r] \in InFlight
    BY <1>1, <1>8, <2>2 DEF Select, Reply, Abort, Goto, InFlight, Untouched, Inv, TypeOK
  <2>3. QED
    BY <1>8, <2>1, <2>2 DEF Select, Reply, Abort, InFlight
<1>9. ASSUME NEW r \in Request, Insert(r) PROVE Kept
  <2>1. CASE ~ Taken(r, entity[r].slug) /\ Commit(r, Append(events, entity[r]))
    BY <1>9, <2>1, InsertWrites, WroteKept
  <2>2. CASE (Goto(r, "conflict") \/ Goto(r, "failed")) /\ UNCHANGED <<events, overtook>>
    BY <1>1, <1>9, <2>2 DEF Insert, Goto, Untouched, Inv, TypeOK
  <2>3. QED
    BY <1>9, <2>1, <2>2 DEF Insert
<1>10. ASSUME NEW r \in Request, Save(r) PROVE Kept
  <2>1. CASE ~ Taken(r, Saved(r).slug) /\ Commit(r, [events EXCEPT ![id[r]] = Saved(r)])
    <3>1. pc[r] = "save" /\ id[r] \in Nat
      BY <1>10 DEF Save, Inv, TypeOK
    <3>2. Wrote(r, id[r])
      BY <1>10, <2>1, <3>1, SaveWrites
    <3>3. QED
      BY <3>1, <3>2, WroteKept
  <2>2. CASE Goto(r, "conflict") /\ UNCHANGED <<events, overtook>>
    BY <1>1, <1>10, <2>2 DEF Save, Goto, Untouched, Inv, TypeOK
  <2>3. QED
    BY <1>10, <2>1, <2>2 DEF Save
<1>11. QED
  BY <1>3, <1>4, <1>5, <1>6, <1>7, <1>8, <1>9, <1>10 DEF Next, Step

\* Every row was made by a create whose INSERT is committed, each by its own.
LEMMA RowsAreCreated ==
    ASSUME IsFiniteSet(Request)
    PROVE  Spec => []RowsCreated
<1>1. ASSUME Init PROVE RowsCreated
  <2>1. Creators = {} /\ Len(events) = 0
    BY <1>1 DEF Init, Creators
  <2>2. QED
    BY <2>1, FS_EmptySet DEF RowsCreated
<1>2. ASSUME Inv, RowsCreated, [Next]_vars PROVE RowsCreated'
  <2>0. Creators \in SUBSET Request /\ IsFiniteSet(Creators) /\ Len(events) \in Nat
    <3>1. Creators \in SUBSET Request /\ Len(events) \in Nat
      BY <1>2 DEF Creators, Inv, TypeOK
    <3>2. QED
      BY <3>1, FS_Subset
  <2>1. Kept
    BY <1>2, NextKeeps
  <2>2. CASE UNCHANGED events /\ \A q \in Request : (pc'[q] \in Written) <=> (pc[q] \in Written)
    <3>1. Creators' = Creators
      BY <2>1, <2>2 DEF Creators, Kept
    <3>2. QED
      BY <1>2, <2>2, <3>1 DEF RowsCreated
  <2>3. ASSUME NEW r \in Request, Insert(r), Commit(r, Append(events, entity[r]))
        PROVE  RowsCreated'
    <3>1. pc[r] = "insert" /\ op[r] = "create" /\ op' = op /\ pc' = [pc EXCEPT ![r] = "commit"]
      BY <1>2, <2>3 DEF Insert, Commit, Goto, Inv, RequestOK, HandlerOK
    <3>2. Creators' = Creators \cup {r} /\ r \notin Creators
      BY <1>2, <3>1 DEF Creators, Inv, TypeOK
    <3>3. Len(events') = Len(events) + 1
      BY <1>2, <2>3 DEF Commit, Inv, TypeOK
    <3>4. Cardinality(Creators') = Cardinality(Creators) + 1
      BY <2>0, <3>2, FS_AddElement
    <3>5. QED
      BY <1>2, <3>3, <3>4 DEF RowsCreated
  <2>4. ASSUME NEW r \in Request, Save(r), Commit(r, [events EXCEPT ![id[r]] = Saved(r)])
        PROVE  RowsCreated'
    <3>1. pc[r] = "save" /\ op[r] # "create" /\ op' = op /\ pc' = [pc EXCEPT ![r] = "commit"]
      BY <1>2, <2>4 DEF Save, Commit, Goto, Inv, RequestOK, HandlerOK
    <3>2. Creators' = Creators
      BY <1>2, <3>1 DEF Creators, Inv, TypeOK
    <3>3. Len(events') = Len(events)
      BY <1>2, <2>4 DEF Commit, Inv, TypeOK
    <3>4. QED
      BY <1>2, <3>2, <3>3 DEF RowsCreated
  <2>5. QED
    BY <1>2, <2>2, <2>3, <2>4, StepWrites
<1>3. QED
  BY <1>1, <1>2, EventsInvariant, PTL DEF Spec

\* A search that goes on has made no more turns than there are requests.
TurnPerRequest == \A r \in Request : pc[r] = "probe" => counter[r] <= Cardinality(Request)

\* Of the rows and renames that bound a search, each is another request's: the
\* counter of ensureUniqueSlug (events.service.ts 264-282) never exceeds the
\* number of requests, each of which delays the search by a turn at most.
THEOREM SearchesTurnPerRequest ==
    ASSUME IsFiniteSet(Request)
    PROVE  Spec => []TurnPerRequest
<1>1. ASSUME Inv, SearchInv, RowsCreated, NEW r \in Request, pc[r] = "probe"
      PROVE  counter[r] <= Cardinality(Request)
  <2>1. Countable
    <3>1. FiniteHistory
      BY <1>1 DEF FiniteHistory, Inv, SearchInv, SearchOK
    <3>2. QED
      BY <3>1, CountedSets
  <2>2. /\ IsFiniteSet(OtherRows(r)) /\ Cardinality(OtherRows(r)) \in Nat
        /\ IsFiniteSet(Renamers(r)) /\ Cardinality(Renamers(r)) \in Nat
        /\ Len(events) \in Nat /\ counter[r] \in Nat
    BY <1>1, <2>1 DEF Countable, Inv, TypeOK
  <2>3. Cardinality(OtherRows(r)) <= Len(events)
    <3>1. 1 \in Int /\ Len(events) \in Int
      BY <2>2
    <3>2. IsFiniteSet(1..Len(events)) /\ Cardinality(1..Len(events)) = Len(events)
      <4>1. /\ IsFiniteSet(1..Len(events))
            /\ Cardinality(1..Len(events)) = IF 1 > Len(events) THEN 0 ELSE Len(events) - 1 + 1
        BY <3>1, FS_Interval
      <4>2. QED
        BY <2>2, <4>1
    <3>3. OtherRows(r) \in SUBSET (1..Len(events))
      BY DEF OtherRows
    <3>4. QED
      BY <3>2, <3>3, FS_Subset
  <2>4. /\ Creators \in SUBSET Request /\ r \notin Creators
        /\ Renamers(r) \in SUBSET Request /\ r \notin Renamers(r)
        /\ Creators \cap Renamers(r) = {}
    BY <1>1 DEF Creators, Renamers, Inv, TypeOK, RequestOK, HandlerOK
  <2>5. IsFiniteSet(Creators)
    BY <2>4, FS_Subset
  <2>6. /\ IsFiniteSet(Creators \cup Renamers(r))
        /\ Cardinality(Creators \cup Renamers(r)) =
              Cardinality(Creators) + Cardinality(Renamers(r)) - Cardinality({})
    BY <2>2, <2>4, <2>5, FS_Union
  <2>7. IsFiniteSet(Request \ {r}) /\ Cardinality(Request \ {r}) = Cardinality(Request) - 1
    BY FS_RemoveElement
  <2>8. Creators \cup Renamers(r) \in SUBSET (Request \ {r})
    BY <2>4
  <2>9. Cardinality(Creators \cup Renamers(r)) <= Cardinality(Request) - 1
    BY <2>7, <2>8, FS_Subset
  <2>10. Bounded(r) /\ Len(events) = Cardinality(Creators)
    BY <1>1 DEF SearchInv, SearchBounded, Bounded, RowsCreated
  <2>11. /\ Cardinality({}) = 0 /\ Cardinality(Request) \in Nat
         /\ Cardinality(Creators \cup Renamers(r)) \in Nat
    BY <2>6, FS_EmptySet, FS_CardinalityType
  <2>12. QED
    BY <2>2, <2>3, <2>6, <2>9, <2>10, <2>11 DEF Bounded
<1>2. Inv /\ SearchInv /\ RowsCreated => TurnPerRequest
  BY <1>1 DEF TurnPerRequest
<1>3. QED
  BY <1>2, SearchInvariant, RowsAreCreated, PTL

\* The bound on the counter lets every search go on.
NeverCutShort == \A r \in Request : pc[r] = "probe" => counter[r] <= Suffix

\* With a Suffix of at least the number of requests, the bound of the model is
\* never what stops a search: the runs leave no behaviour of the unbounded
\* `while (true)` (events.service.ts:271) out.
THEOREM SearchesAreNotCutShort ==
    ASSUME IsFiniteSet(Request), Cardinality(Request) <= Suffix
    PROVE  Spec => []NeverCutShort
<1>1. ASSUME Inv, TurnPerRequest PROVE NeverCutShort
  <2>1. \A r \in Request : counter[r] \in Nat
    BY <1>1 DEF Inv, TypeOK
  <2>2. Cardinality(Request) \in Nat
    BY FS_CardinalityType
  <2>3. QED
    BY <1>1, <2>1, <2>2, SuffixAssumption DEF TurnPerRequest, NeverCutShort
<1>2. QED
  BY <1>1, EventsInvariant, SearchesTurnPerRequest, PTL
=============================================================================
