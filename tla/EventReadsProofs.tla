-------------------------- MODULE EventReadsProofs --------------------------
(***************************************************************************)
(* Proofs about the reading endpoints of events-service, for every set of  *)
(* rows, filters and limits and a table of any length: what a client that  *)
(* asks page after page may miss or see twice, and where a slug leads.     *)
(***************************************************************************)
EXTENDS EventReads, FiniteSetTheorems, TLAPS

----------------------------------------------------------------------------
(* Positions *)

LEMMA RowFields ==
    ASSUME TypeOK, NEW i \in Id
    PROVE  events[i] \in EventRow /\ events[i].startsAt \in Nat
BY RowAssumption DEF TypeOK, Id

LEMMA ListedFinite ==
    ASSUME TypeOK, NEW q
    PROVE  /\ Listed(q) \subseteq Id /\ IsFiniteSet(Listed(q))
           /\ IsFiniteSet(Id) /\ Len(events) \in Nat
<1>1. Len(events) \in Nat
  BY DEF TypeOK
<1>2. IsFiniteSet(Id)
  BY <1>1, FS_Interval DEF Id
<1>3. Listed(q) \subseteq Id
  BY DEF Listed
<1>4. QED
  BY <1>1, <1>2, <1>3, FS_Subset

LEMMA RankType ==
    ASSUME TypeOK, NEW i \in Listed(query)
    PROVE  /\ Rank(i) \in Nat /\ Cardinality(Listed(query)) \in Nat
           /\ Rank(i) < Cardinality(Listed(query))
<1> DEFINE S == Listed(query)
<1>1. IsFiniteSet(S) /\ S \subseteq Id
  BY ListedFinite
<1>2. Earlier(S, i) \subseteq S /\ i \notin Earlier(S, i)
  <2>1. events[i].startsAt \in Nat
    BY <1>1, RowFields
  <2>2. QED
    BY <2>1 DEF Earlier
<1>3. /\ Cardinality(Earlier(S, i)) \in Nat /\ Cardinality(S) \in Nat
      /\ Cardinality(Earlier(S, i)) <= Cardinality(S)
      /\ Cardinality(Earlier(S, i)) # Cardinality(S)
  <2>1. Earlier(S, i) # S
    BY <1>2
  <2> HIDE DEF S
  <2>2. IsFiniteSet(Earlier(S, i)) /\ Cardinality(Earlier(S, i)) <= Cardinality(S)
        /\ Cardinality(Earlier(S, i)) # Cardinality(S)
    BY <1>1, <1>2, <2>1, FS_Subset
  <2>3. QED
    BY <1>1, <2>2, FS_CardinalityType
<1>4. QED
  BY <1>3 DEF Rank

\* An event that starts alone stands at its rank, however ties are broken.
LEMMA PositionIsRank ==
    ASSUME TypeOK, NEW tie \in Tie, NEW i \in Listed(query), i \notin Tied(Listed(query))
    PROVE  Position(Listed(query), tie, i) = Rank(i)
<1> DEFINE S == Listed(query)
<1>1. S \subseteq Id /\ Id \subseteq Nat
  BY ListedFinite DEF Id
<1>2. tie[i] \in Nat
  BY <1>1 DEF Tie
<1>3. Before(S, tie, i) = Earlier(S, i)
  BY <1>2 DEF Before, Earlier, Tied
<1>4. QED
  BY <1>3 DEF Position, Rank

\* Arithmetic of offsets.
LEMMA NextOffset ==
    ASSUME NEW p \in Nat, NEW l \in Nat
    PROVE  /\ Offset(p, l) \in Int /\ p * l \in Nat
           /\ Offset(p, l) + l = p * l /\ Offset(p + 1, l) = p * l
BY DEF Offset

----------------------------------------------------------------------------
(* The initial state and the client's steps *)

LEMMA InitInv == Init => Inv
<1> SUFFICES ASSUME Init PROVE Inv
  OBVIOUS
<1>1. events = <<>> /\ Len(events) = 0 /\ Id = {}
  BY DEF Init, Empty, Id
<1>2. TypeOK
  <2>1. query \in [state : {NULL, "draft", "published"}, from : Nat \cup {NULL}]
    BY DEF Init
  <2>2. events \in Seq(EventRow)
    BY <1>1
  <2>3. page \in Nat /\ limit \in Nat /\ pc = "idle"
    BY DEF Init
  <2>4. QED
    BY <1>1, <2>1, <2>2, <2>3 DEF Init, TypeOK
<1>3. HistoryOK /\ AheadOK /\ BehindOK /\ FirstOK /\ LinkOK
  BY DEF Init, HistoryOK, AheadOK, BehindOK, FirstOK, LinkOK
<1>4. UniqueSlugs /\ NothingSkipped /\ NothingTwice
  BY <1>1 DEF Init, UniqueSlugs, NothingSkipped, NothingTwice
<1>5. QED
  BY <1>2, <1>3, <1>4 DEF Inv

LEMMA AskInv ==
    ASSUME Inv, NEW q \in Query, NEW p \in {0, 1}, NEW l \in Limit, Ask(q, p, l)
    PROVE  Inv'
<1>1. /\ pc = "idle" /\ query' = q /\ page' = p /\ limit' = l
      /\ pc' = IF Offset(p, l) < 0 THEN "failed" ELSE "asking"
      /\ kept' = Listed(q) /\ tied' = Tied(Listed(q))
      /\ UNCHANGED <<events, seen, again, came, left, link, renamed, answer>>
  BY DEF Ask, lookup
<1>2. l \in Nat /\ p \in Nat /\ Offset(p, l) \in Int
  BY LimitAssumption DEF Offset
<1>3. Listed(q) \subseteq Id /\ Tied(Listed(q)) \subseteq Id
  BY ListedFinite DEF Inv, Tied
<1>4. Id' = Id /\ Listed(query)' = Listed(q) /\ Tied(Listed(query))' = Tied(Listed(q))
  BY <1>1 DEF Id, Listed, Tied
<1>5. TypeOK'
  <2>1. query' \in [state : {NULL, "draft", "published"}, from : Nat \cup {NULL}]
    BY <1>1, QueryAssumption
  <2>2. pc' \in {"asking", "counting"} => Offset(page', limit') \in Nat
    BY <1>1, <1>2
  <2>3. pc' \in {"failed", "asking"}
    BY <1>1
  <2>4. QED
    BY <1>1, <1>2, <1>3, <1>4, <2>1, <2>2, <2>3 DEF Inv, TypeOK
<1>6. pc' \in {"failed", "asking"} /\ seen' = {}
  BY <1>1 DEF Inv, FirstOK
<1>7. HistoryOK'
  BY <1>1, <1>4 DEF HistoryOK
<1>8. AheadOK'
  <2>1. ASSUME pc' = "asking", NEW i \in kept'
        PROVE  Rank(i)' >= Reach'
    <3>1. pc' = "asking" => Offset(p, l) = 0
      <4>1. CASE p = 1
        BY <1>2, <4>1 DEF Offset
      <4>2. CASE p = 0
        BY <1>1, <1>2, <4>2 DEF Offset
      <4>3. QED
        BY <4>1, <4>2
    <3>2. Rank(i)' \in Nat
      <4>1. Rank(i)' = Cardinality(Earlier(Listed(q), i))
        BY <1>1, <1>4 DEF Rank, Earlier
      <4>2. IsFiniteSet(Listed(q)) /\ Earlier(Listed(q), i) \subseteq Listed(q)
        BY ListedFinite DEF Inv, Earlier
      <4>3. QED
        BY <4>1, <4>2, FS_Subset, FS_CardinalityType
    <3>3. Reach' = Offset(p, l)
      BY <1>1, <2>1 DEF Reach
    <3>4. QED
      BY <2>1, <3>1, <3>2, <3>3
  <2>2. QED
    BY <1>6, <2>1 DEF AheadOK
<1>9. BehindOK' /\ FirstOK' /\ LinkOK'
  BY <1>6 DEF BehindOK, FirstOK, LinkOK
<1>10. UniqueSlugs' /\ NothingSkipped' /\ NothingTwice'
  <2>1. UniqueSlugs'
    BY <1>1, <1>4 DEF Inv, UniqueSlugs
  <2>2. NothingSkipped'
    BY <1>6 DEF NothingSkipped
  <2>3. again = {}
    BY <1>1 DEF Inv, FirstOK
  <2>4. QED
    BY <1>1, <2>1, <2>2, <2>3 DEF NothingTwice
<1>11. QED
  BY <1>5, <1>7, <1>8, <1>9, <1>10 DEF Inv

LEMMA GetManyInv == ASSUME Inv, GetMany PROVE Inv'
<1> DEFINE S == Listed(query)
<1>1. PICK tie \in Tie : /\ seen' = seen \cup Page(S, tie)
                         /\ again' = again \cup (seen \cap Page(S, tie))
  BY DEF GetMany
<1>2. /\ pc = "asking" /\ pc' = "counting"
      /\ UNCHANGED <<events, query, page, limit, kept, tied, came, left, link, renamed, answer>>
  BY DEF GetMany, history, lookup
<1>3. /\ TypeOK /\ page \in Nat /\ limit \in Nat /\ Offset(page, limit) \in Nat
  BY <1>2 DEF Inv, TypeOK
<1>4. S \subseteq Id /\ Page(S, tie) \subseteq S
  BY <1>3, ListedFinite DEF Page
<1>5. Id' = Id /\ Listed(query)' = S
  BY <1>2 DEF Id, Listed
<1>6. \A i : Rank(i)' = Rank(i)
  BY <1>2, <1>5 DEF Rank, Earlier
<1>7. Reach = Offset(page, limit) /\ Reach' = Offset(page, limit) + limit
  BY <1>2 DEF Reach
<1>8. \A i \in S \ tied : i \in Page(S, tie) <=>
          /\ Rank(i) >= Offset(page, limit)
          /\ limit # 0 => Rank(i) < Offset(page, limit) + limit
  <2> TAKE i \in S \ tied
  <2>1. i \notin Tied(S)
    BY <1>2 DEF Inv, HistoryOK
  <2>2. Position(S, tie, i) = Rank(i)
    BY <1>3, <2>1, PositionIsRank
  <2>3. QED
    BY <2>2 DEF Page
<1>9. \A i \in S : Rank(i) \in Nat
  BY <1>3, RankType
<1>10. TypeOK'
  BY <1>1, <1>2, <1>3, <1>4, <1>5 DEF TypeOK
<1>11. HistoryOK'
  BY <1>2, <1>5 DEF Inv, HistoryOK, Tied
<1>12. AheadOK'
  <2> SUFFICES ASSUME ~ left', NEW i \in (kept' \ tied') \ seen'
               PROVE  Rank(i)' >= Reach' /\ limit' # 0
    BY <1>2 DEF AheadOK
  <2>1. i \in S \ tied /\ i \in (kept \ tied) \ seen /\ i \notin Page(S, tie)
    BY <1>1, <1>2 DEF Inv, HistoryOK
  <2>2. Rank(i) >= Offset(page, limit)
    BY <1>2, <1>7, <2>1 DEF Inv, AheadOK
  <2>3. QED
    BY <1>2, <1>3, <1>6, <1>7, <1>8, <1>9, <2>1, <2>2
<1>13. BehindOK'
  <2> SUFFICES ASSUME ~ came', limit' # 0, NEW i \in (seen' \cap S) \ tied'
               PROVE  Rank(i)' < Reach'
    BY <1>2, <1>5 DEF BehindOK
  <2>1. CASE i \in seen
    <3>1. Rank(i) < Offset(page, limit)
      BY <1>2, <1>7, <2>1 DEF Inv, BehindOK
    <3>2. QED
      BY <1>3, <1>6, <1>7, <1>9, <3>1
  <2>2. CASE i \in Page(S, tie)
    BY <1>2, <1>6, <1>7, <1>8, <2>2
  <2>3. QED
    BY <1>1, <2>1, <2>2
<1>14. FirstOK' /\ LinkOK' /\ NothingSkipped'
  BY <1>2 DEF FirstOK, LinkOK, NothingSkipped
<1>15. UniqueSlugs'
  BY <1>2, <1>5 DEF Inv, UniqueSlugs
<1>16. NothingTwice'
  <2> SUFFICES ASSUME ~ came', NEW i \in again' \ tied' PROVE FALSE
    BY DEF NothingTwice
  <2>1. again \subseteq tied
    BY <1>2 DEF Inv, NothingTwice
  <2>2. i \in seen \cap Page(S, tie) /\ i \in (seen \cap S) \ tied
    BY <1>1, <1>2, <1>4, <2>1
  <2>3. limit # 0
    BY <1>2, <2>2 DEF Inv, FirstOK
  <2>4. Rank(i) < Offset(page, limit)
    BY <1>2, <1>7, <2>2, <2>3 DEF Inv, BehindOK
  <2>5. QED
    BY <1>3, <1>8, <1>9, <2>2, <2>4
<1>17. QED
  BY <1>10, <1>11, <1>12, <1>13, <1>14, <1>15, <1>16 DEF Inv

LEMMA CountInv == ASSUME Inv, Count PROVE Inv'
<1> DEFINE S == Listed(query)
<1>1. /\ pc = "counting"
      /\ UNCHANGED <<events, query, limit, seen, again, kept, tied, came, left, link, renamed,
                     answer>>
  BY DEF Count, history, lookup
<1>2. TypeOK /\ page \in Nat /\ limit \in Nat
  BY DEF Inv, TypeOK
<1>3. /\ Offset(page, limit) + limit = page * limit /\ page * limit \in Nat
      /\ Offset(page + 1, limit) = page * limit
  BY <1>2, NextOffset
<1>4. Id' = Id /\ Listed(query)' = S
  BY <1>1 DEF Id, Listed
<1>5. \A i : Rank(i)' = Rank(i)
  BY <1>1, <1>4 DEF Rank, Earlier
<1>6. Reach = page * limit
  BY <1>1, <1>3 DEF Reach
<1>7. UniqueSlugs' /\ NothingTwice'
  BY <1>1, <1>4 DEF Inv, UniqueSlugs, NothingTwice
<1>8. CASE limit = 0 \/ page * limit >= Cardinality(S)
  <2>1. pc' = "done" /\ UNCHANGED page
    BY <1>8 DEF Count
  <2>2. TypeOK'
    BY <1>1, <1>2, <1>4, <2>1 DEF TypeOK
  <2>3. HistoryOK' /\ AheadOK' /\ BehindOK' /\ FirstOK' /\ LinkOK'
    BY <2>1 DEF HistoryOK, AheadOK, BehindOK, FirstOK, LinkOK
  <2>4. NothingSkipped'
    <3> SUFFICES ASSUME ~ left', NEW i \in (kept' \ tied') \ seen' PROVE FALSE
      BY DEF NothingSkipped
    <3>1. limit # 0 /\ Rank(i) >= page * limit /\ i \in S
      BY <1>1, <1>6 DEF Inv, AheadOK, HistoryOK
    <3>2. Rank(i) < Cardinality(S) /\ Rank(i) \in Nat /\ Cardinality(S) \in Nat
      BY <1>2, <3>1, RankType
    <3> HIDE DEF S
    <3>3. QED
      BY <1>3, <1>8, <3>1, <3>2
  <2>5. QED
    BY <1>7, <2>2, <2>3, <2>4 DEF Inv
<1>9. CASE ~ (limit = 0 \/ page * limit >= Cardinality(S))
  <2>1. pc' = "asking" /\ page' = page + 1
    BY <1>9 DEF Count
  <2>2. Reach' = page * limit /\ Offset(page', limit') = page * limit
    BY <1>1, <1>3, <2>1 DEF Reach
  <2>3. TypeOK'
    BY <1>1, <1>2, <1>3, <1>4, <2>1, <2>2 DEF TypeOK
  <2>4. HistoryOK'
    BY <1>1, <1>4 DEF Inv, HistoryOK, Tied
  <2>5. AheadOK'
    BY <1>1, <1>5, <1>6, <2>1, <2>2 DEF Inv, AheadOK
  <2>6. BehindOK'
    BY <1>1, <1>4, <1>5, <1>6, <2>1, <2>2 DEF Inv, BehindOK
  <2>7. FirstOK' /\ LinkOK' /\ NothingSkipped'
    BY <1>1, <1>9, <2>1 DEF FirstOK, LinkOK, NothingSkipped
  <2>8. QED
    BY <1>7, <2>3, <2>4, <2>5, <2>6, <2>7 DEF Inv
<1>10. QED
  BY <1>8, <1>9

LEMMA LinkInv == ASSUME Inv, Follow \/ \E i \in Id : Learn(i) PROVE Inv'
<1>1. /\ pc \in {"idle", "linked"} /\ pc' \in {"linked", "followed"}
      /\ UNCHANGED <<events, query, page, limit, seen, again, kept, tied, came, left, renamed>>
  BY DEF Learn, Follow, walk, history
<1>2. Id' = Id
  BY <1>1 DEF Id
<1>3. pc' = "linked" => link'.id \in Id /\ events[link'.id].slug = link'.slug
  BY DEF Learn, Follow
<1>4. TypeOK'
  BY <1>1, <1>2, <1>3 DEF Inv, TypeOK
<1>5. HistoryOK' /\ AheadOK' /\ BehindOK' /\ FirstOK' /\ LinkOK' /\ NothingSkipped'
  BY <1>1, <1>3 DEF HistoryOK, AheadOK, BehindOK, FirstOK, LinkOK, NothingSkipped
<1>6. UniqueSlugs' /\ NothingTwice'
  BY <1>1, <1>2 DEF Inv, UniqueSlugs, NothingTwice
<1>7. QED
  BY <1>4, <1>5, <1>6 DEF Inv

----------------------------------------------------------------------------
(* The writing endpoints *)

\* A change of the table keeps the ids and the slugs apart.
LEMMA ChangeKeeps ==
    ASSUME Inv, Write
    PROVE  /\ events' \in Seq(EventRow) /\ Id \subseteq Id' /\ UniqueSlugs'
<1>1. events \in Seq(EventRow) /\ Len(events) \in Nat
  BY DEF Inv, TypeOK
<1>2. PICK row \in EventRow :
          \/ events' = Append(events, row)
          \/ \E i \in Id : events' = [events EXCEPT ![i] = row]
  BY DEF Write
<1>3. events' \in Seq(EventRow) /\ Len(events') >= Len(events) /\ Len(events') \in Nat
  BY <1>1, <1>2 DEF Id
<1>4. Id \subseteq Id'
  BY <1>1, <1>3 DEF Id
<1>5. CASE Add
  <2> DEFINE new == events'[Len(events) + 1]
  <2>1. events' = Append(events, new) /\ \A j \in Id : events[j].slug # new.slug
    <3>1. \A j \in Id : j # 0
      BY DEF Id
    <3>2. QED
      BY <1>5, <3>1 DEF Add, Free, Id
  <2>2. /\ Len(events') = Len(events) + 1
        /\ \A j \in Id : events'[j] = events[j]
    BY <1>1, <2>1 DEF Id
  <2>3. Id' = Id \cup {Len(events) + 1}
    BY <1>1, <2>2 DEF Id
  <2>4. QED
    BY <1>3, <1>4, <2>1, <2>2, <2>3 DEF Inv, UniqueSlugs
<1>6. ASSUME NEW i \in Id, Alter(i)
      PROVE  UniqueSlugs'
  <2>1. /\ Len(events') = Len(events)
        /\ \A j \in Id : j # i => events'[j] = events[j]
    <3>1. events' = [events EXCEPT ![i] = events'[i]]
      BY <1>6 DEF Alter
    <3>2. QED
      BY <1>1, <3>1 DEF Id
  <2>2. Id' = Id /\ \A j \in Id : events[j].slug = events'[i].slug => j = i
    BY <1>6, <2>1 DEF Alter, Free, Id
  <2>3. QED
    BY <2>1, <2>2 DEF Inv, UniqueSlugs
<1>7. QED
  BY <1>3, <1>4, <1>5, <1>6 DEF Write, Change, Id

LEMMA WriteInv == ASSUME Inv, Write PROVE Inv'
<1> DEFINE S == Listed(query)
           T == Listed(query)'
<1>1. /\ pc' = pc /\ pc \in {"idle", "asking", "counting", "linked"}
      /\ UNCHANGED <<query, page, limit, seen, again, link, answer>>
      /\ renamed' = (renamed \/ (pc = "linked" /\ events'[link.id].slug # link.slug))
  BY DEF Write, walk
<1>2. events' \in Seq(EventRow) /\ Id \subseteq Id' /\ UniqueSlugs'
  BY ChangeKeeps
<1>3. S \subseteq Id /\ T \subseteq Id'
  BY <1>1 DEF Listed
<1>4. CASE pc \in {"idle", "linked"}
  <2>1. UNCHANGED <<kept, tied, came, left>>
    BY <1>4 DEF Write, Notice, history
  <2>2. TypeOK'
    <3>1. /\ query' \in [state : {NULL, "draft", "published"}, from : Nat \cup {NULL}]
          /\ page' \in Nat /\ limit' \in Nat /\ came' \in BOOLEAN /\ left' \in BOOLEAN
      BY <1>1, <2>1 DEF Inv, TypeOK
    <3>2. renamed' \in BOOLEAN
      BY <1>1 DEF Inv, TypeOK
    <3>3. seen' \subseteq Id' /\ again' \subseteq Id' /\ kept' \subseteq Id' /\ tied' \subseteq Id'
      BY <1>1, <1>2, <2>1 DEF Inv, TypeOK
    <3>4. pc' = "linked" => link'.id \in Id'
      BY <1>1, <1>2 DEF Inv, TypeOK
    <3>5. QED
      BY <1>1, <1>2, <1>4, <3>1, <3>2, <3>3, <3>4 DEF TypeOK
  <2>3. HistoryOK' /\ AheadOK' /\ BehindOK' /\ NothingSkipped'
    BY <1>1, <1>4 DEF HistoryOK, AheadOK, BehindOK, NothingSkipped
  <2>4. FirstOK' /\ NothingTwice'
    BY <1>1, <2>1 DEF Inv, FirstOK, NothingTwice
  <2>5. LinkOK'
    BY <1>1 DEF LinkOK
  <2>6. QED
    BY <1>2, <2>2, <2>3, <2>4, <2>5 DEF Inv
<1>5. CASE pc \in {"asking", "counting"}
  <2>1. /\ kept' = {i \in kept : Stays(i)}
        /\ tied' = tied \cup Tied(Listed(query))'
        /\ came' = (came \/ \E i \in T : ~ Stays(i))
        /\ left' = (left \/ \E i \in S : ~ Stays(i))
    BY <1>5 DEF Write, Notice
  <2>2. \A i : Stays(i) => i \in S /\ i \in T /\ events'[i].startsAt = events[i].startsAt
    BY DEF Stays
  <2>3. TypeOK'
    <3>1. /\ query' \in [state : {NULL, "draft", "published"}, from : Nat \cup {NULL}]
          /\ page' \in Nat /\ limit' \in Nat
          /\ pc' \in {"asking", "counting"} => Offset(page', limit') \in Nat
      BY <1>1 DEF Inv, TypeOK
    <3>2. came' \in BOOLEAN /\ left' \in BOOLEAN
      BY <2>1 DEF Inv, TypeOK
    <3>3. renamed' \in BOOLEAN
      BY <1>1 DEF Inv, TypeOK
    <3>4. seen' \subseteq Id' /\ again' \subseteq Id' /\ kept' \subseteq Id'
      BY <1>1, <1>2, <2>1 DEF Inv, TypeOK
    <3>5. tied' \subseteq Id'
      <4>1. Tied(Listed(query))' \subseteq T
        BY DEF Tied
      <4>2. QED
        BY <1>2, <1>3, <2>1, <4>1 DEF Inv, TypeOK
    <3>6. QED
      BY <1>1, <1>2, <1>5, <3>1, <3>2, <3>3, <3>4, <3>5 DEF TypeOK
  <2>4. HistoryOK'
    BY <2>1, <2>2 DEF HistoryOK
  <2>5. IsFiniteSet(S) /\ IsFiniteSet(T)
    <3>1. IsFiniteSet(S)
      BY ListedFinite DEF Inv
    <3>2. Len(events') \in Nat
      BY <1>2
    <3>3. IsFiniteSet(Id')
      BY <3>2, FS_Interval DEF Id
    <3>4. QED
      BY <1>3, <3>1, <3>3, FS_Subset
  <2>6. \A i : Rank(i) = Cardinality(Earlier(S, i)) /\ Rank(i)' = Cardinality(Earlier(S, i)')
    BY DEF Rank
  <2>7. \A i : Earlier(S, i) \subseteq S /\ Earlier(S, i)' \subseteq T
    BY DEF Earlier
  <2>8. \A i : /\ IsFiniteSet(Earlier(S, i)) /\ IsFiniteSet(Earlier(S, i)')
               /\ Cardinality(Earlier(S, i)) \in Nat /\ Cardinality(Earlier(S, i)') \in Nat
    <3> HIDE DEF S, T
    <3>1. \A i : IsFiniteSet(Earlier(S, i)) /\ IsFiniteSet(Earlier(S, i)')
      BY <2>5, <2>7, FS_Subset
    <3>2. QED
      BY <3>1, FS_CardinalityType
  <2>9. Reach' = Reach /\ Reach \in Int
    <3>1. Reach' = Reach
      BY <1>1 DEF Reach
    <3>2. page \in Nat /\ limit \in Nat
      BY DEF Inv, TypeOK
    <3>3. QED
      BY <3>1, <3>2 DEF Reach, Offset
  <2>10. AheadOK'
    <3> SUFFICES ASSUME ~ left', NEW i \in (kept' \ tied') \ seen'
                 PROVE  Rank(i)' >= Reach' /\ (pc' = "counting" => limit' # 0)
      BY DEF AheadOK
    <3>1. \A j \in S : Stays(j)
      BY <2>1
    <3>2. Stays(i) /\ i \in (kept \ tied) \ seen /\ ~ left
      BY <1>1, <2>1
    <3>3. Earlier(S, i) \subseteq Earlier(S, i)'
      BY <2>2, <3>1, <3>2 DEF Earlier
    <3>4. Rank(i) >= Reach /\ (pc = "counting" => limit # 0)
      BY <1>5, <3>2 DEF Inv, AheadOK
    <3> HIDE DEF S, T
    <3>5. Cardinality(Earlier(S, i)) <= Cardinality(Earlier(S, i)')
      BY <2>8, <3>3, FS_Subset
    <3>6. QED
      BY <1>1, <2>6, <2>8, <2>9, <3>4, <3>5
  <2>11. BehindOK'
    <3> SUFFICES ASSUME ~ came', limit' # 0, NEW i \in (seen' \cap T) \ tied'
                 PROVE  Rank(i)' < Reach'
      BY DEF BehindOK
    <3>1. \A j \in T : Stays(j)
      BY <2>1
    <3>2. Stays(i) /\ i \in (seen \cap S) \ tied /\ ~ came
      BY <1>1, <2>1, <2>2, <3>1
    <3>3. Earlier(S, i)' \subseteq Earlier(S, i)
      BY <2>2, <3>1, <3>2 DEF Earlier
    <3>4. Rank(i) < Reach
      BY <1>1, <1>5, <3>2 DEF Inv, BehindOK
    <3> HIDE DEF S, T
    <3>5. Cardinality(Earlier(S, i)') <= Cardinality(Earlier(S, i))
      BY <2>8, <3>3, FS_Subset
    <3>6. QED
      BY <2>6, <2>8, <2>9, <3>4, <3>5
  <2>12. FirstOK' /\ LinkOK' /\ NothingSkipped'
    BY <1>1, <1>5 DEF Inv, FirstOK, LinkOK, NothingSkipped
  <2>13. NothingTwice'
    BY <1>1, <2>1 DEF Inv, NothingTwice
  <2>14. QED
    BY <1>2, <2>3, <2>4, <2>10, <2>11, <2>12, <2>13 DEF Inv
<1>6. QED
  BY <1>1, <1>4, <1>5

----------------------------------------------------------------------------
(* The theorems *)

LEMMA AskInvAny ==
    ASSUME Inv, \E q \in Query, p \in {0, 1}, l \in Limit : Ask(q, p, l)
    PROVE  Inv'
BY AskInv

LEMMA StutterInv == ASSUME Inv, UNCHANGED vars PROVE Inv'
<1>1. /\ UNCHANGED <<events, pc, query, page, limit, seen, again>>
      /\ UNCHANGED <<kept, tied, came, left, link, renamed, answer>>
  BY DEF vars, walk, history, lookup
<1>2. Id' = Id /\ Listed(query)' = Listed(query) /\ \A i : Rank(i)' = Rank(i) /\ Reach' = Reach
  BY <1>1 DEF Id, Listed, Rank, Earlier, Reach
<1>3. TypeOK'
  BY <1>1, <1>2 DEF Inv, TypeOK
<1>4. HistoryOK' /\ AheadOK' /\ BehindOK'
  BY <1>1, <1>2 DEF Inv, HistoryOK, AheadOK, BehindOK, Tied
<1>5. FirstOK' /\ LinkOK' /\ UniqueSlugs' /\ NothingSkipped' /\ NothingTwice'
  BY <1>1, <1>2 DEF Inv, FirstOK, LinkOK, UniqueSlugs, NothingSkipped, NothingTwice
<1>6. QED
  BY <1>3, <1>4, <1>5 DEF Inv

LEMMA NextInv == Inv /\ [Next]_vars => Inv'
<1> SUFFICES ASSUME Inv, [Next]_vars PROVE Inv'
  OBVIOUS
<1>1. CASE Write
  BY <1>1, WriteInv
<1>2. CASE \E q \in Query, p \in {0, 1}, l \in Limit : Ask(q, p, l)
  BY <1>2, AskInvAny
<1>3. CASE GetMany
  BY <1>3, GetManyInv
<1>4. CASE Count
  BY <1>4, CountInv
<1>5. CASE Follow \/ \E i \in Id : Learn(i)
  BY <1>5, LinkInv
<1>6. CASE UNCHANGED vars
  BY <1>6, StutterInv
<1>7. QED
  BY <1>1, <1>2, <1>3, <1>4, <1>5, <1>6 DEF Next

\* In every reachable state what the client has not been answered lies ahead of
\* its page unless an event left, and what it has been answered lies behind
\* unless one came: the invariant behind the properties of the listing
\* (events.service.ts 101-139) and of the slugs (141-169).
THEOREM ReadsInvariant == Spec => []Inv
<1>1. Init => Inv
  BY InitInv
<1>2. QED
  BY <1>1, NextInv, PTL DEF Spec

\* The reading endpoints keep their types: in particular no listing is
\* running with a negative OFFSET (events.service.ts 108-126).
THEOREM ReadsTypeCorrect == Spec => []TypeOK
<1>1. Inv => TypeOK
  BY DEF Inv
<1>2. QED
  BY <1>1, ReadsInvariant, PTL

\* For a table and pages of any size: an event that was in the listing all
\* along is missed only if another left it, or moved in it, or starts together
\* with it (events.service.ts 122-129).
THEOREM PagesSkipNothing == Spec => []NothingSkipped
<1>1. Inv => NothingSkipped
  BY DEF Inv
<1>2. QED
  BY <1>1, ReadsInvariant, PTL

\* For a table and pages of any size: an event is seen on two pages only if
\* some event entered the listing, or moved in it, or starts together with it
\* (events.service.ts 122-129).
THEOREM PagesRepeatNothing == Spec => []NothingTwice
<1>1. Inv => NothingTwice
  BY DEF Inv
<1>2. QED
  BY <1>1, ReadsInvariant, PTL

\* The answer to a slug that one event has, and that is no number, is that of
\* its event.
LEMMA FoundBySlug ==
    ASSUME UniqueSlugs, NEW i \in Id, ~ IsNumber(events[i].slug), events[i].slug # <<>>
    PROVE  Get(events[i].slug) = IF events[i].state = "published" THEN Answer(200, i)
                                 ELSE Answer(403, 0)
<1> DEFINE path == events[i].slug
           found == {j \in Id : IF IsNumber(path) THEN j = Number(path)
                                ELSE events[j].slug = path}
<1>1. found = {i}
  BY DEF UniqueSlugs
<1> HIDE DEF found
<1>2. (CHOOSE j \in found : TRUE) = i
  BY <1>1
<1>3. findOne(path) = IF found = {} THEN Answer(404, 0)
                      ELSE LET j == CHOOSE j \in found : TRUE
                           IN  IF events[j].state = "published" THEN Answer(200, j)
                               ELSE Answer(403, 0)
  BY DEF findOne, found
<1>4. findOne(path) = IF events[i].state = "published" THEN Answer(200, i)
                      ELSE Answer(403, 0)
  BY <1>1, <1>2, <1>3
<1>5. QED
  BY <1>4 DEF Get

\* For a table of any length: whatever other events are written and named
\* meanwhile, a slug leads to its event or to its refusal
\* (events.controller.ts 79-83, events.service.ts 141-169).
THEOREM LinksLead == Spec => LinkLeadsToItsEvent
<1> DEFINE Leads ==
        pc = "linked" /\ pc' = "followed" /\ ~ renamed
          /\ link.slug # <<>> /\ ~ IsNumber(link.slug) =>
             answer' = IF events[link.id].state = "published" THEN Answer(200, link.id)
                       ELSE Answer(403, 0)
<1>1. Inv /\ [Next]_vars => [Leads]_vars
  <2> SUFFICES ASSUME Inv, Next, pc = "linked", pc' = "followed", ~ renamed,
                      link.slug # <<>>, ~ IsNumber(link.slug)
               PROVE  answer' = IF events[link.id].state = "published"
                                THEN Answer(200, link.id) ELSE Answer(403, 0)
    OBVIOUS
  <2>1. Follow
    BY DEF Next, Write, Ask, GetMany, Count, Learn
  <2>2. /\ UniqueSlugs /\ link.id \in Id /\ events[link.id].slug = link.slug
    BY DEF Inv, TypeOK, LinkOK
  <2>3. answer' = Get(link.slug)
    BY <2>1 DEF Follow
  <2>4. QED
    BY <2>2, <2>3, FoundBySlug
<1>2. QED
  BY <1>1, ReadsInvariant, PTL DEF Spec, LinkLeadsToItsEvent

----------------------------------------------------------------------------
(* A table at rest *)

\* As long as nothing left, all that was answered is listed; as long as nothing
\* came either, the listing is the one that the client began with.
QuietOK ==
    pc \in {"asking", "counting", "done"} /\ ~ left =>
        /\ seen \subseteq Listed(query)
        /\ ~ came => kept = Listed(query) /\ tied = Tied(Listed(query))

LEMMA QuietWrite ==
    ASSUME Inv, QuietOK, Write
    PROVE  QuietOK'
<1> DEFINE S == Listed(query)
           T == Listed(query)'
<1>1. /\ pc' = pc /\ seen' = seen /\ query' = query
      /\ pc \in {"idle", "asking", "counting", "linked"}
  BY DEF Write, walk
<1> SUFFICES ASSUME pc \in {"asking", "counting"}, ~ left'
             PROVE  seen \subseteq T /\ (~ came' => kept' = T /\ tied' = Tied(Listed(query))')
  BY <1>1 DEF QuietOK
<1>2. /\ kept' = {i \in kept : Stays(i)}
      /\ tied' = tied \cup Tied(Listed(query))'
      /\ came' = (came \/ \E i \in T : ~ Stays(i))
      /\ left' = (left \/ \E i \in S : ~ Stays(i))
  BY DEF Write, Notice
<1>3. \A i : Stays(i) => i \in S /\ i \in T /\ events'[i].startsAt = events[i].startsAt
  BY DEF Stays
<1>4. ~ left /\ \A i \in S : Stays(i)
  BY <1>2
<1>5. seen \subseteq S /\ (~ came => kept = S /\ tied = Tied(S))
  BY <1>4 DEF QuietOK
<1>6. seen \subseteq T
  BY <1>3, <1>4, <1>5
<1>7. ASSUME ~ came' PROVE kept' = T /\ tied' = Tied(Listed(query))'
  <2>1. ~ came /\ \A i \in T : Stays(i)
    BY <1>2, <1>7
  <2>2. S = T
    BY <1>3, <1>4, <2>1
  <2>3. kept' = T
    BY <1>2, <1>4, <1>5, <2>1, <2>2
  <2>4. Tied(Listed(query))' = Tied(S)
    <3>1. Tied(Listed(query))' = {i \in T : \E j \in T \ {i} : events'[j].startsAt = events'[i].startsAt}
      BY DEF Tied
    <3>2. \A i \in T : events'[i].startsAt = events[i].startsAt
      BY <1>3, <2>1
    <3> HIDE DEF S, T
    <3>3. {i \in T : \E j \in T \ {i} : events'[j].startsAt = events'[i].startsAt}
            = {i \in S : \E j \in S \ {i} : events[j].startsAt = events[i].startsAt}
      BY <2>2, <3>2
    <3>4. QED
      BY <3>1, <3>3 DEF Tied
  <2>5. QED
    BY <1>2, <1>5, <2>1, <2>3, <2>4
<1>8. QED
  BY <1>6, <1>7

LEMMA QuietNext ==
    ASSUME Inv, QuietOK, [Next]_vars
    PROVE  QuietOK'
<1>1. ASSUME NEW q \in Query, NEW p \in {0, 1}, NEW l \in Limit, Ask(q, p, l) PROVE QuietOK'
  <2>1. /\ seen' = {} /\ query' = q /\ UNCHANGED events
        /\ kept' = Listed(q) /\ tied' = Tied(Listed(q))
    BY <1>1 DEF Ask, Inv, FirstOK
  <2>2. Listed(query)' = Listed(q) /\ Tied(Listed(query))' = Tied(Listed(q))
    BY <2>1 DEF Listed, Tied, Id
  <2>3. QED
    BY <2>1, <2>2 DEF QuietOK
<1>2. CASE GetMany
  <2>1. /\ pc = "asking" /\ UNCHANGED <<events, query, kept, tied, came, left>>
        /\ \E tie \in Tie : seen' = seen \cup Page(Listed(query), tie)
    BY <1>2 DEF GetMany, history
  <2>2. seen' \subseteq seen \cup Listed(query)
    BY <2>1 DEF Page
  <2>3. Listed(query)' = Listed(query) /\ Tied(Listed(query))' = Tied(Listed(query))
    BY <2>1 DEF Listed, Tied, Id
  <2>4. QED
    BY <2>1, <2>2, <2>3 DEF QuietOK
<1>3. CASE Count \/ UNCHANGED vars
  <2>1. /\ pc' \in {"asking", "counting", "done"} => pc \in {"asking", "counting", "done"}
        /\ UNCHANGED <<events, query, seen, kept, tied, came, left>>
    BY <1>3 DEF Count, history, vars, walk
  <2>2. Listed(query)' = Listed(query) /\ Tied(Listed(query))' = Tied(Listed(query))
    BY <2>1 DEF Listed, Tied, Id
  <2>3. QED
    BY <2>1, <2>2 DEF QuietOK
<1>4. CASE Follow \/ \E i \in Id : Learn(i)
  BY <1>4 DEF Follow, Learn, QuietOK
<1>5. QED
  BY <1>1, <1>2, <1>3, <1>4, QuietWrite DEF Next

\* What a client has of a listing in which nothing came, left or moved while it
\* asked, and in which no two events start together.
QuietListingIsExact ==
    pc = "done" /\ ~ came /\ ~ left /\ Tied(Listed(query)) = {} =>
        seen = Listed(query) /\ again = {}

\* Page by page, with any limit, a client gets each event of a listing at rest
\* exactly once; only events that start together, which ORDER BY startsAt leaves
\* in any order, may be missed or come twice (events.service.ts 122-129).
THEOREM ListingsAtRestAreExact == Spec => []QuietListingIsExact
<1>1. Init => QuietOK
  BY DEF Init, QuietOK
<1>2. Inv /\ QuietOK /\ [Next]_vars => QuietOK'
  BY QuietNext
<1>3. Inv /\ QuietOK => QuietListingIsExact
  BY DEF Inv, QuietOK, QuietListingIsExact, NothingSkipped, NothingTwice
<1>4. QED
  BY <1>1, <1>2, <1>3, ReadsInvariant, PTL DEF Spec

\* A slug that GET /events/:idOrSlug does not take for the listing or an id.
Addressable(slug) == slug # <<>> /\ ~ IsNumber(slug)

FoundUnlessNumber ==
    \A i \in Id : Addressable(events[i].slug) =>
        Get(events[i].slug) = IF events[i].state = "published" THEN Answer(200, i)
                              ELSE Answer(403, 0)

\* The only published events that are not found under their slug
\* (events.http:184) are those whose slug is empty or has a leading number;
\* drafts are refused (events.controller.ts 79-83, events.service.ts 141-169).
THEOREM SlugsFindTheirEvents == Spec => []FoundUnlessNumber
<1>1. Inv => FoundUnlessNumber
  BY FoundBySlug DEF Inv, FoundUnlessNumber, Addressable
<1>2. QED
  BY <1>1, ReadsInvariant, PTL
=============================================================================
