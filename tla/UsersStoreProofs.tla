-------------------------- MODULE UsersStoreProofs --------------------------
(***************************************************************************)
(* Proofs about the users table, for every set of requests, addresses and  *)
(* bodies: Inv is inductive, and the properties follow from it.            *)
(***************************************************************************)
EXTENDS UsersStore, TLAPS

----------------------------------------------------------------------------
(* The parts of the invariant *)

Label == {"idle"} \cup InFlight \cup Answer

LogoutKept(r) ==
    op[r] = "logout" /\ pc[r] = "ok" /\ Exists(id[r]) =>
        \/ users[id[r]].lastLogout # NULL /\ users[id[r]].lastLogout >= date[r]
        \/ Excused(r)

RemovalKept(r) == op[r] = "remove" /\ pc[r] = "ok" /\ Exists(id[r]) => WrittenOver(r)

RequestOK(r) == HandlerOK(r) /\ FreshOK(r) /\ LogoutKept(r) /\ RemovalKept(r)

PairOK(r, s) == RemovalOK(r, s) /\ LogoutOK(r, s)

LEMMA InvParts ==
    Inv <=> TypeOK /\ (\A r \in Request : RequestOK(r)) /\ (\A r, s \in Request : PairOK(r, s))
BY DEF Inv, RequestOK, PairOK, LogoutKept, RemovalKept, Excused, LogoutLostOnlyInRace,
       RemovedReturnsOnlyInRace

\* A row is not the mark of a deleted one.
LEMMA RowIsNotNoRow == NoRow \notin Row
BY NULLAssumption DEF NoRow, Row

LEMMA ExistingRow ==
    ASSUME TypeOK, NEW i, Exists(i)
    PROVE  i \in 1..Len(users) /\ users[i] \in Row
BY DEF TypeOK, Exists

\* What excuses a lost write stays.
LEMMA ExcusesLast ==
    ASSUME NEW q \in Request, id'[q] = id[q],
           \A s \in Request : /\ pc[s] = "ok" => pc'[s] = "ok" /\ id'[s] = id[s]
                              /\ overtook[s] \subseteq overtook'[s]
    PROVE  /\ WrittenOver(q) => WrittenOver(q)'
           /\ Excused(q) => Excused(q)'
<1>1. WrittenOver(q) => WrittenOver(q)'
  BY DEF WrittenOver
<1>2. overtook[q] # {} => overtook'[q] # {}
  OBVIOUS
<1>3. QED
  BY <1>1, <1>2 DEF Excused

----------------------------------------------------------------------------
(* Steps that leave the rows and the handlers' variables alone *)

\* q goes on to an answer that is not 2xx, or stays where it is.
Fails(q) == pc'[q] = pc[q] \/ (pc[q] # "ok" /\ pc'[q] \in Answer \ {"ok"})

LEMMA QuietInv ==
    ASSUME Inv, UNCHANGED <<users, op, id, entity, loaded, date, asked, overtook>>,
           now' \in Nat, now <= now', starts' \in Nat, boot' \in {"admin", "test", "up"},
           pc' \in [Request -> Label], \A q \in Request : Fails(q)
    PROVE  Inv'
<1> USE InvParts
<1>1. TypeOK'
  BY DEF TypeOK, Label
<1>2. ASSUME NEW q \in Request
      PROVE  /\ pc[q] = "ok" <=> pc'[q] = "ok"
             /\ pc'[q] \in InFlight => pc'[q] = pc[q]
             /\ pc'[q] \in InFlight \/ pc'[q] \notin InFlight
  BY DEF Fails, Answer, InFlight
<1>3. ASSUME NEW q \in Request
      PROVE  (WrittenOver(q) => WrittenOver(q)') /\ (Excused(q) => Excused(q)')
  BY <1>2, ExcusesLast
<1>4. ASSUME NEW q \in Request
      PROVE  RequestOK(q)'
  <2>1. RequestOK(q) /\ date[q] \in Nat /\ now \in Nat
    BY DEF TypeOK
  <2>2. HandlerOK(q)'
    BY <1>2, <2>1 DEF RequestOK, HandlerOK, InFlight, Holding, TypeOK
  <2>3. FreshOK(q)'
    BY <1>2, <2>1 DEF RequestOK, FreshOK, InFlight, Holding, Exists
  <2>4. LogoutKept(q)' /\ RemovalKept(q)'
    BY <1>2, <1>3, <2>1 DEF RequestOK, LogoutKept, RemovalKept, Exists
  <2>5. QED
    BY <2>2, <2>3, <2>4 DEF RequestOK
<1>5. ASSUME NEW q \in Request, NEW s \in Request
      PROVE  PairOK(q, s)'
  <2>1. PairOK(q, s)
    OBVIOUS
  <2>2. QED
    BY <1>2, <1>3, <2>1 DEF PairOK, RemovalOK, LogoutOK, InFlight, Holding
<1>6. QED
  BY <1>1, <1>4, <1>5 DEF RequestOK, PairOK, LogoutKept, RemovalKept, Excused, Inv,
                          LogoutLostOnlyInRace, RemovedReturnsOnlyInRace

----------------------------------------------------------------------------
(* Steps that append a row *)

\* q is a create that has been answered, or stays where it is.
Creates(q) == pc'[q] = pc[q] \/ (op[q] = "create" /\ pc[q] # "ok" /\ pc'[q] = "ok")

LEMMA AppendInv ==
    ASSUME Inv, NEW row \in Row, users' = Append(users, row),
           UNCHANGED <<now, op, id, entity, loaded, date, asked, overtook>>,
           starts' \in Nat, boot' \in {"admin", "test", "up"},
           pc' \in [Request -> Label], \A q \in Request : Creates(q)
    PROVE  Inv'
<1> USE InvParts
<1>1. TypeOK'
  BY DEF TypeOK, Label
<1>2. /\ Len(users') = Len(users) + 1 /\ Len(users) \in Nat
      /\ \A i \in 1..Len(users) : users'[i] = users[i] /\ i \in 1..Len(users')
  BY DEF TypeOK
<1>3. ASSUME NEW i \in 1..Len(users)
      PROVE  Exists(i)' <=> Exists(i)
  BY <1>2 DEF Exists
<1>4. ASSUME NEW q \in Request
      PROVE  /\ pc[q] = "ok" => pc'[q] = "ok"
             /\ pc'[q] = "ok" /\ op[q] # "create" => pc[q] = "ok"
             /\ pc'[q] \in InFlight => pc'[q] = pc[q]
  BY DEF Creates, InFlight
<1>5. ASSUME NEW q \in Request
      PROVE  (WrittenOver(q) => WrittenOver(q)') /\ (Excused(q) => Excused(q)')
  BY <1>4, ExcusesLast
<1>6. ASSUME NEW q \in Request
      PROVE  RequestOK(q)'
  <2>1. RequestOK(q)
    OBVIOUS
  <2>2. HandlerOK(q)'
    BY <1>2, <1>4, <2>1 DEF RequestOK, HandlerOK, InFlight, Holding, TypeOK
  <2>3. FreshOK(q)'
    BY <1>2, <1>3, <1>4, <2>1 DEF RequestOK, FreshOK, HandlerOK, InFlight, Holding
  <2>4. LogoutKept(q)' /\ RemovalKept(q)'
    <3>1. CASE pc'[q] = "ok" /\ op[q] # "create"
      <4>1. pc[q] = "ok" /\ id[q] \in 1..Len(users)
        BY <1>4, <2>1, <3>1 DEF RequestOK, HandlerOK
      <4>2. QED
        BY <1>2, <1>3, <1>5, <2>1, <4>1 DEF RequestOK, LogoutKept, RemovalKept
    <3>2. CASE ~ (pc'[q] = "ok" /\ op[q] # "create")
      BY <3>2 DEF LogoutKept, RemovalKept
    <3>3. QED
      BY <3>1, <3>2
  <2>5. QED
    BY <2>2, <2>3, <2>4 DEF RequestOK
<1>7. ASSUME NEW q \in Request, NEW s \in Request
      PROVE  PairOK(q, s)'
  <2>1. PairOK(q, s)
    OBVIOUS
  <2>2. QED
    BY <1>4, <1>5, <2>1 DEF PairOK, RemovalOK, LogoutOK, InFlight, Holding
<1>8. QED
  BY <1>1, <1>6, <1>7 DEF RequestOK, PairOK, LogoutKept, RemovalKept, Excused, Inv,
                          LogoutLostOnlyInRace, RemovedReturnsOnlyInRace

----------------------------------------------------------------------------
(* Steps of one handler that leave the rows alone *)

\* Every handler but r's, and every row, is left alone.
Alone(r) ==
    /\ UNCHANGED <<now, users, boot, starts, overtook>>
    /\ pc' \in [Request -> Label]
    /\ op' \in [Request -> {"none", "create", "update", "remove", "logout"}]
    /\ id' \in [Request -> Nat]
    /\ entity' \in [Request -> Row \cup {NoRow}] /\ loaded' \in [Request -> Row \cup {NoRow}]
    /\ date' \in [Request -> Nat] /\ asked' \in [Request -> SUBSET Columns]
    /\ \A q \in Request \ {r} :
          /\ pc'[q] = pc[q] /\ op'[q] = op[q] /\ id'[q] = id[q] /\ entity'[q] = entity[q]
          /\ loaded'[q] = loaded[q] /\ date'[q] = date[q] /\ asked'[q] = asked[q]

\* It is enough to look at r, which has not been answered 2xx.
LEMMA AloneInv ==
    ASSUME Inv, NEW r \in Request, Alone(r), pc[r] # "ok", pc'[r] # "ok",
           HandlerOK(r)', FreshOK(r)',
           \A q \in Request \ {r} : PairOK(q, r)'
    PROVE  Inv'
<1> USE InvParts
<1>1. TypeOK'
  BY DEF TypeOK, Alone, Label
<1>2. ASSUME NEW q \in Request \ {r}
      PROVE  (WrittenOver(q) => WrittenOver(q)') /\ (Excused(q) => Excused(q)')
  BY ExcusesLast DEF Alone
<1>3. ASSUME NEW q \in Request
      PROVE  RequestOK(q)'
  <2>1. CASE q = r
    BY <2>1 DEF RequestOK, LogoutKept, RemovalKept
  <2>2. CASE q # r
    <3>1. RequestOK(q)
      OBVIOUS
    <3>2. HandlerOK(q)'
      <4>1. ASSUME NEW s \in overtook'[q]
            PROVE  pc'[s] = "ok"
        BY <2>2, <3>1, <4>1 DEF Alone, RequestOK, HandlerOK, TypeOK
      <4>2. QED
        BY <2>2, <3>1, <4>1 DEF RequestOK, HandlerOK, Alone
    <3>3. FreshOK(q)'
      BY <2>2, <3>1 DEF RequestOK, FreshOK, Alone, Exists
    <3>4. LogoutKept(q)' /\ RemovalKept(q)'
      BY <1>2, <2>2, <3>1 DEF RequestOK, LogoutKept, RemovalKept, Alone, Exists
    <3>5. QED
      BY <3>2, <3>3, <3>4 DEF RequestOK
  <2>3. QED
    BY <2>1, <2>2
<1>4. ASSUME NEW q \in Request, NEW s \in Request
      PROVE  PairOK(q, s)'
  <2>1. CASE q = r
    BY <2>1 DEF PairOK, RemovalOK, LogoutOK
  <2>2. CASE q # r /\ s = r
    BY <2>2
  <2>3. CASE q # r /\ s # r
    <3>1. PairOK(q, s)
      OBVIOUS
    <3>2. QED
      BY <1>2, <2>3, <3>1 DEF PairOK, RemovalOK, LogoutOK, Alone
  <2>4. QED
    BY <2>1, <2>2, <2>3
<1>5. QED
  BY <1>1, <1>3, <1>4 DEF RequestOK, PairOK, LogoutKept, RemovalKept, Excused, Inv,
                          LogoutLostOnlyInRace, RemovedReturnsOnlyInRace

\* r has begun, with what its first step finds and computes.
Begun(r, endpoint, i, columns, e, d, label) ==
    /\ Begin(r, endpoint, i, columns)
    /\ entity' = [entity EXCEPT ![r] = e] /\ date' = [date EXCEPT ![r] = d]
    /\ pc' = [pc EXCEPT ![r] = label]
    /\ endpoint = "logout" => columns = {"lastLogout"}
    /\ label = "create" => endpoint = "create" /\ e \in Row
    /\ label = "find" => endpoint = "logout" /\ d = now
    /\ label = "delete" => endpoint = "remove"
    /\ label = "select" =>
          /\ endpoint = "update" /\ Exists(i) /\ e \in Row /\ "lastLogout" \notin columns
          /\ \A c \in Columns \ columns : e[c] = users[i][c]

LEMMA BeginInv ==
    ASSUME Inv, NEW r \in Request, NEW endpoint \in {"create", "update", "remove", "logout"},
           NEW i \in Nat, NEW columns \in SUBSET Columns, NEW e \in Row \cup {NoRow},
           NEW d \in Nat, d <= now,
           NEW label \in {"create", "find", "delete", "select", "notFound"},
           Begun(r, endpoint, i, columns, e, d, label)
    PROVE  Inv'
<1> USE InvParts
<1>1. Alone(r)
  <2>1. label \in Label
    BY DEF Label, InFlight, Answer
  <2>2. QED
    BY <2>1 DEF TypeOK, Begun, Begin, Alone, Label
<1>2. /\ pc[r] = "idle" /\ pc'[r] = label /\ op'[r] = endpoint /\ id'[r] = i
      /\ entity'[r] = e /\ date'[r] = d /\ asked'[r] = columns
      /\ UNCHANGED <<users, now, overtook>>
  BY DEF TypeOK, Begun, Begin
<1>3. HandlerOK(r)'
  <2>1. HandlerOK(r)
    BY DEF RequestOK
  <2>2. \A s \in overtook'[r] : pc'[s] = "ok"
    BY <1>1, <1>2, <2>1 DEF HandlerOK, Alone, TypeOK
  <2>3. QED
    BY <1>2, <2>2 DEF HandlerOK, Holding, Begun, Exists
<1>4. FreshOK(r)'
  BY <1>2 DEF FreshOK, Begun, Holding, Exists
<1>5. ASSUME NEW q \in Request \ {r}
      PROVE  PairOK(q, r)'
  <2>1. (WrittenOver(q) => WrittenOver(q)') /\ (Excused(q) => Excused(q)')
    BY <1>1, <1>2, ExcusesLast DEF Alone
  <2>2. RequestOK(q) /\ op'[q] = op[q] /\ pc'[q] = pc[q] /\ id'[q] = id[q] /\ date'[q] = date[q]
    BY <1>1 DEF Alone
  <2>3. RemovalOK(q, r)'
    BY <1>2, <2>1, <2>2 DEF RemovalOK, RequestOK, RemovalKept, Begun, Holding
  <2>4. LogoutOK(q, r)'
    <3>1. ASSUME op[q] = "logout", pc[q] = "ok", i = id[q], ~ Excused(q), label = "select"
          PROVE  e.lastLogout # NULL /\ e.lastLogout >= date[q]
      <4>1. users[i].lastLogout # NULL /\ users[i].lastLogout >= date[q]
        BY <2>2, <3>1 DEF RequestOK, LogoutKept, Begun
      <4>2. e.lastLogout = users[i].lastLogout
        BY <3>1 DEF Begun, Columns
      <4>3. QED
        BY <4>1, <4>2
    <3>2. date[q] <= now
      BY <2>2 DEF RequestOK, HandlerOK
    <3>3. label = "find" => d >= date[q]
      BY <3>2 DEF Begun, TypeOK
    <3>4. QED
      BY <1>2, <2>1, <2>2, <3>1, <3>3 DEF LogoutOK, Holding
  <2>5. QED
    BY <2>3, <2>4 DEF PairOK
<1>6. QED
  BY <1>1, <1>2, <1>3, <1>4, <1>5, AloneInv

LEMMA CreateInv ==
    ASSUME Inv, NEW r \in Request, NEW email \in Email, Create(r, email)
    PROVE  Inv'
<1>1. NewUser(email, Student) \in Row
  BY SeedAssumption DEF NewUser, Row
<1>2. TypeOK /\ date[r] \in Nat /\ date[r] <= now /\ date' = [date EXCEPT ![r] = date[r]]
  BY InvParts DEF TypeOK, RequestOK, HandlerOK, Create
<1>3. Begun(r, "create", 0, {}, NewUser(email, Student), date[r], "create")
  BY <1>1, <1>2 DEF Create, Begun, Goto
<1>4. QED
  BY <1>1, <1>2, <1>3, BeginInv

\* Merging a body into a row leaves alone what the body does not name.
LEMMA MergedRow ==
    ASSUME NEW row \in Row, NEW d \in Dto
    PROVE  /\ Merged(row, d) \in Row
           /\ \A c \in Columns : (c = "lastLogout" \/ d[c] = NULL) => Merged(row, d)[c] = row[c]
<1>1. d.email \in Email \cup {NULL} /\ d.role \in Role \cup {NULL}
  BY DtoAssumption
<1>2. Given(d.email, row.email) \in Email /\ Given(d.role, row.role) \in Role
  BY <1>1 DEF Given, Row
<1>3. Merged(row, d) \in Row
  BY <1>2 DEF Merged, Row
<1>4. /\ d.email = NULL => Merged(row, d).email = row.email
      /\ d.role = NULL => Merged(row, d).role = row.role
      /\ Merged(row, d).lastLogout = row.lastLogout
  BY DEF Merged, Given
<1>5. QED
  BY <1>3, <1>4 DEF Columns

LEMMA UpdateInv ==
    ASSUME Inv, NEW r \in Request, NEW i \in Nat, NEW d \in Dto, Update(r, i, d)
    PROVE  Inv'
<1> DEFINE columns == {c \in {"email", "role"} : d[c] # NULL}
<1>1. /\ TypeOK /\ entity[r] \in Row \cup {NoRow}
      /\ date[r] \in Nat /\ date[r] <= now /\ date' = [date EXCEPT ![r] = date[r]]
  BY InvParts DEF TypeOK, RequestOK, HandlerOK, Update
<1>2. columns \in SUBSET Columns /\ "lastLogout" \notin columns
  BY DEF Columns
<1>3. CASE ~ Exists(i)
  <2>1. Begun(r, "update", i, columns, entity[r], date[r], "notFound")
    BY <1>1, <1>3 DEF Update, Begun, Goto, TypeOK
  <2>2. QED
    BY <1>1, <1>2, <2>1, BeginInv
<1>4. CASE Exists(i)
  <2>1. users[i] \in Row
    BY <1>1, <1>4, ExistingRow
  <2>2. /\ Merged(users[i], d) \in Row
        /\ \A c \in Columns \ columns : Merged(users[i], d)[c] = users[i][c]
    BY <2>1, MergedRow DEF Columns
  <2>3. Begun(r, "update", i, columns, Merged(users[i], d), date[r], "select")
    BY <1>1, <1>2, <1>4, <2>2 DEF Update, Begun, Goto
  <2>4. QED
    BY <1>1, <1>2, <2>2, <2>3, BeginInv
<1>5. QED
  BY <1>3, <1>4

LEMMA LogoutInv ==
    ASSUME Inv, NEW r \in Request, NEW i \in Nat, Logout(r, i)
    PROVE  Inv'
<1>1. /\ entity[r] \in Row \cup {NoRow} /\ entity' = [entity EXCEPT ![r] = entity[r]]
      /\ now \in Nat /\ now <= now
  BY InvParts DEF TypeOK, Logout
<1>2. Begun(r, "logout", i, {"lastLogout"}, entity[r], now, "find")
  BY <1>1 DEF Logout, Begun, Goto
<1>3. {"lastLogout"} \in SUBSET Columns
  BY DEF Columns
<1>4. QED
  BY <1>1, <1>2, <1>3, BeginInv

LEMMA RemoveInv ==
    ASSUME Inv, NEW r \in Request, NEW i \in Nat, Remove(r, i)
    PROVE  Inv'
<1>1. /\ entity[r] \in Row \cup {NoRow} /\ entity' = [entity EXCEPT ![r] = entity[r]]
      /\ date[r] \in Nat /\ date[r] <= now /\ date' = [date EXCEPT ![r] = date[r]]
  BY InvParts DEF TypeOK, Remove, RequestOK, HandlerOK
<1>2. Begun(r, "remove", i, {}, entity[r], date[r], "delete")
  BY <1>1 DEF Remove, Begun, Goto
<1>3. QED
  BY <1>1, <1>2, BeginInv

\* What a logout finds has, with its own date, whatever older logouts wrote.
LEMMA LogoutFindInv ==
    ASSUME Inv, NEW r \in Request, LogoutFind(r)
    PROVE  Inv'
<1> USE InvParts
<1>1. /\ TypeOK /\ RequestOK(r) /\ HandlerOK(r) /\ pc[r] = "find"
      /\ op[r] = "logout" /\ asked[r] = {"lastLogout"} /\ date[r] \in Nat
  BY DEF LogoutFind, RequestOK, HandlerOK, TypeOK
<1>2. CASE ~ Exists(id[r])
  <2>1. /\ UNCHANGED <<users, op, id, entity, loaded, date, asked, overtook, now, starts, boot>>
        /\ pc' = [pc EXCEPT ![r] = "notFound"]
    BY <1>2 DEF LogoutFind, Goto
  <2>2. pc' \in [Request -> Label] /\ \A q \in Request : Fails(q)
    BY <1>1, <2>1 DEF TypeOK, Label, Answer, Fails
  <2>3. QED
    BY <1>1, <2>1, <2>2, QuietInv DEF TypeOK
<1>3. CASE Exists(id[r])
  <2> DEFINE row == users[id[r]]  e == [row EXCEPT !.lastLogout = date[r]]
  <2>1. row \in Row /\ id[r] \in 1..Len(users)
    BY <1>1, <1>3, ExistingRow
  <2>2. e \in Row /\ e.lastLogout = date[r] /\ \A c \in Columns \ {"lastLogout"} : e[c] = row[c]
    BY <1>1, <2>1 DEF Row, Columns
  <2>3. pc' = [pc EXCEPT ![r] = "select"] /\ entity' = [entity EXCEPT ![r] = e]
    BY <1>3 DEF LogoutFind, Goto
  <2>4. Alone(r) /\ pc'[r] = "select" /\ entity'[r] = e
    <3> HIDE DEF e
    <3>1. QED
      BY <1>1, <2>2, <2>3 DEF LogoutFind, Alone, TypeOK, Label, InFlight
  <2>5. UNCHANGED <<users, id, op, date, now, asked, overtook, loaded>>
    BY DEF LogoutFind
  <2>6. HandlerOK(r)'
    <3>1. \A s \in overtook'[r] : pc'[s] = "ok"
      BY <1>1, <2>4, <2>5 DEF HandlerOK, Alone, TypeOK
    <3>2. QED
      <4> HIDE DEF e
      <4> QED
        BY <1>1, <2>1, <2>2, <2>4, <2>5, <3>1 DEF HandlerOK, Holding
  <2>7. FreshOK(r)'
    <3> HIDE DEF e
    <3> QED
      BY <1>1, <1>3, <2>2, <2>4, <2>5 DEF FreshOK, Exists
  <2>8. ASSUME NEW q \in Request \ {r}
        PROVE  PairOK(q, r)'
    <3>1. (WrittenOver(q) => WrittenOver(q)') /\ (Excused(q) => Excused(q)')
      BY <1>1, <2>4, <2>5, ExcusesLast DEF Alone
    <3>2. RequestOK(q) /\ PairOK(q, r) /\ pc'[q] = pc[q]
      BY <2>4 DEF Alone
    <3>3. RemovalOK(q, r)'
      BY <1>3, <2>5, <3>1, <3>2 DEF RemovalOK, RequestOK, RemovalKept
    <3>4. LogoutOK(q, r)'
      <4>1. date[r] # NULL
        BY <1>1, NULLAssumption
      <4>2. QED
        <5> HIDE DEF e
        <5> QED
          BY <1>1, <2>2, <2>4, <2>5, <3>1, <3>2, <4>1 DEF LogoutOK, PairOK
    <3>5. QED
      BY <3>3, <3>4 DEF PairOK
  <2>9. QED
    BY <1>1, <2>4, <2>6, <2>7, <2>8, AloneInv
<1>4. QED
  BY <1>2, <1>3

\* The SELECT of save sees the row, or finds that somebody has deleted it.
LEMMA SelectInv ==
    ASSUME Inv, NEW r \in Request, Select(r)
    PROVE  Inv'
<1> USE InvParts
<1>1. /\ TypeOK /\ HandlerOK(r) /\ FreshOK(r) /\ pc[r] = "select"
      /\ UNCHANGED <<users, op, id, entity, date, now, asked, overtook>>
  BY DEF Select, RequestOK
<1>2. PICK label \in {"revive", "update"} :
         /\ pc' = [pc EXCEPT ![r] = label]
         /\ label = "revive" => ~ Exists(id[r]) /\ loaded' = loaded
         /\ label = "update" => /\ Exists(id[r])
                                /\ loaded' = [loaded EXCEPT ![r] = users[id[r]]]
  BY DEF Select, Goto
<1>3. Exists(id[r]) => users[id[r]] \in Row
  BY <1>1, ExistingRow
<1>4. Alone(r) /\ pc'[r] = label /\ (label = "update" => loaded'[r] = users[id[r]])
  BY <1>1, <1>2, <1>3 DEF Select, Alone, TypeOK, Label, InFlight
<1>5. HandlerOK(r)'
  <2>1. \A s \in overtook'[r] : pc'[s] = "ok"
    BY <1>1, <1>4 DEF HandlerOK, Alone, TypeOK
  <2>2. QED
    BY <1>1, <1>2, <1>3, <1>4, <2>1 DEF HandlerOK, Holding
<1>6. FreshOK(r)'
  BY <1>1, <1>2, <1>4 DEF FreshOK, Exists, Holding
<1>7. ASSUME NEW q \in Request \ {r}
      PROVE  PairOK(q, r)'
  <2>1. (WrittenOver(q) => WrittenOver(q)') /\ (Excused(q) => Excused(q)')
    BY <1>1, <1>4, ExcusesLast DEF Alone
  <2>2. PairOK(q, r) /\ pc'[q] = pc[q]
    BY <1>4 DEF Alone
  <2>3. QED
    BY <1>1, <1>4, <2>1, <2>2 DEF PairOK, RemovalOK, LogoutOK, Holding
<1>8. QED
  BY <1>1, <1>4, <1>5, <1>6, <1>7, AloneInv

----------------------------------------------------------------------------
(* Statements on a row *)

\* r has written row to the row it is about, which is NoRow for a removal.
\* What it writes over a logout's date is its entity's date or what it found.
Wrote(r, row) ==
    /\ Write(r, [users EXCEPT ![id[r]] = row])
    /\ UNCHANGED <<now, boot, starts, op, id, entity, loaded, date, asked>>
    /\ id[r] \in 1..Len(users)
    /\ op[r] = "remove" => row = NoRow
    /\ row # NoRow =>
          /\ pc[r] \in Holding
          /\ row.lastLogout = entity[r].lastLogout
                \/ (Exists(id[r]) /\ row.lastLogout = users[id[r]].lastLogout)
          /\ op[r] = "logout" /\ overtook[r] = {} => row.lastLogout = date[r]

LEMMA WroteInv ==
    ASSUME Inv, NEW r \in Request, NEW row \in Row \cup {NoRow},
           pc[r] \in {"update", "revive", "delete"}, Wrote(r, row)
    PROVE  Inv'
<1> USE InvParts
<1>1. /\ TypeOK /\ RequestOK(r) /\ HandlerOK(r) /\ FreshOK(r)
      /\ UNCHANGED <<now, op, id, entity, loaded, date, asked>>
      /\ users' = [users EXCEPT ![id[r]] = row] /\ id[r] \in 1..Len(users)
      /\ pc' = [pc EXCEPT ![r] = "ok"] /\ pc'[r] = "ok"
  BY DEF TypeOK, Wrote, Write, Goto, RequestOK
<1>2. TypeOK'
  BY <1>1 DEF TypeOK, Wrote, Write, Answer
<1>3. /\ Len(users') = Len(users) /\ users'[id[r]] = row
      /\ \A i \in 1..Len(users) : i # id[r] => users'[i] = users[i]
      /\ Exists(id[r])' => row # NoRow
      /\ \A i : i # id[r] => (Exists(i)' <=> Exists(i))
  BY <1>1 DEF TypeOK, Exists
<1>4. ASSUME NEW q \in Request \ {r}
      PROVE  /\ pc'[q] = pc[q]
             /\ overtook'[q] = IF pc[q] \in InFlight /\ id[q] = id[r]
                               THEN overtook[q] \cup {r} ELSE overtook[q]
  BY DEF Wrote, Write, Goto, TypeOK
<1>5. overtook'[r] = overtook[r]
  BY DEF Wrote, Write
<1>6. ASSUME NEW q \in Request
      PROVE  (WrittenOver(q) => WrittenOver(q)') /\ (Excused(q) => Excused(q)')
  <2>1. \A s \in Request : /\ pc[s] = "ok" => pc'[s] = "ok" /\ id'[s] = id[s]
                           /\ overtook[s] \subseteq overtook'[s]
    BY <1>1, <1>4, <1>5
  <2>2. QED
    BY <1>1, <2>1, ExcusesLast
\* Whoever had overtaken r is now written over.
<1>7. ASSUME NEW q \in Request, q \in overtook[r], id[q] = id[r]
      PROVE  WrittenOver(q)'
  BY <1>1, <1>5, <1>7 DEF WrittenOver
<1>8. ASSUME NEW q \in Request
      PROVE  HandlerOK(q)'
  <2>1. HandlerOK(q)
    BY DEF RequestOK
  <2>2. ASSUME NEW s \in overtook'[q]
        PROVE  pc'[s] = "ok"
    <3>1. s \in Request /\ (s = r \/ s \in overtook[q])
      BY <1>2, <1>4, <1>5, <2>2 DEF TypeOK
    <3>2. QED
      BY <1>1, <1>4, <2>1, <3>1 DEF HandlerOK
  <2>3. CASE q = r
    BY <1>1, <1>3, <2>1, <2>2, <2>3 DEF HandlerOK, Holding
  <2>4. CASE q # r
    BY <1>1, <1>3, <1>4, <2>1, <2>2, <2>4 DEF HandlerOK
  <2>5. QED
    BY <2>3, <2>4
<1>9. ASSUME NEW q \in Request
      PROVE  FreshOK(q)'
  <2>1. CASE q = r
    BY <1>1, <2>1 DEF FreshOK, Holding
  <2>2. CASE q # r /\ id[q] = id[r]
    BY <1>1, <1>4, <2>2 DEF FreshOK, Holding, InFlight
  <2>3. CASE q # r /\ id[q] # id[r]
    <3>1. FreshOK(q) /\ HandlerOK(q)
      BY DEF RequestOK
    <3>2. pc[q] \in Holding => users'[id[q]] = users[id[q]]
      BY <1>3, <2>3, <3>1 DEF HandlerOK
    <3>3. overtook'[q] = overtook[q]
      BY <1>4, <2>3
    <3>4. QED
      BY <1>1, <1>3, <1>4, <2>3, <3>1, <3>2, <3>3 DEF FreshOK
  <2>4. QED
    BY <2>1, <2>2, <2>3
<1>10. ASSUME NEW q \in Request
       PROVE  RemovalKept(q)'
  <2>1. CASE q = r
    BY <1>1, <1>3, <2>1 DEF RemovalKept, Wrote
  <2>2. CASE q # r /\ id[q] # id[r]
    <3>1. RemovalKept(q)
      BY DEF RequestOK
    <3>2. QED
      BY <1>1, <1>3, <1>4, <1>6, <2>2, <3>1 DEF RemovalKept
  <2>3. CASE q # r /\ id[q] = id[r]
    <3>1. ASSUME op[q] = "remove", pc[q] = "ok", row # NoRow
          PROVE  WrittenOver(q)'
      <4>1. RemovalOK(q, r) /\ pc[r] \in Holding
        BY <3>1 DEF PairOK, Wrote
      <4>2. q \in overtook[r] \/ WrittenOver(q)
        BY <2>3, <3>1, <4>1 DEF RemovalOK
      <4>3. QED
        BY <1>6, <1>7, <2>3, <4>2
    <3>2. QED
      BY <1>1, <1>3, <1>4, <2>3, <3>1 DEF RemovalKept
  <2>4. QED
    BY <2>1, <2>2, <2>3
<1>11. ASSUME NEW q \in Request
       PROVE  LogoutKept(q)'
  <2>1. CASE q = r
    <3>1. ASSUME op[r] = "logout", row # NoRow, overtook[r] = {}
          PROVE  row.lastLogout # NULL /\ row.lastLogout >= date[r]
      BY <1>1, <3>1, NULLAssumption DEF Wrote, TypeOK
    <3>2. QED
      BY <1>1, <1>3, <1>5, <2>1, <3>1 DEF LogoutKept, Excused
  <2>2. CASE q # r /\ id[q] # id[r]
    <3>1. LogoutKept(q) /\ HandlerOK(q)
      BY DEF RequestOK
    <3>2. Exists(id[q]) => users'[id[q]] = users[id[q]]
      BY <1>3, <2>2 DEF Exists
    <3>3. QED
      BY <1>1, <1>3, <1>4, <1>6, <2>2, <3>1, <3>2 DEF LogoutKept
  <2>3. CASE q # r /\ id[q] = id[r]
    <3>1. ASSUME op[q] = "logout", pc[q] = "ok", row # NoRow, ~ Excused(q)'
          PROVE  row.lastLogout # NULL /\ row.lastLogout >= date[q]
      <4>1. ~ Excused(q) /\ q \notin overtook[r]
        BY <1>6, <1>7, <2>3, <3>1 DEF Excused
      <4>2. CASE row.lastLogout = entity[r].lastLogout
        <5>1. LogoutOK(q, r) /\ pc[r] \in Holding
          BY <3>1 DEF PairOK, Wrote
        <5>2. QED
          BY <2>3, <3>1, <4>1, <4>2, <5>1 DEF LogoutOK
      <4>3. CASE Exists(id[r]) /\ row.lastLogout = users[id[r]].lastLogout
        <5>1. LogoutKept(q)
          BY DEF RequestOK
        <5>2. QED
          BY <2>3, <3>1, <4>1, <4>3, <5>1 DEF LogoutKept
      <4>4. QED
        BY <3>1, <4>2, <4>3 DEF Wrote
    <3>2. QED
      BY <1>1, <1>3, <1>4, <2>3, <3>1 DEF LogoutKept
  <2>4. QED
    BY <2>1, <2>2, <2>3
<1>12. ASSUME NEW q \in Request, NEW s \in Request
       PROVE  PairOK(q, s)'
  <2>1. CASE s = r
    BY <1>1, <2>1 DEF PairOK, RemovalOK, LogoutOK, Holding
  <2>2. CASE s # r /\ q = r
    <3>1. id'[s] = id'[r] /\ pc'[s] \in Holding \cup {"find"} => r \in overtook'[s]
      BY <1>1, <1>4, <2>2 DEF Holding, InFlight
    <3>2. QED
      BY <2>2, <3>1 DEF PairOK, RemovalOK, LogoutOK
  <2>3. CASE s # r /\ q # r
    <3>1. PairOK(q, s)
      OBVIOUS
    <3>2. overtook[s] \subseteq overtook'[s]
      BY <1>4, <2>3
    <3>3. QED
      BY <1>1, <1>4, <1>6, <2>3, <3>1, <3>2 DEF PairOK, RemovalOK, LogoutOK
  <2>4. QED
    BY <2>1, <2>2, <2>3
<1>13. QED
  BY <1>2, <1>8, <1>9, <1>10, <1>11, <1>12
     DEF RequestOK, PairOK, LogoutKept, RemovalKept, Excused, Inv, LogoutLostOnlyInRace,
         RemovedReturnsOnlyInRace

\* A statement that PostgreSQL refuses, or that finds nothing to delete.
LEMMA RefusedInv ==
    ASSUME Inv, NEW r \in Request, pc[r] \in InFlight, NEW label \in Answer \ {"ok"},
           pc' = [pc EXCEPT ![r] = label],
           UNCHANGED <<now, users, boot, starts, op, id, entity, loaded, date, asked, overtook>>
    PROVE  Inv'
<1>1. TypeOK /\ pc' \in [Request -> Label] /\ \A q \in Request : Fails(q)
  BY InvParts DEF TypeOK, Label, Fails, InFlight
<1>2. QED
  BY <1>1, QuietInv DEF TypeOK

LEMMA InsertInv ==
    ASSUME Inv, NEW r \in Request, Insert(r)
    PROVE  Inv'
<1>1. TypeOK /\ HandlerOK(r) /\ pc[r] = "create"
  BY InvParts DEF RequestOK, Insert
<1>2. CASE Conflict(r)
  BY <1>1, <1>2, RefusedInv DEF Insert, Conflict, Goto, InFlight, Answer
<1>3. CASE users' = Append(users, entity[r]) /\ Goto(r, "ok") /\ UNCHANGED overtook
  <2>1. entity[r] \in Row /\ op[r] = "create"
    BY <1>1 DEF HandlerOK
  <2>2. pc' \in [Request -> Label] /\ \A q \in Request : Creates(q)
    BY <1>1, <1>3, <2>1 DEF TypeOK, Label, Answer, Creates, Goto
  <2>3. UNCHANGED <<now, boot, starts, op, id, entity, loaded, date, asked, overtook>>
    BY <1>3 DEF Insert
  <2>4. QED
    BY <1>1, <1>3, <2>1, <2>2, <2>3, AppendInv DEF TypeOK
<1>4. QED
  BY <1>2, <1>3 DEF Insert

\* The row of an UPDATE, column by column.
LEMMA SavedFields ==
    ASSUME NEW r \in Request, users[id[r]] \in Row, loaded[r] \in Row, entity[r] \in Row
    PROVE  LET row == users[id[r]]
           IN  /\ Saved(r) \in Row
               /\ \A c \in Columns : Saved(r)[c] = SavedColumn(row[c], loaded[r][c], entity[r][c])
<1> DEFINE row == users[id[r]]
<1>1. Saved(r) = [email |-> SavedColumn(row.email, loaded[r].email, entity[r].email),
                  role |-> SavedColumn(row.role, loaded[r].role, entity[r].role),
                  lastLogout |-> SavedColumn(row.lastLogout, loaded[r].lastLogout, entity[r].lastLogout)]
  BY DEF Saved, Columns
<1>2. Saved(r) \in Row
  BY <1>1 DEF SavedColumn, Row
<1>3. QED
  BY <1>2 DEF Saved

LEMMA SaveInv ==
    ASSUME Inv, NEW r \in Request, Save(r)
    PROVE  Inv'
<1>1. /\ TypeOK /\ HandlerOK(r) /\ FreshOK(r) /\ pc[r] = "update"
      /\ UNCHANGED <<now, boot, starts, op, id, entity, loaded, date, asked>>
  BY InvParts DEF RequestOK, Save
<1>2. /\ op[r] \in {"update", "logout"} /\ id[r] \in 1..Len(users)
      /\ entity[r] \in Row /\ loaded[r] \in Row
      /\ op[r] = "logout" => entity[r].lastLogout = date[r]
  BY <1>1 DEF HandlerOK, Holding
<1>3. CASE Conflict(r)
  BY <1>1, <1>3, RefusedInv DEF Conflict, Goto, InFlight, Answer
<1>4. CASE ~ Exists(id[r]) /\ Write(r, users)
  <2>1. users[id[r]] = NoRow
    BY <1>2, <1>4 DEF Exists
  <2>2. users = [users EXCEPT ![id[r]] = NoRow]
    BY <1>1, <1>2, <2>1 DEF TypeOK
  <2>3. Wrote(r, NoRow)
    BY <1>1, <1>2, <1>4, <2>2 DEF Wrote
  <2>4. QED
    BY <1>1, <2>3, WroteInv
<1>5. CASE Exists(id[r]) /\ Write(r, [users EXCEPT ![id[r]] = Saved(r)])
  <2>1. users[id[r]] \in Row
    BY <1>1, <1>5, ExistingRow
  <2>2. /\ Saved(r) \in Row
        /\ Saved(r).lastLogout = SavedColumn(users[id[r]].lastLogout, loaded[r].lastLogout,
                                             entity[r].lastLogout)
    BY <1>2, <2>1, SavedFields DEF Columns
  <2>3. overtook[r] = {} => loaded[r] = users[id[r]]
    BY <1>1 DEF FreshOK, Holding
  <2>4. Wrote(r, Saved(r))
    <3> HIDE DEF Saved
    <3> QED
      BY <1>1, <1>2, <1>5, <2>2, <2>3 DEF Wrote, Holding, SavedColumn
  <2>5. QED
    BY <1>1, <2>2, <2>4, WroteInv
<1>6. QED
  BY <1>3, <1>4, <1>5 DEF Save

LEMMA ReviveInv ==
    ASSUME Inv, NEW r \in Request, Revive(r)
    PROVE  Inv'
<1>1. /\ TypeOK /\ HandlerOK(r) /\ FreshOK(r) /\ pc[r] = "revive"
      /\ UNCHANGED <<now, boot, starts, op, id, entity, loaded, date, asked>>
  BY InvParts DEF RequestOK, Revive
<1>2. CASE Conflict(r)
  BY <1>1, <1>2, RefusedInv DEF Conflict, Goto, InFlight, Answer
<1>3. CASE Write(r, [users EXCEPT ![id[r]] = entity[r]])
  <2>1. /\ op[r] \in {"update", "logout"} /\ id[r] \in 1..Len(users) /\ entity[r] \in Row
        /\ op[r] = "logout" => entity[r].lastLogout = date[r]
    BY <1>1 DEF HandlerOK, Holding
  <2>2. Wrote(r, entity[r])
    BY <1>1, <1>3, <2>1 DEF Wrote, Holding
  <2>3. QED
    BY <1>1, <2>1, <2>2, WroteInv
<1>4. QED
  BY <1>2, <1>3 DEF Revive

LEMMA DeleteInv ==
    ASSUME Inv, NEW r \in Request, Delete(r)
    PROVE  Inv'
<1>1. /\ TypeOK /\ HandlerOK(r) /\ pc[r] = "delete"
      /\ UNCHANGED <<now, boot, starts, op, id, entity, loaded, date, asked>>
  BY InvParts DEF RequestOK, Delete
<1>2. CASE ~ Exists(id[r])
  BY <1>1, <1>2, RefusedInv DEF Delete, Goto, InFlight, Answer
<1>3. CASE Exists(id[r])
  <2>1. Wrote(r, NoRow)
    BY <1>1, <1>3 DEF Delete, Wrote, Exists
  <2>2. QED
    BY <1>1, <2>1, WroteInv
<1>4. QED
  BY <1>2, <1>3

----------------------------------------------------------------------------
(* The specification *)

LEMMA InitInv == ASSUME Init PROVE Inv
<1>1. TypeOK
  BY DEF Init, TypeOK, Columns
<1>2. QED
  BY <1>1, InvParts DEF Init, RequestOK, PairOK, HandlerOK, FreshOK, LogoutKept, RemovalKept,
                        RemovalOK, LogoutOK, Holding

\* onModuleInit, restarts and the clock.
LEMMA ServiceInv ==
    ASSUME Inv, Seed \/ SeedFails \/ Restart \/ Tick
    PROVE  Inv'
<1>1. TypeOK
  BY InvParts
<1>2. CASE Seed
  <2>1. PICK row \in Row : users' = users \/ users' = Append(users, row)
    <3>1. NewUser(AdminEmail, Admin) \in Row /\ NewUser(TestEmail, Student) \in Row
      BY SeedAssumption DEF NewUser, Row
    <3>2. QED
      BY <1>2, <3>1 DEF Seed, SeedUser
  <2>2. /\ UNCHANGED <<now, starts, pc, op, id, entity, loaded, date, asked, overtook>>
        /\ boot' \in {"admin", "test", "up"} /\ now \in Nat /\ now <= now
        /\ starts \in Nat /\ pc \in [Request -> Label]
    BY <1>1, <1>2 DEF Seed, request, TypeOK, Label
  <2>3. \A q \in Request : Fails(q) /\ Creates(q)
    BY <2>2 DEF Fails, Creates
  <2>4. CASE users' = users
    BY <2>2, <2>3, <2>4, QuietInv
  <2>5. CASE users' = Append(users, row)
    BY <2>2, <2>3, <2>5, AppendInv
  <2>6. QED
    BY <2>1, <2>4, <2>5
<1>3. CASE SeedFails \/ Tick \/ Restart
  <2>1. /\ UNCHANGED <<users, op, id, entity, loaded, date, asked, overtook>>
        /\ now' \in Nat /\ now <= now' /\ starts' \in Nat /\ boot' \in {"admin", "test", "up"}
    BY <1>1, <1>3 DEF SeedFails, Tick, Restart, request, TypeOK
  <2>2. pc' = pc \/ pc' = [q \in Request |-> IF pc[q] \in InFlight THEN "failed" ELSE pc[q]]
    BY <1>3 DEF SeedFails, Tick, Restart, request
  <2>3. pc' \in [Request -> Label] /\ \A q \in Request : Fails(q)
    BY <1>1, <2>2 DEF TypeOK, Label, Fails, InFlight, Answer
  <2>4. QED
    BY <2>1, <2>3, QuietInv
<1>4. QED
  BY <1>2, <1>3

LEMMA NextInv == ASSUME Inv, [Next]_vars PROVE Inv'
<1>1. CASE UNCHANGED vars
  <2>1. TypeOK
    BY InvParts
  <2>2. UNCHANGED <<now, users, boot, starts, pc, op, id, entity, loaded, date, asked, overtook>>
    BY <1>1 DEF vars, request
  <2>3. /\ now' \in Nat /\ now <= now' /\ starts' \in Nat /\ boot' \in {"admin", "test", "up"}
        /\ pc' \in [Request -> Label] /\ \A q \in Request : Fails(q)
    BY <2>1, <2>2 DEF TypeOK, Label, Fails
  <2>4. QED
    BY <2>2, <2>3, QuietInv
<1>2. CASE Seed \/ SeedFails \/ Restart \/ Tick
  BY <1>2, ServiceInv
<1>3. ASSUME NEW r \in Request, Begins(r)
      PROVE  Inv'
  <2>1. \A i \in 1..(Len(users) + 1) : i \in Nat
    OBVIOUS
  <2>2. QED
    BY <1>3, <2>1, CreateInv, UpdateInv, LogoutInv, RemoveInv DEF Begins
<1>4. ASSUME NEW r \in Request, Step(r)
      PROVE  Inv'
  BY <1>4, LogoutFindInv, InsertInv, SelectInv, SaveInv, ReviveInv, DeleteInv DEF Step
<1>5. ASSUME NEW r \in Request, Abort(r)
      PROVE  Inv'
  BY <1>5, RefusedInv DEF Abort, Goto, Answer
<1>6. QED
  BY <1>1, <1>2, <1>3, <1>4, <1>5 DEF Next

\* The inductive invariant: until somebody overtakes a handler, its entity
\* differs from the row in what its body names only; and whoever may take a
\* removal or the date of a logout back has been overtaken by it.
THEOREM UsersInvariant == Spec => []Inv
<1>1. QED
  BY InitInv, NextInv, PTL DEF Spec

\* Every reachable state is well typed.
THEOREM UsersTypeCorrect == Spec => []TypeOK
<1>1. Inv => TypeOK
  BY DEF Inv
<1>2. QED
  BY <1>1, UsersInvariant, PTL

\* The date of an acknowledged logout is missing from the row only after a race
\* with another request on the same user (users.service.ts 25-32, 161-172).
THEOREM LogoutsAreLostInRaces == Spec => []LogoutLostOnlyInRace
<1>1. Inv => LogoutLostOnlyInRace
  BY DEF Inv
<1>2. QED
  BY <1>1, UsersInvariant, PTL

\* A removed user is back only if a request that was in flight at the removal
\* inserted the entity it held (users.service.ts 172, 179).
THEOREM RemovedReturnInRaces == Spec => []RemovedReturnsOnlyInRace
<1>1. Inv => RemovedReturnsOnlyInRace
  BY DEF Inv
<1>2. QED
  BY <1>1, UsersInvariant, PTL

\* r's write of a column that its body does not name, into the row i.
UnaskedWrite(i, c) ==
    \E r \in Request : id[r] = i /\ pc[r] = "update" /\ (c \in asked[r] \/ overtook[r] # {})

\* r's UPDATE puts what it saves into the row i.
Saves(r, i) ==
    /\ Save(r) /\ pc[r] = "update" /\ id[r] = i /\ Exists(i)
    /\ users' = [users EXCEPT ![i] = Saved(r)] /\ users'[i] = Saved(r)

\* Only the UPDATE of save changes a row that stays: appending, inserting a
\* deleted row again and deleting do not.
LEMMA ChangedBySave ==
    ASSUME Inv, [Next]_vars, NEW i \in 1..Len(users),
           users[i] # NoRow, users'[i] # NoRow, users'[i] # users[i]
    PROVE  \E r \in Request : Saves(r, i)
<1>0. TypeOK /\ users \in Seq(Row \cup {NoRow})
  BY InvParts DEF TypeOK
<1>1. TypeOK /\ Exists(i) /\ users' # users /\ \A row \in Row : users' # Append(users, row)
  <2>1. \A row \in Row : Append(users, row)[i] = users[i]
    BY <1>0
  <2> QED BY <1>0, <2>1 DEF Exists
<1>2. CASE Seed
  BY <1>1, <1>2, SeedAssumption DEF Seed, SeedUser, NewUser, Row
<1>3. ASSUME NEW r \in Request, Step(r)
      PROVE  Saves(r, i)
  <2>1. HandlerOK(r)
    BY InvParts DEF RequestOK
  <2>2. CASE Insert(r)
    BY <1>1, <2>1, <2>2 DEF Insert, Conflict, HandlerOK
  <2>3. CASE Revive(r) \/ Delete(r)
    BY <1>1, <2>3 DEF Revive, Delete, Conflict, Write, TypeOK, Exists
  <2>4. CASE Save(r)
    <3>1. /\ pc[r] = "update" /\ users' = [users EXCEPT ![id[r]] = Saved(r)] /\ Exists(id[r])
      BY <1>1, <2>4 DEF Save, Conflict, Write
    <3>2. id[r] = i /\ users'[i] = Saved(r)
      BY <1>1, <3>1 DEF TypeOK
    <3> QED BY <2>4, <3>1, <3>2 DEF Saves
  <2>5. CASE LogoutFind(r) \/ Select(r)
    BY <1>1, <2>5 DEF LogoutFind, Select
  <2>6. QED
    BY <1>3, <2>2, <2>3, <2>4, <2>5 DEF Step
<1>4. ASSUME NEW r \in Request, Begins(r) \/ Abort(r)
      PROVE  FALSE
  BY <1>1, <1>4 DEF Begins, Create, Update, Logout, Remove, Begin, Abort
<1>5. QED
  BY <1>1, <1>2, <1>3, <1>4 DEF Next, SeedFails, Restart, Tick, vars

\* What such a save leaves in a column; the row is as it loaded it, and the
\* entity differs from it in what the body names, unless it was overtaken.
LEMMA SavedCell ==
    ASSUME Inv, NEW r \in Request, NEW i \in 1..Len(users), Saves(r, i), NEW c \in Columns
    PROVE  /\ users'[i][c] = SavedColumn(users[i][c], loaded[r][c], entity[r][c])
           /\ overtook[r] = {} => loaded[r] = users[i]
           /\ c \notin asked[r] /\ overtook[r] = {} => entity[r][c] = users[i][c]
<1>1. FreshOK(r)
  BY InvParts DEF RequestOK
<1>2. users'[i][c] = SavedColumn(users[i][c], loaded[r][c], entity[r][c])
  BY DEF Saves, Saved
<1> QED BY <1>1, <1>2 DEF FreshOK, Holding, Saves

LEMMA UnaskedStep ==
    ASSUME Inv, [Next]_vars, NEW i \in 1..Len(users), NEW c \in Columns,
           users[i] # NoRow, users'[i] # NoRow, users'[i][c] # users[i][c]
    PROVE  UnaskedWrite(i, c)
<1>1. PICK r \in Request : Saves(r, i)
  BY ChangedBySave
<1>2. c \in asked[r] \/ overtook[r] # {}
  BY <1>1, SavedCell DEF SavedColumn
<1> QED BY <1>1, <1>2 DEF UnaskedWrite, Saves

\* A column that a body does not name changes only in a race: save takes it back
\* to what the entity held (users.service.ts 163-172).
THEOREM UnaskedWritesAreRaces == Spec => UnaskedOnlyInRace
<1> DEFINE Act == \A i \in 1..Len(users) : \A c \in Columns :
                     users[i] # NoRow /\ users'[i] # NoRow /\ users'[i][c] # users[i][c] =>
                        \E r \in Request : /\ id[r] = i /\ pc[r] = "update"
                                           /\ c \in asked[r] \/ overtook[r] # {}
<1>1. Inv /\ [Next]_vars => [Act]_vars
  BY UnaskedStep DEF UnaskedWrite
<1>2. QED
  BY <1>1, UsersInvariant, PTL DEF Spec, UnaskedOnlyInRace

----------------------------------------------------------------------------
(* The dates of logouts *)

\* The date of a logout that a row shows is replaced by an older one, or
\* erased, only by a save that another request's write of the row overtook.
LogoutDatesGoBackInRaces ==
    [][\A i \in 1..Len(users) :
          LET old == users[i].lastLogout  new == users'[i].lastLogout
          IN  old # NULL /\ users'[i] # NoRow /\ new # old =>
                 \/ new # NULL /\ new >= old
                 \/ \E r \in Request : id[r] = i /\ pc[r] = "update" /\ overtook[r] # {}]_vars

\* No date lies in the future.
PastOrNULL(d) == d # NULL => d <= now

\* r is a logout on its way to a row that nobody has written meanwhile.
AloneAtRow(r) ==
    /\ op[r] = "logout" /\ pc[r] \in {"find"} \cup Holding /\ overtook[r] = {}
    /\ id[r] \in 1..Len(users)

\* A logout that nobody has overtaken finds no date later than its own.
DatedOK(r) ==
    /\ op[r] = "update" => "lastLogout" \notin asked[r]
    /\ pc[r] = "create" => entity[r].lastLogout = NULL
    /\ PastOrNULL(entity[r].lastLogout)
    /\ AloneAtRow(r) /\ users[id[r]].lastLogout # NULL => users[id[r]].lastLogout <= date[r]

DateInv ==
    /\ \A i \in 1..Len(users) : PastOrNULL(users[i].lastLogout)
    /\ \A r \in Request : DatedOK(r)

LEMMA RowDates ==
  ASSUME TypeOK
  PROVE  /\ now \in Nat /\ users \in Seq(Row \cup {NoRow})
         /\ \A i \in 1..Len(users) : users[i] \in Row \cup {NoRow}
                                     /\ users[i].lastLogout \in Nat \cup {NULL}
         /\ NoRow.lastLogout = NULL
         /\ \A r \in Request : /\ date[r] \in Nat /\ id[r] \in Nat
                               /\ entity[r] \in Row \cup {NoRow}
                               /\ entity[r].lastLogout \in Nat \cup {NULL}
  BY DEF TypeOK, Row, NoRow

\* Whatever leaves table, entities and dates alone, and starts nothing.
LEMMA DateQuiet ==
  ASSUME TypeOK, DateInv, now' \in Nat, now <= now',
         UNCHANGED <<users, op, id, entity, date, asked, overtook>>,
         \A q \in Request : pc'[q] = pc[q] \/ pc'[q] \notin {"create", "find"} \cup Holding
                               \/ {pc[q], pc'[q]} \subseteq Holding
  PROVE  DateInv'
<1>1. \A d \in Nat \cup {NULL} : PastOrNULL(d) => PastOrNULL(d)'
  BY RowDates DEF PastOrNULL
<1>2. ASSUME NEW q \in Request PROVE DatedOK(q)'
  <2>1. DatedOK(q)
    BY DEF DateInv
  <2>2. AloneAtRow(q)' => AloneAtRow(q)
    BY DEF AloneAtRow
  <2>3. pc'[q] = "create" => pc[q] = "create"
    BY DEF Holding
  <2> QED BY <1>1, <2>1, <2>2, <2>3, RowDates DEF DatedOK
<1> QED BY <1>1, <1>2, RowDates DEF DateInv

\* A step of one request that writes nothing: only its own dates are to be seen to.
LEMMA DateAlone ==
  ASSUME TypeOK, DateInv, NEW r \in Request, UNCHANGED <<now, users, overtook>>,
         \A q \in Request \ {r} : /\ pc'[q] = pc[q] /\ op'[q] = op[q] /\ id'[q] = id[q]
                                  /\ entity'[q] = entity[q] /\ date'[q] = date[q]
                                  /\ asked'[q] = asked[q],
         DatedOK(r)'
  PROVE  DateInv'
<1>1. ASSUME NEW q \in Request \ {r} PROVE DatedOK(q)'
  BY <1>1 DEF DateInv, DatedOK, AloneAtRow, PastOrNULL
<1> QED BY <1>1 DEF DateInv, PastOrNULL

LEMMA DateBegin ==
  ASSUME TypeOK, DateInv, NEW r \in Request, Begins(r)
  PROVE  DateInv'
<1>0. /\ pc \in [Request -> Label] /\ op \in [Request -> {"none", "create", "update", "remove", "logout"}]
      /\ id \in [Request -> Nat] /\ entity \in [Request -> Row \cup {NoRow}]
      /\ date \in [Request -> Nat] /\ asked \in [Request -> SUBSET Columns] /\ now \in Nat
  BY DEF TypeOK, Label
<1>1. /\ UNCHANGED <<now, users, overtook>>
      /\ \A q \in Request \ {r} : /\ pc'[q] = pc[q] /\ op'[q] = op[q] /\ id'[q] = id[q]
                                  /\ entity'[q] = entity[q] /\ date'[q] = date[q]
                                  /\ asked'[q] = asked[q]
  BY <1>0 DEF Begins, Create, Update, Logout, Remove, Begin, Goto
<1>2. PastOrNULL(entity[r].lastLogout)
  BY DEF DateInv, DatedOK
<1>3. ASSUME NEW email \in Email, Create(r, email) PROVE DatedOK(r)'
  <2>1. /\ op'[r] = "create" /\ pc'[r] = "create" /\ entity'[r] = NewUser(email, Student)
    BY <1>0, <1>3 DEF Create, Begin, Goto
  <2> QED BY <2>1 DEF DatedOK, AloneAtRow, NewUser, PastOrNULL
<1>4. ASSUME NEW i \in 1..(Len(users) + 1), NEW d \in Dto, Update(r, i, d) PROVE DatedOK(r)'
  <2>1. op'[r] = "update" /\ "lastLogout" \notin asked'[r] /\ pc'[r] # "create"
    BY <1>0, <1>4 DEF Update, Begin, Goto
  <2>2. PastOrNULL(entity'[r].lastLogout)
    <3>1. CASE entity' = entity
      BY <1>2, <3>1
    <3>2. CASE Exists(i) /\ entity' = [entity EXCEPT ![r] = Merged(users[i], d)]
      <4>1. entity'[r] = Merged(users[i], d) /\ i \in 1..Len(users)
        BY <1>0, <3>2 DEF Exists
      <4>2. entity'[r].lastLogout = users[i].lastLogout
        BY <4>1 DEF Merged
      <4> QED BY <4>1, <4>2 DEF DateInv
    <3> QED BY <1>4, <3>1, <3>2 DEF Update
  <2>3. PastOrNULL(entity[r].lastLogout)'
    BY <1>1, <2>2 DEF PastOrNULL
  <2> QED BY <2>1, <2>3 DEF DatedOK, AloneAtRow
<1>5. ASSUME NEW i \in 1..(Len(users) + 1), Logout(r, i) PROVE DatedOK(r)'
  <2>1. /\ op'[r] = "logout" /\ pc'[r] = "find" /\ id'[r] = i /\ entity' = entity /\ date'[r] = now
    BY <1>0, <1>5 DEF Logout, Begin, Goto
  <2>2. i \in 1..Len(users) => PastOrNULL(users[i].lastLogout)
    BY DEF DateInv
  <2> QED BY <1>1, <1>2, <2>1, <2>2 DEF DatedOK, AloneAtRow, PastOrNULL
<1>6. ASSUME NEW i \in 1..(Len(users) + 1), Remove(r, i) PROVE DatedOK(r)'
  <2>1. op'[r] = "remove" /\ pc'[r] = "delete" /\ entity' = entity
    BY <1>0, <1>6 DEF Remove, Begin, Goto
  <2> QED BY <1>1, <1>2, <2>1 DEF DatedOK, AloneAtRow, PastOrNULL
<1>7. DatedOK(r)'
  BY <1>3, <1>4, <1>5, <1>6 DEF Begins
<1> QED BY <1>1, <1>7, DateAlone

LEMMA DateFind ==
  ASSUME Inv, DateInv, NEW r \in Request, LogoutFind(r)
  PROVE  DateInv'
<1>0. /\ TypeOK /\ HandlerOK(r) /\ DatedOK(r) /\ pc[r] = "find" /\ op[r] = "logout"
      /\ date[r] \in Nat /\ date[r] <= now
  BY InvParts, RowDates DEF DateInv, RequestOK, HandlerOK, LogoutFind
<1>1. pc \in [Request -> Label] /\ entity \in [Request -> Row \cup {NoRow}]
  BY <1>0 DEF TypeOK, Label
<1>2. /\ UNCHANGED <<now, users, overtook, op, id, date, asked>>
      /\ \A q \in Request \ {r} : pc'[q] = pc[q] /\ entity'[q] = entity[q]
      /\ pc'[r] # "create"
  BY <1>1 DEF LogoutFind, Goto
<1>3. PastOrNULL(entity'[r].lastLogout)
  <2>1. CASE entity' = entity
    BY <1>0, <2>1 DEF DatedOK
  <2>2. CASE Exists(id[r]) /\ entity' = [entity EXCEPT ![r] = [users[id[r]] EXCEPT !.lastLogout = date[r]]]
    <3>1. users[id[r]] \in Row
      BY <1>0, <2>2, ExistingRow
    <3>2. entity'[r].lastLogout = date[r]
      BY <1>1, <2>2, <3>1 DEF Row
    <3> QED BY <1>0, <3>2 DEF PastOrNULL
  <2> QED BY <2>1, <2>2 DEF LogoutFind
<1>4. AloneAtRow(r)' => AloneAtRow(r)
  BY <1>0, <1>2 DEF AloneAtRow
<1>5. DatedOK(r)'
  BY <1>0, <1>2, <1>3, <1>4 DEF DatedOK, PastOrNULL
<1> QED BY <1>0, <1>2, <1>5, DateAlone

\* A write of r's row with a date from the past.
LEMMA DateWrite ==
  ASSUME Inv, DateInv, NEW r \in Request, NEW row \in Row \cup {NoRow}, pc[r] \in InFlight,
         PastOrNULL(row.lastLogout), Write(r, [users EXCEPT ![id[r]] = row]),
         UNCHANGED <<now, op, id, entity, date, asked>>
  PROVE  DateInv'
<1>0. /\ TypeOK /\ pc \in [Request -> Label] /\ users \in Seq(Row \cup {NoRow})
      /\ overtook \in [Request -> SUBSET Request] /\ id[r] \in Nat
  BY InvParts DEF TypeOK, Label
<1>1. /\ pc'[r] = "ok" /\ Len(users') = Len(users) /\ 1..Len(users') = 1..Len(users)
      /\ \A i \in 1..Len(users) : users'[i] = IF i = id[r] THEN row ELSE users[i]
      /\ \A q \in Request \ {r} : pc'[q] = pc[q]
  BY <1>0 DEF Write, Goto
<1>2. \A q \in Request \ {r} : pc[q] \in InFlight /\ id[q] = id[r] => r \in overtook'[q]
  BY <1>0 DEF Write
<1>3. \A q \in Request \ {r} : overtook'[q] = {} => overtook[q] = {}
  BY <1>0 DEF Write
<1>4. \A i \in 1..Len(users') : PastOrNULL(users'[i].lastLogout)
  BY <1>1 DEF DateInv
<1>5. ASSUME NEW q \in Request PROVE DatedOK(q)'
  <2>0. DatedOK(q)
    BY DEF DateInv
  <2>1. CASE q = r
    BY <1>1, <2>0, <2>1 DEF DatedOK, AloneAtRow, Holding, PastOrNULL
  <2>2. CASE q # r
    <3>1. AloneAtRow(q)' => AloneAtRow(q) /\ id[q] # id[r]
      BY <1>1, <1>2, <1>3, <2>2 DEF AloneAtRow, Holding, InFlight
    <3>2. AloneAtRow(q)' => users'[id[q]] = users[id[q]]
      BY <1>1, <3>1 DEF AloneAtRow
    <3> QED BY <1>1, <2>0, <2>2, <3>1, <3>2 DEF DatedOK, PastOrNULL
  <2> QED BY <2>1, <2>2
<1>6. \A i \in 1..Len(users') : PastOrNULL(users[i].lastLogout)'
  BY <1>4 DEF PastOrNULL
<1> QED BY <1>5, <1>6 DEF DateInv

\* A new row has no date.
LEMMA DateAppend ==
  ASSUME Inv, DateInv, NEW row \in Row, row.lastLogout = NULL, users' = Append(users, row),
         UNCHANGED <<now, op, id, entity, date, asked, overtook>>,
         \A q \in Request : pc'[q] = pc[q] \/ pc'[q] = "ok"
  PROVE  DateInv'
<1>0. users \in Seq(Row \cup {NoRow})
  BY InvParts DEF TypeOK
<1>1. /\ Len(users') = Len(users) + 1 /\ Len(users) \in Nat
      /\ \A i \in 1..Len(users) : users'[i] = users[i]
      /\ users'[Len(users) + 1] = row
  BY <1>0
<1>2. \A i \in 1..Len(users') : i \in 1..Len(users) \/ users'[i].lastLogout = NULL
  BY <1>1
<1>3. \A i \in 1..Len(users') : PastOrNULL(users[i].lastLogout)'
  BY <1>1, <1>2 DEF DateInv, PastOrNULL
<1>4. ASSUME NEW q \in Request PROVE DatedOK(q)'
  <2>1. DatedOK(q)
    BY DEF DateInv
  <2>2. AloneAtRow(q)' /\ users'[id[q]].lastLogout # NULL =>
           AloneAtRow(q) /\ users'[id[q]] = users[id[q]]
    BY <1>1, <1>2 DEF AloneAtRow, Holding
  <2> QED BY <2>1, <2>2 DEF DatedOK, PastOrNULL
<1> QED BY <1>3, <1>4 DEF DateInv

LEMMA DateStep ==
  ASSUME Inv, DateInv, NEW r \in Request, Step(r)
  PROVE  DateInv'
<1>0. /\ TypeOK /\ HandlerOK(r) /\ DatedOK(r) /\ pc \in [Request -> Label] /\ now \in Nat
  BY InvParts, RowDates DEF DateInv, RequestOK, TypeOK, Label
<1>1. CASE LogoutFind(r)
  BY <1>1, DateFind
<1>2. ASSUME pc' = [pc EXCEPT ![r] = "conflict"] \/ pc' = [pc EXCEPT ![r] = "missing"],
             UNCHANGED <<now, users, op, id, entity, date, asked, overtook>>
      PROVE  DateInv'
  BY <1>0, <1>2, DateQuiet DEF Holding
<1>3. CASE Insert(r)
  <2>1. CASE Conflict(r)
    BY <1>2, <1>3, <2>1 DEF Insert, Conflict, Goto
  <2>2. CASE users' = Append(users, entity[r]) /\ Goto(r, "ok") /\ UNCHANGED overtook
    <3>1. entity[r] \in Row /\ entity[r].lastLogout = NULL
      BY <1>0, <1>3 DEF Insert, HandlerOK, DatedOK
    <3>2. \A q \in Request : pc'[q] = pc[q] \/ pc'[q] = "ok"
      BY <1>0, <2>2 DEF Goto
    <3> QED BY <1>3, <2>2, <3>1, <3>2, DateAppend DEF Insert
  <2> QED BY <1>3, <2>1, <2>2 DEF Insert
<1>4. CASE Select(r)
  <2>1. \A q \in Request : pc'[q] = pc[q] \/ {pc[q], pc'[q]} \subseteq Holding
    BY <1>0, <1>4 DEF Select, Goto, Holding
  <2> QED BY <1>0, <1>4, <2>1, DateQuiet DEF Select
<1>5. CASE Save(r)
  <2>1. /\ pc[r] = "update" /\ entity[r] \in Row /\ loaded[r] \in Row /\ id[r] \in 1..Len(users)
        /\ pc[r] \in InFlight
    BY <1>0, <1>5 DEF Save, HandlerOK, Holding, InFlight
  <2>2. CASE Conflict(r)
    BY <1>2, <1>5, <2>2 DEF Save, Conflict, Goto
  <2>3. CASE ~ Exists(id[r]) /\ Write(r, users)
    <3>1. users[id[r]] = NoRow /\ users = [users EXCEPT ![id[r]] = NoRow]
      BY <1>0, <2>1, <2>3 DEF Exists, TypeOK
    <3>2. Write(r, [users EXCEPT ![id[r]] = NoRow]) /\ PastOrNULL(NoRow.lastLogout)
      BY <2>3, <3>1 DEF NoRow, PastOrNULL
    <3> QED BY <1>5, <2>1, <3>2, DateWrite DEF Save
  <2>4. CASE Exists(id[r]) /\ Write(r, [users EXCEPT ![id[r]] = Saved(r)])
    <3>1. users[id[r]] \in Row
      BY <1>0, <2>4, ExistingRow
    <3>2. /\ Saved(r) \in Row
          /\ Saved(r).lastLogout = SavedColumn(users[id[r]].lastLogout, loaded[r].lastLogout,
                                               entity[r].lastLogout)
      BY <2>1, <3>1, SavedFields DEF Columns
    <3>3. PastOrNULL(users[id[r]].lastLogout) /\ PastOrNULL(entity[r].lastLogout)
      BY <1>0, <2>1 DEF DateInv, DatedOK
    <3>4. PastOrNULL(Saved(r).lastLogout)
      <4> HIDE DEF Saved
      <4> QED BY <3>2, <3>3 DEF SavedColumn
    <3> HIDE DEF Saved
    <3> QED BY <1>5, <2>1, <2>4, <3>2, <3>4, DateWrite DEF Save
  <2> QED BY <1>5, <2>2, <2>3, <2>4 DEF Save
<1>6. CASE Revive(r)
  <2>1. pc[r] = "revive" /\ entity[r] \in Row /\ PastOrNULL(entity[r].lastLogout) /\ pc[r] \in InFlight
    BY <1>0, <1>6 DEF Revive, HandlerOK, Holding, InFlight, DatedOK
  <2>2. CASE Conflict(r)
    BY <1>2, <1>6, <2>2 DEF Revive, Conflict, Goto
  <2>3. CASE Write(r, [users EXCEPT ![id[r]] = entity[r]])
    BY <1>6, <2>1, <2>3, DateWrite DEF Revive
  <2> QED BY <1>6, <2>2, <2>3 DEF Revive
<1>7. CASE Delete(r)
  <2>1. pc[r] \in InFlight /\ PastOrNULL(NoRow.lastLogout)
    BY <1>7 DEF Delete, InFlight, NoRow, PastOrNULL
  <2> QED BY <1>2, <1>7, <2>1, DateWrite DEF Delete, Goto
<1> QED BY <1>1, <1>3, <1>4, <1>5, <1>6, <1>7 DEF Step

LEMMA DateNext == Inv /\ DateInv /\ [Next]_vars => DateInv'
<1> SUFFICES ASSUME Inv, DateInv, [Next]_vars
             PROVE  DateInv'
  OBVIOUS
<1>0. TypeOK /\ pc \in [Request -> Label] /\ now \in Nat
  BY InvParts DEF TypeOK, Label
<1>1. CASE UNCHANGED vars \/ Tick \/ SeedFails
  <2>1. /\ UNCHANGED <<users, pc, op, id, entity, date, asked, overtook>>
        /\ now' \in Nat /\ now <= now'
    BY <1>0, <1>1 DEF vars, request, Tick, SeedFails
  <2> QED BY <1>0, <2>1, DateQuiet
<1>2. CASE Restart
  <2>1. \A q \in Request : pc'[q] = pc[q] \/ pc'[q] = "failed"
    BY <1>2 DEF Restart
  <2> QED BY <1>0, <1>2, <2>1, DateQuiet DEF Restart, Holding
<1>3. CASE Seed
  <2>1. UNCHANGED <<now, pc, op, id, entity, date, asked, overtook>>
    BY <1>3 DEF Seed, request
  <2>2. CASE users' = users
    BY <1>0, <2>1, <2>2, DateQuiet
  <2>3. ASSUME NEW email \in Email, NEW role_ \in Role, users' = Append(users, NewUser(email, role_))
        PROVE  DateInv'
    <3>1. NewUser(email, role_) \in Row /\ NewUser(email, role_).lastLogout = NULL
      BY DEF NewUser, Row
    <3> QED BY <2>1, <2>3, <3>1, DateAppend
  <2> QED BY <1>3, <2>2, <2>3, SeedAssumption DEF Seed, SeedUser
<1>4. ASSUME NEW r \in Request, Begins(r) PROVE DateInv'
  BY <1>0, <1>4, DateBegin
<1>5. ASSUME NEW r \in Request, Step(r) PROVE DateInv'
  BY <1>5, DateStep
<1>6. ASSUME NEW r \in Request, Abort(r) PROVE DateInv'
  <2>1. \A q \in Request : pc'[q] = pc[q] \/ pc'[q] = "failed"
    BY <1>0, <1>6 DEF Abort, Goto
  <2> QED BY <1>0, <1>6, <2>1, DateQuiet DEF Abort, Holding
<1> QED BY <1>1, <1>2, <1>3, <1>4, <1>5, <1>6 DEF Next

\* The row i shows an older date, or none, after r's save of what it held.
GoesBack(i) ==
    /\ users[i].lastLogout # NULL /\ users'[i] # NoRow
    /\ users'[i].lastLogout # users[i].lastLogout
    /\ users'[i].lastLogout # NULL => ~ (users'[i].lastLogout >= users[i].lastLogout)

LEMMA DateGoesBack ==
  ASSUME Inv, DateInv, [Next]_vars, NEW i \in 1..Len(users), GoesBack(i)
  PROVE  \E r \in Request : id[r] = i /\ pc[r] = "update" /\ overtook[r] # {}
<1>1. TypeOK /\ users[i] # NoRow /\ "lastLogout" \in Columns
  BY InvParts, RowDates DEF GoesBack, Columns
<1>2. PICK r \in Request : Saves(r, i)
  BY <1>1, ChangedBySave DEF GoesBack
<1>3. ASSUME overtook[r] = {} PROVE FALSE
  <2>1. /\ users'[i].lastLogout = SavedColumn(users[i].lastLogout, loaded[r].lastLogout,
                                              entity[r].lastLogout)
        /\ loaded[r] = users[i]
        /\ "lastLogout" \notin asked[r] => entity[r].lastLogout = users[i].lastLogout
    BY <1>1, <1>2, <1>3, SavedCell
  <2>2. users'[i].lastLogout = entity[r].lastLogout
    BY <2>1 DEF GoesBack, SavedColumn
  <2>3. HandlerOK(r) /\ DatedOK(r)
    BY InvParts DEF RequestOK, DateInv
  <2>4. op[r] = "logout" /\ entity[r].lastLogout = date[r] /\ AloneAtRow(r)
    BY <1>2, <1>3, <2>1, <2>2, <2>3
    DEF HandlerOK, DatedOK, GoesBack, Saves, Holding, AloneAtRow
  <2>5. users[i].lastLogout <= date[r] /\ date[r] \in Nat /\ users[i].lastLogout \in Nat
    BY <1>1, <1>2, <2>3, <2>4, RowDates DEF DatedOK, GoesBack, Saves
  <2>6. date[r] # NULL
    BY <2>5, NULLAssumption
  <2> QED BY <2>2, <2>4, <2>5, <2>6 DEF GoesBack
<1> QED BY <1>2, <1>3 DEF Saves

LEMMA InitDates == Init => DateInv
  BY DEF Init, DateInv, DatedOK, AloneAtRow, PastOrNULL, NoRow

\* setLastLogoutAt takes the date of a later logout back, and update erases one,
\* only when a write of the row overtook them: their saves keep the order of the
\* logouts as long as each starts after the last one ended
\* (users.service.ts 25-32, 161-172).
THEOREM LogoutDatesAreInOrder == Spec => LogoutDatesGoBackInRaces
<1> DEFINE Act ==
      \A i \in 1..Len(users) :
          LET old == users[i].lastLogout  new == users'[i].lastLogout
          IN  old # NULL /\ users'[i] # NoRow /\ new # old =>
                 \/ new # NULL /\ new >= old
                 \/ \E r \in Request : id[r] = i /\ pc[r] = "update" /\ overtook[r] # {}
<1>1. Inv /\ DateInv /\ [Next]_vars => [Act]_vars
  BY DateGoesBack DEF GoesBack
<1> QED BY <1>1, InitDates, DateNext, UsersInvariant, PTL DEF Spec, LogoutDatesGoBackInRaces
=============================================================================
