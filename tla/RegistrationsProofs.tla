------------------------- MODULE RegistrationsProofs -------------------------
(***************************************************************************)
(* Proofs about registrations-service, for every set of requests and       *)
(* events and any number of retries and faults: Inv is inductive, the      *)
(* safety properties follow from it, and the service implements            *)
(* RegistrationLedger.                                                     *)
(***************************************************************************)
EXTENDS Registrations, TLAPS

----------------------------------------------------------------------------
(* Exceptions *)

\* What the filter makes of each exception.
LEMMA Answers ==
    /\ AnswerTo(Duplicate).status = 400 /\ AnswerTo(Invalid).status = 400
BY DEF AnswerTo, Duplicate, Invalid, HttpException

LEMMA Distinct ==
    /\ Nothing \notin {Duplicate, Invalid, UniqueViolation, NotNullViolation, DatabaseError,
                       InvalidInteger, InvalidText}
    /\ Duplicate \notin {Invalid, UniqueViolation, NotNullViolation, DatabaseError,
                         InvalidInteger, InvalidText}
    /\ Invalid \notin {UniqueViolation, NotNullViolation, DatabaseError, InvalidInteger, InvalidText}
    /\ UniqueViolation \notin {NotNullViolation, DatabaseError, InvalidInteger, InvalidText}
    /\ NotNullViolation \notin {DatabaseError, InvalidInteger, InvalidText}
    /\ DatabaseError \notin {InvalidInteger, InvalidText}
    /\ InvalidInteger # InvalidText
<1>1. /\ Duplicate.class = "http" /\ Invalid.class = "http"
      /\ Duplicate.message = "User already registered for this event"
      /\ Invalid.message = "list of messages"
  BY DEF Duplicate, Invalid, HttpException, MessageList
<1>2. \A message :
         PlainException(message).class = "plain" /\ PlainException(message).message = message
  BY DEF PlainException
<1>3. /\ Nothing.class = "plain" /\ Nothing.message = "nothing"
      /\ UniqueViolation.class = "plain" /\ UniqueViolation.message = "unique"
      /\ NotNullViolation.class = "plain" /\ NotNullViolation.message = "not null"
  BY <1>2 DEF Nothing, UniqueViolation, NotNullViolation
<1>4. /\ DatabaseError.class = "plain" /\ DatabaseError.message = "database"
      /\ InvalidInteger.class = "plain" /\ InvalidInteger.message = "integer"
      /\ InvalidText.class = "plain" /\ InvalidText.message = "text"
  BY <1>2 DEF DatabaseError, InvalidInteger, InvalidText
<1>5. Duplicate # Invalid
  BY <1>1
<1>6. \A e \in {Nothing, UniqueViolation, NotNullViolation, DatabaseError, InvalidInteger,
                InvalidText} : e # Duplicate /\ e # Invalid
  BY <1>1, <1>3, <1>4
<1>7. Nothing \notin {UniqueViolation, NotNullViolation, DatabaseError, InvalidInteger,
                      InvalidText}
  BY <1>3, <1>4
<1>8. UniqueViolation \notin {NotNullViolation, DatabaseError, InvalidInteger, InvalidText}
  BY <1>3, <1>4
<1>9. NotNullViolation \notin {DatabaseError, InvalidInteger, InvalidText}
  BY <1>3, <1>4
<1>10. DatabaseError \notin {InvalidInteger, InvalidText} /\ InvalidInteger # InvalidText
  BY <1>4
<1>11. QED
  BY <1>5, <1>6, <1>7, <1>8, <1>9, <1>10

----------------------------------------------------------------------------
(* Types *)

LEMMA RowsGrow ==
    ASSUME TypeOK, NEW row \in Row, rows' = Append(rows, row)
    PROVE  /\ rows' \in Seq(Row)
           /\ Len(rows') = Len(rows) + 1 /\ Len(rows) \in Nat
           /\ \A i \in 1..Len(rows) : rows'[i] = rows[i]
           /\ rows'[Len(rows) + 1] = row
           /\ Table' = Table \cup {row}
<1>1. rows \in Seq(Row)
  BY DEF TypeOK
<1>2. /\ rows' \in Seq(Row) /\ Len(rows') = Len(rows) + 1 /\ Len(rows) \in Nat
      /\ \A i \in 1..Len(rows) : rows'[i] = rows[i]
      /\ rows'[Len(rows) + 1] = row
  BY <1>1
<1>3. 1..Len(rows') = 1..Len(rows) \cup {Len(rows) + 1}
  BY <1>2
<1>4. Table' = Table \cup {row}
  BY <1>2, <1>3 DEF Table
<1>5. QED
  BY <1>2, <1>4

LEMMA InitTypes == Init => TypeOK
<1> SUFFICES ASSUME Init PROVE TypeOK
  OBVIOUS
<1>1. rows \in Seq(Row) /\ Len(rows) = 0
  BY DEF Init
<1>2. Nothing \in Thrown
  BY DEF Thrown
<1>3. phase \in Phase /\ attempt \in 1..MaxRetries /\ faults \in 0..MaxFaults
  BY RetriesAssumption, FaultsAssumption DEF Init, Phase
<1>4. migrated \in BOOLEAN /\ dbUp \in BOOLEAN /\ autoAuth \in BOOLEAN
  BY DEF Init
<1>5. QED
  BY <1>1, <1>2, <1>3, <1>4 DEF Init, TypeOK

LEMMA StartingTypes == TypeOK /\ Starting => TypeOK'
<1>1. TypeOK /\ Boot => TypeOK'
  BY DEF TypeOK, Boot, Phase, database, handlers
<1>2. TypeOK /\ Migrate => TypeOK'
  BY DEF TypeOK, Migrate, Phase, handlers
<1>3. TypeOK /\ Connect => TypeOK'
  <2> SUFFICES ASSUME TypeOK, Connect PROVE TypeOK'
    OBVIOUS
  <2>1. attempt' \in 1..MaxRetries
    BY RetriesAssumption DEF TypeOK, Connect
  <2>2. phase' \in Phase
    BY DEF TypeOK, Connect, Phase
  <2>3. QED
    BY <2>1, <2>2 DEF TypeOK, Connect, database, handlers
<1>4. TypeOK /\ Create => TypeOK'
  <2> SUFFICES ASSUME TypeOK, Create PROVE TypeOK'
    OBVIOUS
  <2>1. phase' \in Phase /\ migrated' \in BOOLEAN /\ autoAuth' \in BOOLEAN
    BY DEF TypeOK, Create, Phase
  <2>2. QED
    BY <2>1 DEF TypeOK, Create, handlers
<1>5. QED
  BY <1>1, <1>2, <1>3, <1>4 DEF Starting

LEMMA FaultTypes == TypeOK /\ (DbDown \/ DbReturns \/ Crash) => TypeOK'
<1>1. TypeOK /\ DbDown => TypeOK'
  <2> SUFFICES ASSUME TypeOK, DbDown PROVE TypeOK'
    OBVIOUS
  <2>1. faults' \in 0..MaxFaults
    BY FaultsAssumption DEF TypeOK, DbDown
  <2>2. dbUp' \in BOOLEAN
    BY DEF DbDown
  <2>3. QED
    BY <2>1, <2>2 DEF TypeOK, DbDown, process, handlers
<1>2. TypeOK /\ DbReturns => TypeOK'
  BY DEF TypeOK, DbReturns, process, handlers
<1>3. TypeOK /\ Crash => TypeOK'
  <2> SUFFICES ASSUME TypeOK, Crash PROVE TypeOK'
    OBVIOUS
  <2>1. pc' \in [Request -> {"idle", "created", "listed", "failed", "lost"} \cup InFlight]
    BY DEF TypeOK, Crash
  <2>2. faults' \in 0..MaxFaults /\ phase' \in Phase
    BY FaultsAssumption DEF TypeOK, Crash, Phase
  <2>3. attempt' \in 1..MaxRetries
    BY RetriesAssumption DEF Crash
  <2>4. autoAuth' \in BOOLEAN
    BY DEF Crash
  <2>5. QED
    BY <2>1, <2>2, <2>3, <2>4 DEF TypeOK, Crash, database
<1>4. QED
  BY <1>1, <1>2, <1>3

LEMMA RequestTypes ==
    ASSUME TypeOK, NEW r \in Request,
           \/ \E body \in Body : Post(r, body)
           \/ My(r)
           \/ \E e \in Event \cup {Unfit} : ByEvent(r, e)
    PROVE  TypeOK'
<1>1. ASSUME NEW body \in Body, Post(r, body)
      PROVE  TypeOK'
  BY <1>1, BodyAssumption DEF TypeOK, Post, Begin, Throw, Goto, InFlight, Thrown, database, process
<1>2. ASSUME NEW e \in Event \cup {NULL, Unfit}, NEW ids \in SUBSET (1..Len(rows)), List(r, e, ids)
      PROVE  TypeOK'
  BY <1>2 DEF TypeOK, List, Begin, Throw, Goto, Thrown, database, process
<1>3. CASE My(r)
  BY <1>2, <1>3 DEF My, OfUser
<1>4. ASSUME NEW e \in Event \cup {Unfit}, ByEvent(r, e)
      PROVE  TypeOK'
  BY <1>2, <1>4 DEF ByEvent, OfEvent
<1>5. QED
  BY <1>1, <1>3, <1>4

LEMMA CommitTypes ==
    ASSUME TypeOK, NEW r \in Request, user[r] # NULL, event[r] \in Event, Commit(r),
           UNCHANGED <<migrated, dbUp, process, faults, user, event, origin, found>>
    PROVE  /\ TypeOK'
           /\ Pair(r) \in Row /\ rows' = Append(rows, Pair(r))
<1>1. Pair(r) \in Row
  BY DEF TypeOK, Pair, Row
<1>2. rows' = Append(rows, Pair(r))
  BY DEF Commit, Pair
<1>3. rows' \in Seq(Row) /\ 1..Len(rows) \subseteq 1..Len(rows')
  BY <1>1, <1>2, RowsGrow
<1>4. found' \in [Request -> SUBSET (1..Len(rows'))]
  BY <1>3 DEF TypeOK
<1>5. QED
  BY <1>1, <1>2, <1>3, <1>4 DEF TypeOK, Commit, Goto, InFlight, process

LEMMA StepTypes ==
    ASSUME TypeOK, NEW r \in Request, HandlerOK(r), Step(r)
    PROVE  TypeOK'
<1>1. CASE Find(r)
  BY <1>1 DEF TypeOK, Find, Throw, Goto, InFlight, Thrown, database, process
<1>2. CASE Insert(r) /\ user[r] # NULL /\ Commit(r)
  <2>1. event[r] \in Event
    BY <1>2 DEF HandlerOK, Insert
  <2>2. QED
    BY <1>2, <2>1, CommitTypes DEF Insert
<1>3. ASSUME NEW e \in Thrown, Insert(r), Throw(r, e), UNCHANGED <<rows, overtook>>
      PROVE  TypeOK'
  BY <1>3 DEF TypeOK, Insert, Throw, Goto, process
<1>4. CASE Insert(r) /\ ~ (user[r] # NULL /\ Commit(r))
  BY <1>3, <1>4 DEF Insert, Thrown
<1>5. CASE Reply(r)
  BY <1>5 DEF TypeOK, Reply, Goto, database, process
<1>6. CASE Fail(r)
  BY <1>6 DEF TypeOK, Fail, Throw, Goto, Thrown, database, process
<1>7. QED
  BY <1>1, <1>2, <1>4, <1>5, <1>6 DEF Step

LEMMA TypeInv == Inv /\ [Next]_vars => TypeOK'
<1> SUFFICES ASSUME Inv, [Next]_vars PROVE TypeOK'
  OBVIOUS
<1>1. TypeOK /\ \A r \in Request : HandlerOK(r)
  BY DEF Inv
<1>2. CASE Starting
  BY <1>1, <1>2, StartingTypes
<1>3. CASE DbDown \/ DbReturns \/ Crash
  BY <1>1, <1>3, FaultTypes
<1>4. ASSUME NEW r \in Request,
             \/ \E body \in Body : Post(r, body)
             \/ My(r)
             \/ \E e \in Event \cup {Unfit} : ByEvent(r, e)
      PROVE  TypeOK'
  BY <1>1, <1>4, RequestTypes
<1>5. ASSUME NEW r \in Request, Step(r)
      PROVE  TypeOK'
  BY <1>1, <1>5, StepTypes
<1>6. CASE UNCHANGED vars
  BY <1>1, <1>6 DEF TypeOK, vars, database, process, handlers
<1>7. QED
  BY <1>2, <1>3, <1>4, <1>5, <1>6 DEF Next

----------------------------------------------------------------------------
(* The invariant *)

LEMMA InitInv == Init => Inv
<1> SUFFICES ASSUME Init PROVE Inv
  OBVIOUS
<1>1. TypeOK
  BY InitTypes
<1>2. \A r \in Request : RaisedOK(r) /\ HandlerOK(r)
  BY DEF Init, RaisedOK, HandlerOK, InFlight
<1>3. OneMaker
  BY DEF Init, OneMaker
<1>4. rows = <<>> /\ Len(rows) = 0
  BY DEF Init
<1>5. UniqueRows
  BY <1>4 DEF UniqueRows
<1>6. ServesMigrated /\ dbUp
  BY DEF Init, ServesMigrated
<1>7. QED
  BY <1>1, <1>2, <1>3, <1>5, <1>6 DEF Inv

\* One handler moves on, and neither the table nor the process changes.
LEMMA HandlerMoves ==
    ASSUME Inv, TypeOK', NEW r \in Request, NEW label, label # "idle",
           UNCHANGED <<database, process, faults, overtook>>,
           pc' = [pc EXCEPT ![r] = label],
           \A q \in Request \ {r} :
              user'[q] = user[q] /\ event'[q] = event[q]
            /\ origin'[q] = origin[q] /\ raised'[q] = raised[q],
           pc[r] = "idle" \/ (user'[r] = user[r] /\ event'[r] = event[r]),
           label \in {"commit", "created"} => pc[r] = "commit",
           RaisedOK(r)', HandlerOK(r)'
    PROVE  Inv'
<1>1. /\ \A q \in Request : overtook[q] \subseteq Request
      /\ \A q \in Request : pc'[q] = IF q = r THEN label ELSE pc[q]
  BY DEF Inv, TypeOK
<1>2. Table' = Table /\ faults' = faults /\ overtook' = overtook
  BY DEF Table, database
<1>3. \A q \in Request : q # r \/ pc[r] # "idle" => Pair(q)' = Pair(q)
  BY DEF Pair
<1>4. \A q \in Request : \A s \in overtook[q] : pc[s] # "idle" /\ Pair(s)' = Pair(s)
  BY <1>1, <1>3 DEF Inv, HandlerOK
<1>5. \A q \in Request \ {r} : WasRaced(q)' = WasRaced(q)
  BY <1>2, <1>3, <1>4 DEF WasRaced
<1>6. \A q \in Request \ {r} : RaisedOK(q)'
  <2>1. \A q \in Request \ {r} : Registered(q)' = Registered(q)
    BY DEF Registered, OfUser, OfEvent, database
  <2>2. QED
    BY <1>1, <1>2, <1>5, <2>1 DEF Inv, RaisedOK
<1>7. \A q \in Request \ {r} : HandlerOK(q)'
  BY <1>1, <1>2, <1>3, <1>4, <1>5 DEF Inv, HandlerOK
<1>8. OneMaker'
  <2> SUFFICES ASSUME NEW a \in Request, NEW b \in Request,
                      {pc'[a], pc'[b]} \subseteq {"commit", "created"}, Pair(a)' = Pair(b)'
               PROVE  a = b
    BY DEF OneMaker
  <2>1. {pc[a], pc[b]} \subseteq {"commit", "created"}
    BY <1>1
  <2>2. Pair(a) = Pair(b)
    <3>1. Pair(a)' = Pair(a)
      BY <1>3, <2>1
    <3>2. Pair(b)' = Pair(b)
      BY <1>3, <2>1
    <3>3. QED
      BY <3>1, <3>2
  <2>3. QED
    BY <2>1, <2>2 DEF Inv, OneMaker
<1>9. UniqueRows' /\ ServesMigrated' /\ (~ dbUp' => faults' > 0)
  BY DEF Inv, UniqueRows, ServesMigrated, database, process
<1>10. QED
  BY <1>6, <1>7, <1>8, <1>9 DEF Inv

\* The process or the database changes, and handlers are at most lost.
LEMMA ProcessMoves ==
    ASSUME Inv, TypeOK', UNCHANGED <<rows, user, event, origin, raised, overtook>>,
           \A q \in Request : pc'[q] = pc[q] \/ pc'[q] = "lost",
           faults' >= faults, ServesMigrated', ~ dbUp' => faults' > 0
    PROVE  Inv'
<1>1. \A q \in Request : overtook[q] \subseteq Request
  BY DEF Inv, TypeOK
<1>2. Table' = Table
  BY DEF Table
<1>3. \A q \in Request : Pair(q)' = Pair(q)
  BY DEF Pair
<1>4. \A q \in Request : WasRaced(q)' = WasRaced(q)
  BY <1>1, <1>3 DEF WasRaced
<1>5. faults \in Nat /\ faults' \in Nat
  BY FaultsAssumption DEF Inv, TypeOK
<1>6. \A q \in Request : RaisedOK(q)'
  <2>1. \A q \in Request : Registered(q)' = Registered(q)
    BY DEF Registered, OfUser, OfEvent
  <2>2. QED
    BY <1>4, <1>5, <2>1 DEF Inv, RaisedOK
<1>7. \A q \in Request : HandlerOK(q)'
  BY <1>1, <1>2, <1>3, <1>4 DEF Inv, HandlerOK, InFlight
<1>8. OneMaker' /\ UniqueRows'
  BY <1>3 DEF Inv, OneMaker, UniqueRows
<1>9. QED
  BY <1>6, <1>7, <1>8 DEF Inv

\* A row is inserted that the table did not have.
LEMMA CommitInv ==
    ASSUME Inv, TypeOK', NEW r \in Request, pc[r] = "insert", user[r] # NULL,
           Pair(r) \notin Table, Pair(r) \in Row, Commit(r),
           UNCHANGED <<migrated, dbUp, process, faults, user, event, origin, found>>
    PROVE  Inv'
<1>1. /\ rows' = Append(rows, Pair(r)) /\ raised' = raised
      /\ \A q \in Request : pc'[q] = IF q = r THEN "commit" ELSE pc[q]
      /\ \A q \in Request :
            overtook'[q] = IF q # r /\ pc[q] \in InFlight THEN overtook[q] \cup {r} ELSE overtook[q]
  BY DEF Inv, TypeOK, Commit, Goto, Pair
<1>2. /\ Len(rows') = Len(rows) + 1 /\ Len(rows) \in Nat
      /\ \A i \in 1..Len(rows) : rows'[i] = rows[i]
      /\ rows'[Len(rows) + 1] = Pair(r)
      /\ Table' = Table \cup {Pair(r)}
  BY <1>1, RowsGrow DEF Inv
<1>3. \A q \in Request : Pair(q)' = Pair(q)
  BY DEF Pair
<1>4. \A q \in Request : overtook[q] \subseteq Request
  BY DEF Inv, TypeOK
<1>5. \A q \in Request : WasRaced(q) => WasRaced(q)'
  BY <1>1, <1>3, <1>4 DEF WasRaced
<1>6. \A q \in Request : RaisedOK(q)'
  <2>1. \A q \in Request : Registered(q) => Registered(q)'
    BY <1>2 DEF Registered, OfUser, OfEvent
  <2>2. QED
    BY <1>1, <1>5, <2>1 DEF Inv, RaisedOK
<1>7. ASSUME NEW q \in Request
      PROVE  HandlerOK(q)'
  <2>1. (pc'[q] \in InFlight => event'[q] # NULL) /\ (pc'[q] = "insert" => event'[q] \in Event)
    BY <1>1 DEF Inv, HandlerOK, InFlight
  <2>2. pc'[q] \in {"commit", "created"} => user'[q] # NULL /\ Pair(q)' \in Table'
    BY <1>1, <1>2, <1>3 DEF Inv, HandlerOK
  <2>3. ASSUME pc'[q] = "insert", user'[q] # NULL, Pair(q)' \in Table'
        PROVE  WasRaced(q)'
    <3>1. q # r /\ pc[q] = "insert" /\ pc[q] \in InFlight
      BY <1>1, <2>3 DEF InFlight
    <3>2. CASE Pair(q) \in Table
      BY <1>3, <1>5, <2>3, <3>1, <3>2 DEF Inv, HandlerOK
    <3>3. CASE Pair(q) = Pair(r)
      BY <1>1, <1>3, <3>1, <3>3 DEF WasRaced
    <3>4. QED
      BY <1>2, <1>3, <2>3, <3>2, <3>3
  <2>4. \A s \in overtook'[q] : pc'[s] # "idle"
    BY <1>1, <1>4 DEF Inv, HandlerOK
  <2>5. QED
    BY <2>1, <2>2, <2>3, <2>4 DEF HandlerOK
<1>8. OneMaker'
  BY <1>1, <1>3 DEF Inv, OneMaker, HandlerOK
<1>9. UniqueRows'
  <2> SUFFICES ASSUME NEW i \in 1..Len(rows'), NEW j \in 1..Len(rows'), rows'[i] = rows'[j]
               PROVE  i = j
    BY DEF UniqueRows
  <2>1. \A k \in 1..Len(rows) : rows[k] # Pair(r)
    BY DEF Table
  <2>2. QED
    BY <1>2, <2>1 DEF Inv, UniqueRows
<1>10. ServesMigrated' /\ (~ dbUp' => faults' > 0)
  BY DEF Inv, ServesMigrated, process
<1>11. QED
  BY <1>6, <1>7, <1>8, <1>9, <1>10 DEF Inv

----------------------------------------------------------------------------
(* One lemma per kind of action *)

LEMMA ProcessInv == Inv /\ (Starting \/ DbDown \/ DbReturns \/ Crash) => Inv'
<1> SUFFICES ASSUME Inv, Starting \/ DbDown \/ DbReturns \/ Crash PROVE Inv'
  OBVIOUS
<1>1. TypeOK'
  BY TypeInv DEF Next
<1>2. /\ UNCHANGED <<rows, user, event, origin, raised, overtook>>
      /\ \A q \in Request : pc'[q] = pc[q] \/ pc'[q] = "lost"
  BY DEF Inv, TypeOK, Starting, Boot, Migrate, Connect, Create, DbDown, DbReturns, Crash,
         database, process, handlers
<1>3. faults \in Nat /\ faults' >= faults
  <2>1. faults \in Nat
    BY FaultsAssumption DEF Inv, TypeOK
  <2>2. CASE Boot \/ Migrate \/ Connect \/ Create \/ DbReturns
    <3>1. faults' = faults
      BY <2>2 DEF Boot, Migrate, Connect, Create, DbReturns
    <3>2. QED
      BY <2>1, <3>1
  <2>3. CASE DbDown \/ Crash
    BY <2>1, <2>3 DEF DbDown, Crash
  <2>4. QED
    BY <2>2, <2>3 DEF Starting
<1>4. ServesMigrated'
  BY DEF Inv, ServesMigrated, Starting, Boot, Migrate, Connect, Create, DbDown, DbReturns,
         Crash, database, process
<1>5. ~ dbUp' => faults' > 0
  <2>1. faults' \in Nat
    BY <1>1, FaultsAssumption DEF TypeOK
  <2>2. CASE DbDown
    BY <1>3, <2>2 DEF DbDown
  <2>3. CASE DbReturns
    BY <2>3 DEF DbReturns
  <2>4. CASE Starting \/ Crash
    <3>1. dbUp' = dbUp
      <4>1. CASE Boot \/ Connect
        BY <4>1 DEF Boot, Connect, database
      <4>2. CASE Migrate \/ Create
        BY <4>2 DEF Migrate, Create
      <4>3. CASE Crash
        BY <4>3 DEF Crash, database
      <4>4. QED
        BY <2>4, <4>1, <4>2, <4>3 DEF Starting
    <3>2. ~ dbUp => faults > 0
      BY DEF Inv
    <3>3. faults > 0 => faults' > 0
      BY <1>3, <2>1
    <3>4. QED
      BY <3>1, <3>2, <3>3
  <2>5. QED
    BY <2>2, <2>3, <2>4
<1>6. QED
  BY <1>1, <1>2, <1>3, <1>4, <1>5, ProcessMoves

LEMMA PostInv ==
    ASSUME Inv, NEW r \in Request, NEW body \in Body, Post(r, body)
    PROVE  Inv'
<1>1. TypeOK'
  BY TypeInv DEF Next
<1> DEFINE label == IF body.eventId = NULL THEN "failed" ELSE "find"
<1>2. /\ pc[r] = "idle" /\ pc' = [pc EXCEPT ![r] = label] /\ pc'[r] = label
      /\ UNCHANGED <<database, process, faults, overtook>>
      /\ event'[r] = body.eventId /\ (label = "failed" => raised'[r] = Invalid)
      /\ \A q \in Request \ {r} :
            user'[q] = user[q] /\ event'[q] = event[q]
            /\ origin'[q] = origin[q] /\ raised'[q] = raised[q]
  BY DEF Inv, TypeOK, Post, Begin, Throw, Goto
<1>3. \A s \in overtook'[r] : pc'[s] # "idle"
  BY <1>2 DEF Inv, HandlerOK, TypeOK
<1>4. RaisedOK(r)'
  BY <1>2, Distinct DEF RaisedOK
<1>5. HandlerOK(r)'
  BY <1>2, <1>3 DEF HandlerOK, InFlight
<1> HIDE DEF label
<1>6. label # "idle" /\ label \notin {"commit", "created"}
  BY DEF label
<1>7. QED
  BY <1>1, <1>2, <1>4, <1>5, <1>6, HandlerMoves

LEMMA ListInv ==
    ASSUME Inv, NEW r \in Request, NEW e, NEW ids, List(r, e, ids), TypeOK'
    PROVE  Inv'
<1> DEFINE label == IF dbUp /\ e # Unfit THEN "listed" ELSE "failed"
<1>1. /\ pc[r] = "idle" /\ pc' = [pc EXCEPT ![r] = label] /\ pc'[r] = label
      /\ UNCHANGED <<database, process, faults, overtook>>
      /\ event'[r] = e
      /\ label = "failed" =>
            \/ ~ dbUp /\ raised'[r] = DatabaseError
            \/ e = Unfit /\ raised'[r] = InvalidInteger
      /\ \A q \in Request \ {r} :
            user'[q] = user[q] /\ event'[q] = event[q]
            /\ origin'[q] = origin[q] /\ raised'[q] = raised[q]
  BY DEF Inv, TypeOK, List, Begin, Throw, Goto
<1>2. \A s \in overtook'[r] : pc'[s] # "idle"
  BY <1>1 DEF Inv, HandlerOK, TypeOK
<1>3. ~ dbUp => faults' > 0
  BY <1>1 DEF Inv
<1>4. RaisedOK(r)'
  BY <1>1, <1>3, Distinct DEF RaisedOK
<1>5. HandlerOK(r)'
  BY <1>1, <1>2 DEF HandlerOK, InFlight
<1> HIDE DEF label
<1>6. label # "idle" /\ label \notin {"commit", "created"}
  BY DEF label
<1>7. QED
  BY <1>1, <1>4, <1>5, <1>6, HandlerMoves

LEMMA RequestInv ==
    ASSUME Inv, NEW r \in Request,
           \/ \E body \in Body : Post(r, body)
           \/ My(r)
           \/ \E e \in Event \cup {Unfit} : ByEvent(r, e)
    PROVE  Inv'
<1>1. TypeOK'
  BY TypeInv DEF Next
<1>2. QED
  BY <1>1, PostInv, ListInv DEF My, ByEvent

\* The rows with r's user and event are r's registration.
LEMMA Matches ==
    ASSUME TypeOK, NEW r \in Request, user[r] # NULL
    PROVE  Registered(r) <=> Pair(r) \in Table
<1>1. \A i \in 1..Len(rows) : rows[i] \in Row
  BY DEF TypeOK
<1>2. \A i \in 1..Len(rows) :
         rows[i] = Pair(r) <=> rows[i].user = user[r] /\ rows[i].event = event[r]
  BY <1>1 DEF Row, Pair
<1>3. QED
  BY <1>2 DEF Registered, OfUser, OfEvent, Table

\* A request that fails with an exception its state accounts for.
LEMMA ThrowInv ==
    ASSUME Inv, TypeOK', NEW r \in Request, NEW e,
           pc[r] # "idle", Throw(r, e),
           UNCHANGED <<database, process, faults, user, event, origin, overtook>>,
           e \in Thrown \ {Nothing},
           e \in {Duplicate, UniqueViolation} => Registered(r),
           e = UniqueViolation => WasRaced(r),
           e = InvalidInteger => event[r] = Unfit,
           e = InvalidText => origin[r] = "unfit",
           e = NotNullViolation => user[r] = NULL,
           e = DatabaseError => faults > 0
    PROVE  Inv'
<1>1. /\ pc' = [pc EXCEPT ![r] = "failed"] /\ pc'[r] = "failed" /\ raised'[r] = e
      /\ \A q \in Request \ {r} : raised'[q] = raised[q]
  BY DEF Inv, TypeOK, Throw, Goto
<1>2. WasRaced(r)' = WasRaced(r) /\ Registered(r)' = Registered(r)
  BY DEF WasRaced, Pair, Registered, OfUser, OfEvent, database
<1>3. \A s \in overtook'[r] : pc'[s] # "idle"
  BY <1>1 DEF Inv, HandlerOK, TypeOK
<1>4. RaisedOK(r)'
  BY <1>1, <1>2 DEF RaisedOK
<1>5. HandlerOK(r)'
  BY <1>1, <1>3 DEF HandlerOK, InFlight
<1>6. QED
  BY <1>1, <1>4, <1>5, HandlerMoves

\* The exceptions that handlers throw.
LEMMA Throws ==
    {Duplicate, UniqueViolation, NotNullViolation, DatabaseError, InvalidInteger, InvalidText}
       \subseteq Thrown \ {Nothing}
BY Distinct DEF Thrown

LEMMA FindInv == ASSUME Inv, NEW r \in Request, Find(r) PROVE Inv'
<1>1. TypeOK' /\ pc[r] = "find" /\ UNCHANGED <<database, process, faults, user, event, origin, overtook>>
  BY TypeInv DEF Next, Step, Find
<1>2. CASE event[r] = Unfit /\ Throw(r, InvalidInteger)
  BY <1>1, <1>2, Distinct, Throws, ThrowInv
<1>3. CASE Registered(r) /\ Throw(r, Duplicate)
  BY <1>1, <1>3, Distinct, Throws, ThrowInv
<1>4. CASE event[r] # Unfit /\ ~ Registered(r) /\ Goto(r, "insert") /\ UNCHANGED raised
  <2>1. pc' = [pc EXCEPT ![r] = "insert"] /\ pc'[r] = "insert"
    BY <1>4 DEF Inv, TypeOK, Goto
  <2>2. Table' = Table /\ Pair(r)' = Pair(r)
    BY <1>1 DEF Table, Pair, database
  <2>3. event[r] \in Event
    BY <1>1, <1>4 DEF Inv, TypeOK, HandlerOK, InFlight
  <2>4. user[r] # NULL => Pair(r) \notin Table
    BY <1>4, Matches DEF Inv
  <2>5. \A s \in overtook'[r] : pc'[s] # "idle"
    BY <1>1, <2>1 DEF Inv, HandlerOK, TypeOK
  <2>6. RaisedOK(r)' /\ HandlerOK(r)'
    BY <1>1, <2>1, <2>2, <2>3, <2>4, <2>5 DEF Inv, RaisedOK, HandlerOK, InFlight
  <2>7. QED
    BY <1>1, <1>4, <2>1, <2>6, HandlerMoves
<1>5. QED
  BY <1>2, <1>3, <1>4 DEF Find

LEMMA InsertInv == ASSUME Inv, NEW r \in Request, Insert(r) PROVE Inv'
<1>1. TypeOK' /\ pc[r] = "insert"
  BY TypeInv DEF Next, Step, Insert
<1>2. CASE /\ \/ origin[r] = "unfit" /\ Throw(r, InvalidText)
              \/ user[r] = NULL /\ Throw(r, NotNullViolation)
           /\ UNCHANGED <<rows, overtook>>
  <2>1. UNCHANGED <<database, process, faults, user, event, origin, overtook>>
    BY <1>2 DEF Insert, database
  <2>2. QED
    BY <1>1, <1>2, <2>1, Distinct, Throws, ThrowInv
<1>3. CASE /\ user[r] # NULL /\ Registered(r)
           /\ Throw(r, UniqueViolation) /\ UNCHANGED <<rows, overtook>>
  <2>1. UNCHANGED <<database, process, faults, user, event, origin, overtook>>
    BY <1>3 DEF Insert, database
  <2>2. WasRaced(r)
    BY <1>1, <1>3, Matches DEF Inv, HandlerOK
  <2>3. QED
    BY <1>1, <1>3, <2>1, <2>2, Distinct, Throws, ThrowInv
<1>4. CASE /\ user[r] # NULL /\ ~ Registered(r)
           /\ Commit(r)
  <2>1. Pair(r) \notin Table /\ event[r] \in Event
    BY <1>1, <1>4, Matches DEF Inv, HandlerOK
  <2>2. Pair(r) \in Row
    BY <1>4, <2>1 DEF Inv, TypeOK, Pair, Row
  <2>3. UNCHANGED <<migrated, dbUp, process, faults, user, event, origin, found>>
    BY DEF Insert
  <2>4. QED
    BY <1>1, <1>4, <2>1, <2>2, <2>3, CommitInv
<1>5. QED
  BY <1>2, <1>3, <1>4 DEF Insert

LEMMA ReplyInv == ASSUME Inv, NEW r \in Request, Reply(r) PROVE Inv'
<1>1. TypeOK'
  BY TypeInv DEF Next, Step
<1>2. /\ pc[r] = "commit" /\ pc' = [pc EXCEPT ![r] = "created"] /\ pc'[r] = "created"
      /\ UNCHANGED <<database, process, faults, user, event, origin, raised, overtook>>
  BY DEF Inv, TypeOK, Reply, Goto
<1>3. Table' = Table /\ Pair(r)' = Pair(r)
  BY <1>2 DEF Table, Pair, database
<1>4. \A s \in overtook'[r] : pc'[s] # "idle"
  BY <1>2 DEF Inv, HandlerOK, TypeOK
<1>5. RaisedOK(r)' /\ HandlerOK(r)'
  BY <1>2, <1>3, <1>4 DEF Inv, RaisedOK, HandlerOK, InFlight
<1>6. QED
  BY <1>1, <1>2, <1>5, HandlerMoves

LEMMA FailInv == ASSUME Inv, NEW r \in Request, Fail(r) PROVE Inv'
<1>1. TypeOK'
  BY TypeInv DEF Next, Step
<1>2. pc[r] # "idle" /\ Throw(r, DatabaseError) /\ faults > 0
  BY DEF Inv, Fail, InFlight
<1>3. UNCHANGED <<database, process, faults, user, event, origin, overtook>>
  BY DEF Fail
<1>4. QED
  BY <1>1, <1>2, <1>3, Distinct, Throws, ThrowInv

LEMMA NextInv == Inv /\ [Next]_vars => Inv'
<1> SUFFICES ASSUME Inv, [Next]_vars PROVE Inv'
  OBVIOUS
<1>1. CASE Starting \/ DbDown \/ DbReturns \/ Crash
  BY <1>1, ProcessInv
<1>2. ASSUME NEW r \in Request,
             \/ \E body \in Body : Post(r, body)
             \/ My(r)
             \/ \E e \in Event \cup {Unfit} : ByEvent(r, e)
      PROVE  Inv'
  BY <1>2, RequestInv
<1>3. ASSUME NEW r \in Request, Step(r)
      PROVE  Inv'
  BY <1>3, FindInv, InsertInv, ReplyInv, FailInv DEF Step
<1>4. CASE UNCHANGED vars
  <2>1. TypeOK'
    BY TypeInv
  <2>2. faults \in Nat /\ faults' = faults
    BY <1>4, FaultsAssumption DEF Inv, TypeOK, vars
  <2>3. QED
    BY <1>4, <2>1, <2>2, ProcessMoves DEF Inv, ServesMigrated, vars, database, process, handlers
<1>5. QED
  BY <1>1, <1>2, <1>3, <1>4 DEF Next

\* Inv holds in every state of every behaviour.
THEOREM RegistrationsInvariant == Spec => []Inv
BY InitInv, NextInv, PTL DEF Spec

\* Every variable keeps its type.
THEOREM RegistrationsTypes == Spec => []TypeOK
<1>1. Inv => TypeOK
  BY DEF Inv
<1>2. QED
  BY <1>1, RegistrationsInvariant, PTL

\* The server listens only on a database with its table
\* (registrations.module.ts:54, run-migrations.ts 6-12).
THEOREM ServesOnlyMigrated == Spec => []ServesMigrated
<1>1. Inv => ServesMigrated
  BY DEF Inv
<1>2. QED
  BY <1>1, RegistrationsInvariant, PTL

----------------------------------------------------------------------------
(* What clients are told *)

\* The exceptions behind a 500.
LEMMA ServerErrors ==
    \A e \in Thrown : AnswerTo(e).status = 500 => e \notin {Duplicate, Invalid}
BY Answers

\* A 500 has a failure of the database, a value that no column holds, a missing
\* user or another request's insert behind it (registrations.service.ts 16-20,
\* registrations.controller.ts 12-22, http-exception.filter.ts 15-16).
THEOREM ServerErrorsAreCaused == Spec => []ServerErrorsHaveCauses
<1>1. Inv => ServerErrorsHaveCauses
  <2> SUFFICES ASSUME Inv, NEW r \in Request, Status(r) = 500
               PROVE  \/ raised[r] = DatabaseError /\ faults > 0
                      \/ raised[r] = InvalidInteger /\ event[r] = Unfit
                      \/ raised[r] = InvalidText /\ origin[r] = "unfit"
                      \/ raised[r] = NotNullViolation /\ user[r] = NULL
                      \/ raised[r] = UniqueViolation /\ WasRaced(r)
    BY DEF ServerErrorsHaveCauses
  <2>1. pc[r] = "failed" /\ AnswerTo(raised[r]).status = 500
    BY DEF Status
  <2>2. raised[r] \in Thrown \ {Duplicate, Invalid}
    BY <2>1, ServerErrors DEF Inv, TypeOK
  <2>3. QED
    BY <2>1, <2>2 DEF Inv, RaisedOK, Thrown
<1>2. QED
  BY <1>1, RegistrationsInvariant, PTL

\* A listing only reads.
LEMMA ListingStep ==
    ASSUME Inv, Next, NEW r \in Request, pc[r] = "idle", pc'[r] = "listed"
    PROVE  /\ UNCHANGED rows
           /\ \/ event'[r] = NULL /\ found'[r] = OfUser(user'[r])
              \/ event'[r] # NULL /\ found'[r] = OfEvent(event'[r])
<1>2. CASE Starting \/ DbDown \/ DbReturns \/ Crash
  BY <1>2 DEF Inv, TypeOK, Starting, Boot, Migrate, Connect, Create, DbDown, DbReturns, Crash,
              handlers
<1>3. ASSUME NEW q \in Request, NEW body \in Body, Post(q, body)
      PROVE  FALSE
  BY <1>3 DEF Inv, TypeOK, Post, Throw, Goto
<1>4. ASSUME NEW q \in Request, Step(q)
      PROVE  FALSE
  BY <1>4 DEF Inv, TypeOK, Step, Find, Insert, Reply, Fail, Commit, Throw, Goto, InFlight
<1>5. ASSUME NEW q \in Request, NEW e, NEW ids, List(q, e, ids)
      PROVE  /\ q = r /\ UNCHANGED rows /\ event'[r] = e /\ found'[r] = ids
             /\ user'[r] = IF autoAuth THEN DevUser ELSE NULL
  BY <1>5 DEF Inv, TypeOK, List, Begin, Throw, Goto, database
<1>6. CASE \E q \in Request : My(q)
  BY <1>5, <1>6 DEF My
<1>7. CASE \E q \in Request, e \in Event \cup {Unfit} : ByEvent(q, e)
  BY <1>5, <1>7, NULLAssumption, UnfitAssumption DEF ByEvent
<1>8. QED
  BY <1>2, <1>3, <1>4, <1>6, <1>7 DEF Next

\* A listing misses nothing that was answered 201, and repeats nothing
\* (registrations.service.ts 23-29).
THEOREM ListingsAreComplete == Spec => ListsWhatWasCreated
<1> DEFINE Lists ==
      \A r \in Request : pc[r] = "idle" /\ pc'[r] = "listed" =>
          /\ \A s \in Request : Concerns(r, s) => \E i \in found'[r] : rows[i] = Pair(s)
          /\ \A i, j \in found'[r] : rows[i] = rows[j] => i = j
<1>1. Inv /\ Next => Lists
  <2> SUFFICES ASSUME Inv, Next, NEW r \in Request, pc[r] = "idle", pc'[r] = "listed"
               PROVE  /\ \A s \in Request : Concerns(r, s) => \E i \in found'[r] : rows[i] = Pair(s)
                      /\ \A i, j \in found'[r] : rows[i] = rows[j] => i = j
    OBVIOUS
  <2>1. \/ event'[r] = NULL /\ found'[r] = OfUser(user'[r])
        \/ event'[r] # NULL /\ found'[r] = OfEvent(event'[r])
    BY ListingStep
  <2>2. UNCHANGED rows
    BY ListingStep
  <2>3. ASSUME NEW s \in Request, Concerns(r, s)
        PROVE  \E i \in found'[r] : rows[i] = Pair(s)
    <3>1. PICK i \in 1..Len(rows) : rows[i] = Pair(s)
      BY <2>3 DEF Inv, HandlerOK, Concerns, Table
    <3>2. rows[i].user = user[s] /\ rows[i].event = event[s]
      BY <3>1 DEF Pair
    <3>3. i \in found'[r]
      BY <2>1, <2>3, <3>2 DEF Concerns, OfUser, OfEvent
    <3>4. QED
      BY <3>1, <3>3
  <2>4. found'[r] \subseteq 1..Len(rows)
    BY <2>1 DEF OfUser, OfEvent
  <2>5. QED
    BY <2>3, <2>4 DEF Inv, UniqueRows
<1> HIDE DEF Lists
<1>3. Inv /\ [Next]_vars => [Lists]_vars
  BY <1>1
<1>4. Spec => [][Lists]_vars
  BY <1>3, RegistrationsInvariant, PTL DEF Spec
<1>5. QED
  BY <1>4, PTL DEF ListsWhatWasCreated, Lists

----------------------------------------------------------------------------
(* The service implements the ledger *)

\* The receipts are those of the requests answered 201.
ReceiptsMatch == Receipts = {<<r, Pair(r)>> : r \in {q \in Request : pc[q] = "created"}}

LEMMA ReceiptsOfCreated == TypeOK => ReceiptsMatch
<1> SUFFICES ASSUME TypeOK
             PROVE  Receipts = {<<r, Pair(r)>> : r \in {q \in Request : pc[q] = "created"}}
  BY DEF ReceiptsMatch
<1>1. \A e \in Thrown : AnswerTo(e).status # 201
  <2>1. \A e : AnswerTo(e).status = IF e.class = "plain" THEN 500 ELSE e.status
    BY DEF AnswerTo
  <2>2. \A e \in Thrown : e.class = "plain" \/ e.status = 400
    <3>1. \A message : PlainException(message).class = "plain"
      BY DEF PlainException
    <3>2. /\ Nothing.class = "plain" /\ UniqueViolation.class = "plain"
          /\ NotNullViolation.class = "plain" /\ DatabaseError.class = "plain"
          /\ InvalidInteger.class = "plain" /\ InvalidText.class = "plain"
      BY <3>1 DEF Nothing, UniqueViolation, NotNullViolation, DatabaseError, InvalidInteger,
                  InvalidText
    <3>3. Duplicate.status = 400 /\ Invalid.status = 400
      BY DEF Duplicate, Invalid, HttpException
    <3>4. QED
      BY <3>2, <3>3 DEF Thrown
  <2>3. QED
    BY <2>1, <2>2
<1>2. \A r \in Request : Status(r) = 201 <=> pc[r] = "created"
  <2> TAKE r \in Request
  <2>1. AnswerTo(raised[r]).status # 201
    BY <1>1 DEF TypeOK
  <2>2. CASE pc[r] = "created"
    BY <2>2 DEF Status
  <2>3. CASE pc[r] = "listed"
    BY <2>3 DEF Status
  <2>4. CASE pc[r] = "failed"
    BY <2>1, <2>4 DEF Status
  <2>5. CASE pc[r] \notin {"created", "listed", "failed"}
    BY <2>5 DEF Status
  <2>6. QED
    BY <2>2, <2>3, <2>4, <2>5
<1>3. {q \in Request : Status(q) = 201} = {q \in Request : pc[q] = "created"}
  BY <1>2
<1>4. QED
  BY <1>3 DEF Receipts

LEMMA NextReceipts == TypeOK' => ReceiptsMatch'
BY ReceiptsOfCreated, PTL

\* A step that inserts no row and answers no 201 is a stutter of the ledger.
LEMMA LedgerStutters ==
    ASSUME Inv, TypeOK', UNCHANGED rows,
           \A q \in Request : pc'[q] = "created" <=> pc[q] = "created",
           \A q \in Request : pc[q] = "created" => user'[q] = user[q] /\ event'[q] = event[q]
    PROVE  UNCHANGED <<Table, Receipts>>
<1>1. Table' = Table
  BY DEF Table
<1>2. Receipts = {<<r, Pair(r)>> : r \in {q \in Request : pc[q] = "created"}}
  BY ReceiptsOfCreated DEF ReceiptsMatch, Inv
<1>3. Receipts' = {<<r, Pair(r)'>> : r \in {q \in Request : pc'[q] = "created"}}
  BY NextReceipts DEF ReceiptsMatch
<1>4. {q \in Request : pc'[q] = "created"} = {q \in Request : pc[q] = "created"}
  OBVIOUS
<1>5. \A r \in {q \in Request : pc[q] = "created"} : Pair(r)' = Pair(r)
  BY DEF Pair
<1>6. QED
  BY <1>1, <1>2, <1>3, <1>4, <1>5

LEMMA LedgerStep == Inv /\ [Next]_vars => [Ledger!Next]_<<Table, Receipts>>
<1> SUFFICES ASSUME Inv, [Next]_vars PROVE [Ledger!Next]_<<Table, Receipts>>
  OBVIOUS
<1>1. TypeOK /\ TypeOK'
  BY TypeInv DEF Inv
<1>2. CASE Starting \/ DbDown \/ DbReturns \/ Crash
  <2>1. UNCHANGED <<rows, user, event>>
    BY <1>2 DEF Starting, Boot, Migrate, Connect, Create, DbDown, DbReturns, Crash, database,
                handlers
  <2>2. \A q \in Request : pc'[q] = pc[q] \/ (pc[q] \in InFlight /\ pc'[q] = "lost")
    BY <1>1, <1>2 DEF TypeOK, Starting, Boot, Migrate, Connect, Create, DbDown, DbReturns, Crash,
                      handlers
  <2>3. \A q \in Request : pc'[q] = "created" <=> pc[q] = "created"
    BY <2>2 DEF InFlight
  <2>4. QED
    BY <1>1, <2>1, <2>3, LedgerStutters
<1>3. ASSUME NEW r \in Request, NEW body \in Body, Post(r, body)
      PROVE  UNCHANGED <<Table, Receipts>>
  <2>1. /\ UNCHANGED rows /\ pc[r] = "idle" /\ pc'[r] \in {"failed", "find"}
        /\ \A q \in Request \ {r} : pc'[q] = pc[q] /\ user'[q] = user[q] /\ event'[q] = event[q]
    BY <1>1, <1>3 DEF TypeOK, Post, Begin, Throw, Goto, database
  <2>2. QED
    BY <1>1, <2>1, LedgerStutters
<1>4. ASSUME NEW r \in Request, NEW e, NEW ids, List(r, e, ids)
      PROVE  UNCHANGED <<Table, Receipts>>
  <2>1. /\ UNCHANGED rows /\ pc[r] = "idle" /\ pc'[r] \in {"failed", "listed"}
        /\ \A q \in Request \ {r} : pc'[q] = pc[q] /\ user'[q] = user[q] /\ event'[q] = event[q]
    BY <1>1, <1>4 DEF TypeOK, List, Begin, Throw, Goto, database
  <2>2. QED
    BY <1>1, <2>1, LedgerStutters
<1>5. ASSUME NEW r \in Request,
             \/ Find(r) \/ Fail(r)
             \/ Insert(r) /\ UNCHANGED rows /\ \E e \in Thrown : Throw(r, e)
      PROVE  UNCHANGED <<Table, Receipts>>
  <2>1. /\ UNCHANGED <<rows, user, event>> /\ pc[r] \in InFlight
        /\ pc'[r] \in {"failed", "insert"} /\ \A q \in Request \ {r} : pc'[q] = pc[q]
    BY <1>1, <1>5 DEF TypeOK, Find, Insert, Fail, Throw, Goto, database, InFlight
  <2>2. pc[r] # "created" /\ pc'[r] # "created"
    BY <2>1 DEF InFlight
  <2>3. QED
    BY <1>1, <2>1, <2>2, LedgerStutters
<1>6. ASSUME NEW r \in Request, Insert(r), user[r] # NULL,
             ~ Registered(r), Commit(r)
      PROVE  Ledger!Next
  <2>1. event[r] \in Event
    BY <1>6 DEF Inv, HandlerOK, Insert
  <2>2. Pair(r) \in Row /\ rows' = Append(rows, Pair(r))
    BY <1>1, <1>6, <2>1 DEF TypeOK, Pair, Row, Commit
  <2>3. Table' = Table \cup {Pair(r)} /\ Pair(r) \notin Table
    BY <1>1, <1>6, <2>2, RowsGrow, Matches
  <2>4. Receipts' = Receipts
    <3>1. \A q \in Request : pc'[q] = "created" <=> pc[q] = "created"
      BY <1>1, <1>6 DEF TypeOK, Insert, Commit, Goto
    <3>2. \A q \in Request : Pair(q)' = Pair(q)
      BY <1>6 DEF Pair, Insert
    <3>3. Receipts = {<<q, Pair(q)>> : q \in {p \in Request : pc[p] = "created"}}
      BY <1>1, ReceiptsOfCreated DEF ReceiptsMatch
    <3>4. Receipts' = {<<q, Pair(q)'>> : q \in {p \in Request : pc'[p] = "created"}}
      BY <1>1, NextReceipts DEF ReceiptsMatch
    <3>5. {p \in Request : pc'[p] = "created"} = {p \in Request : pc[p] = "created"}
      BY <3>1
    <3>6. QED
      BY <3>2, <3>3, <3>4, <3>5
  <2>5. Ledger!Register(Pair(r))
    BY <2>3, <2>4 DEF Ledger!Register
  <2>6. QED
    BY <2>2, <2>5 DEF Ledger!Next
<1>7. ASSUME NEW r \in Request, Reply(r)
      PROVE  Ledger!Next
  <2>1. /\ pc[r] = "commit" /\ UNCHANGED <<rows, user, event>> /\ pc'[r] = "created"
        /\ \A q \in Request \ {r} : pc'[q] = pc[q]
    BY <1>1, <1>7 DEF TypeOK, Reply, Goto, database
  <2>2. user[r] # NULL /\ Pair(r) \in Table /\ Pair(r) \in Row
    <3>1. user[r] # NULL /\ Pair(r) \in Table
      BY <2>1 DEF Inv, HandlerOK
    <3>2. QED
      BY <1>1, <3>1 DEF TypeOK, Table
  <2>3. Receipts = {<<q, Pair(q)>> : q \in {p \in Request : pc[p] = "created"}}
    BY <1>1, ReceiptsOfCreated DEF ReceiptsMatch
  <2>4. \A d \in Request : <<d, Pair(r)>> \notin Receipts
    <3> SUFFICES ASSUME NEW d \in Request, <<d, Pair(r)>> \in Receipts PROVE FALSE
      OBVIOUS
    <3>1. pc[d] = "created" /\ Pair(d) = Pair(r)
      BY <2>3
    <3>2. QED
      BY <2>1, <3>1 DEF Inv, OneMaker
  <2>5. Receipts' = Receipts \cup {<<r, Pair(r)>>}
    <3>1. Receipts' = {<<q, Pair(q)'>> : q \in {p \in Request : pc'[p] = "created"}}
      BY <1>1, NextReceipts DEF ReceiptsMatch
    <3>2. \A q \in Request : Pair(q)' = Pair(q)
      BY <2>1 DEF Pair
    <3>3. {p \in Request : pc'[p] = "created"} = {p \in Request : pc[p] = "created"} \cup {r}
      BY <2>1
    <3>4. QED
      BY <2>3, <3>1, <3>2, <3>3
  <2>6. Table' = Table
    BY <2>1 DEF Table
  <2>7. Ledger!GiveReceipt(r, Pair(r))
    BY <2>2, <2>4, <2>5, <2>6 DEF Ledger!GiveReceipt
  <2>8. QED
    BY <2>2, <2>7 DEF Ledger!Next
<1>8. ASSUME NEW r \in Request, Step(r)
      PROVE  Ledger!Next \/ UNCHANGED <<Table, Receipts>>
  <2>1. CASE Insert(r)
    <3>1. {InvalidText, NotNullViolation, UniqueViolation} \subseteq Thrown
      BY DEF Thrown
    <3>2. \/ UNCHANGED rows /\ \E e \in Thrown : Throw(r, e)
          \/ /\ user[r] # NULL /\ ~ Registered(r)
             /\ Commit(r)
      BY <2>1, <3>1 DEF Insert
    <3>3. QED
      BY <1>5, <1>6, <2>1, <3>2
  <2>2. QED
    BY <1>5, <1>7, <1>8, <2>1 DEF Step
<1>9. CASE UNCHANGED vars
  BY <1>1, <1>9, LedgerStutters DEF vars, database, handlers
<1>10. QED
  <2>1. CASE \E r \in Request : \/ \E body \in Body : Post(r, body)
                                \/ My(r)
                                \/ \E e \in Event \cup {Unfit} : ByEvent(r, e)
    BY <1>3, <1>4, <2>1 DEF My, ByEvent
  <2>2. QED
    BY <1>2, <1>8, <1>9, <2>1 DEF Next

\* Registrations are made once and for good, and answered 201 at most once,
\* through races, outages, deaths and restarts (registrations.service.ts 14-21).
THEOREM ServiceImplementsLedger == Spec => ImplementsLedger
<1>1. Init => Ledger!Init
  <2> SUFFICES ASSUME Init PROVE Table = {} /\ Receipts = {}
    BY DEF Ledger!Init
  <2>1. rows = <<>> /\ Len(rows) = 0
    BY DEF Init
  <2>2. Receipts = {<<r, Pair(r)>> : r \in {q \in Request : pc[q] = "created"}}
    BY InitTypes, ReceiptsOfCreated DEF ReceiptsMatch
  <2>3. {q \in Request : pc[q] = "created"} = {}
    BY DEF Init
  <2>4. QED
    BY <2>1, <2>2, <2>3 DEF Table
<1>2. QED
  BY <1>1, LedgerStep, RegistrationsInvariant, PTL DEF Spec, ImplementsLedger, Ledger!Spec

----------------------------------------------------------------------------
(* Where rows come from *)

\* A request that is past its INSERT keeps what it asked for.
LEMMA MakersStay ==
  ASSUME TypeOK, [Next]_vars, NEW r \in Request, MayHaveMade(r)
  PROVE  MayHaveMade(r)' /\ Pair(r)' = Pair(r)
<1> DEFINE Kept == MayHaveMade(r)' /\ Pair(r)' = Pair(r)
<1>0. /\ pc \in [Request -> {"idle", "created", "listed", "failed", "lost"} \cup InFlight]
      /\ user \in [Request -> {DevUser, NULL}] /\ event \in [Request -> Event \cup {NULL, Unfit}]
      /\ raised \in [Request -> Thrown]
  BY DEF TypeOK
<1>1. CASE UNCHANGED handlers
  BY <1>1 DEF MayHaveMade, Pair, handlers
<1>2. CASE Crash
  BY <1>0, <1>2 DEF Crash, MayHaveMade, Pair, InFlight
<1>3. ASSUME NEW q \in Request,
             \/ \E body \in Body : Post(q, body)
             \/ My(q)
             \/ \E e \in Event \cup {Unfit} : ByEvent(q, e)
      PROVE  Kept
  <2>1. q # r /\ pc[q] = "idle"
    BY <1>3 DEF Post, My, ByEvent, List, Begin, MayHaveMade
  <2>2. user'[r] = user[r] /\ event'[r] = event[r]
    BY <1>0, <1>3, <2>1 DEF Post, My, ByEvent, List, Begin
  <2>3. pc'[r] = pc[r] /\ raised'[r] = raised[r]
    BY <1>0, <1>3, <2>1 DEF Post, My, ByEvent, List, Begin, Throw, Goto
  <2> QED BY <2>2, <2>3 DEF MayHaveMade, Pair
<1>4. ASSUME NEW q \in Request, Step(q) PROVE Kept
  <2>1. user' = user /\ event' = event
    BY <1>4 DEF Step, Find, Insert, Reply, Fail
  <2>2. CASE q # r
    <3>1. pc'[r] = pc[r] /\ raised'[r] = raised[r]
      BY <1>0, <1>4, <2>2 DEF Step, Find, Insert, Reply, Fail, Commit, Throw, Goto
    <3> QED BY <2>1, <3>1 DEF MayHaveMade, Pair
  <2>3. CASE q = r
    <3>1. Reply(r) \/ Fail(r)
      BY <1>4, <2>3 DEF Step, Find, Insert, MayHaveMade
    <3>2. MayHaveMade(r)'
      BY <1>0, <3>1 DEF Reply, Fail, Throw, Goto, MayHaveMade
    <3> QED BY <2>1, <3>2 DEF Pair
  <2> QED BY <2>2, <2>3
<1> QED BY <1>1, <1>2, <1>3, <1>4
  DEF Next, Starting, Boot, Migrate, Connect, Create, DbDown, DbReturns, vars

LEMMA RowsWereAskedNext == TypeOK /\ RowsWereAsked /\ [Next]_vars => RowsWereAsked'
<1> SUFFICES ASSUME TypeOK, RowsWereAsked, [Next]_vars, NEW i \in 1..Len(rows')
             PROVE  \E r \in Request : MayHaveMade(r)' /\ Pair(r)' = rows'[i]
  BY DEF RowsWereAsked
<1>1. CASE i \in 1..Len(rows) /\ rows'[i] = rows[i]
  <2>1. PICK r \in Request : MayHaveMade(r) /\ Pair(r) = rows[i]
    BY <1>1 DEF RowsWereAsked
  <2> QED BY <1>1, <2>1, MakersStay
<1>2. ASSUME NEW r \in Request, Insert(r), Commit(r)
      PROVE  \E q \in Request : MayHaveMade(q)' /\ Pair(q)' = rows'[i]
  <2>1. rows \in Seq(Row) /\ rows' = Append(rows, Pair(r)) /\ UNCHANGED <<user, event>>
    BY <1>2 DEF TypeOK, Insert, Commit, Pair
  <2>2. CASE i \in 1..Len(rows)
    BY <1>1, <2>1, <2>2
  <2>3. CASE i = Len(rows) + 1
    <3>1. rows'[i] = Pair(r) /\ Pair(r)' = Pair(r)
      BY <2>1, <2>3 DEF Pair
    <3>2. MayHaveMade(r)'
      BY <1>2 DEF TypeOK, Commit, Goto, MayHaveMade
    <3> QED BY <3>1, <3>2
  <2>4. Len(rows') = Len(rows) + 1
    BY <2>1
  <2> QED BY <2>1, <2>2, <2>3, <2>4
<1>3. CASE rows' = rows
  BY <1>1, <1>3
<1> QED BY <1>2, <1>3
  DEF Next, Starting, Boot, Migrate, Connect, Create, DbDown, DbReturns, Crash, vars, database,
      Post, My, ByEvent, List, Step, Find, Insert, Reply, Fail

\* Every registration was asked for, by a request that was answered 201 or that a
\* failure left without its answer (registrations.service.ts 14-21).
THEOREM RegistrationsHaveMakers == Spec => []RowsWereAsked
<1>1. Init => RowsWereAsked
  BY DEF Init, RowsWereAsked
<1>2. Inv => TypeOK
  BY DEF Inv
<1> QED BY <1>1, <1>2, RowsWereAskedNext, RegistrationsInvariant, PTL DEF Spec

\* Whoever is refused as a duplicate, with a user or without, is refused for the
\* registration of another request; with a user it is the user's own
\* (registrations.service.ts 16-20).
THEOREM RefusalsAreForAnother == Spec => []RefusedForAnother
<1>1. Inv /\ RowsWereAsked => RefusedForAnother
  <2> SUFFICES ASSUME Inv, RowsWereAsked, NEW r \in Request,
                      pc[r] = "failed", raised[r] \in {Duplicate, UniqueViolation}
               PROVE  \E s \in Request \ {r} :
                         /\ MayHaveMade(s) /\ Pair(s) \in Table
                         /\ event[s] = event[r] /\ user[r] \in {NULL, user[s]}
    BY DEF RefusedForAnother
  <2>1. PICK i \in 1..Len(rows) : /\ rows[i].event = event[r]
                                  /\ user[r] # NULL => rows[i].user = user[r]
    BY DEF Inv, RaisedOK, Registered, OfUser, OfEvent
  <2>2. PICK s \in Request : MayHaveMade(s) /\ Pair(s) = rows[i]
    BY DEF RowsWereAsked
  <2>3. ~ MayHaveMade(r)
    BY Distinct DEF MayHaveMade
  <2>4. Pair(s) \in Table /\ event[s] = event[r] /\ user[r] \in {NULL, user[s]}
    BY <2>1, <2>2 DEF Pair, Table
  <2> QED BY <2>2, <2>3, <2>4
<1> QED BY <1>1, RegistrationsHaveMakers, RegistrationsInvariant, PTL
=============================================================================
