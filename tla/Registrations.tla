---------------------------- MODULE Registrations ----------------------------
(***************************************************************************)
(* registrations-service: its boot (run-migrations.ts, the retry loop and  *)
(* the module of main.ts, restarted by Docker), and the requests it serves *)
(* over the table registrations (registrations.controller.ts and           *)
(* registrations.service.ts).  Handlers interleave at every await; the     *)
(* database fails and returns; the process dies at any time.               *)
(*                                                                         *)
(* No guard sets req.user here.  The middleware of DEV_AUTO_AUTH injects   *)
(* user 1; without it @OwnerId yields undefined.  TypeORM leaves an        *)
(* undefined column out of a WHERE, and inserts NULL for it.               *)
(*                                                                         *)
(* Of a row the model keeps the columns some handler reads: rows are never *)
(* changed or deleted, so the others stay as inserted.  The dto bounds     *)
(* neither an eventId nor an origin, and Number() makes NaN of a path that *)
(* is no number: PostgreSQL refuses what its columns cannot hold.          *)
(***************************************************************************)
EXTENDS Naturals, Sequences, HttpErrors

CONSTANTS
    Request,        \* HTTP requests
    Event,          \* event ids, and other numbers that the column holds
    Unfit,          \* a number that it does not: NaN, a fraction, beyond 32 bits
    Body,           \* bodies of POST: [eventId, origin]
    DevUser,        \* the user DEV_AUTO_AUTH injects
    MaxRetries,     \* maxRetries of bootstrap
    MaxFaults,      \* bound on outages of the database and deaths of the process
    NULL            \* undefined

ASSUME NULLAssumption == NULL \notin Event \cup {DevUser}
ASSUME UnfitAssumption == Unfit \notin Event \cup {NULL}
ASSUME BodyAssumption ==
    Body \subseteq [eventId : Event \cup {NULL, Unfit}, origin : {"fits", "unfit"}]
ASSUME RetriesAssumption == MaxRetries \in Nat \ {0}
ASSUME FaultsAssumption == MaxFaults \in Nat

VARIABLES
    rows,           \* the table, in the order of its ids
    migrated,       \* the table and its unique index exist
    dbUp,           \* the database answers
    phase,          \* where the process is
    attempt,        \* bootstrap's attempt, 1 outside its loop
    autoAuth,       \* the process serves, and DEV_AUTO_AUTH === 'true' in it
    faults,         \* outages and deaths so far
    pc,             \* pc[r]: where the handler of r is suspended
    user,           \* user[r]: what @OwnerId yields
    event,          \* event[r]: the eventId of its body or path
    origin,         \* origin[r]: whether its origin fits VARCHAR(50)
    raised,         \* raised[r]: the exception its handler threw
    found,          \* found[r]: the rows a listing answers
    overtook        \* history: the requests that inserted while r was in flight

database == <<rows, migrated, dbUp>>
process == <<phase, attempt, autoAuth>>
handlers == <<pc, user, event, origin, raised, found, overtook>>
vars == <<database, process, faults, handlers>>

Row == [user : {DevUser}, event : Event]
Phase == {"migrating", "connecting", "creating", "serving", "exited"}
InFlight == {"find", "insert", "commit"}

Nothing == PlainException("nothing")
Duplicate == HttpException(400, "User already registered for this event")
Invalid == HttpException(400, MessageList)
UniqueViolation == PlainException("unique")
NotNullViolation == PlainException("not null")
DatabaseError == PlainException("database")
InvalidInteger == PlainException("integer")
InvalidText == PlainException("text")
Thrown == {Nothing, Duplicate, Invalid, UniqueViolation, NotNullViolation, DatabaseError,
           InvalidInteger, InvalidText}

TypeOK ==
    /\ rows \in Seq(Row)
    /\ migrated \in BOOLEAN /\ dbUp \in BOOLEAN /\ autoAuth \in BOOLEAN
    /\ phase \in Phase
    /\ attempt \in 1..MaxRetries
    /\ faults \in 0..MaxFaults
    /\ pc \in [Request -> {"idle", "created", "listed", "failed", "lost"} \cup InFlight]
    /\ user \in [Request -> {DevUser, NULL}]
    /\ event \in [Request -> Event \cup {NULL, Unfit}]
    /\ origin \in [Request -> {"fits", "unfit"}]
    /\ raised \in [Request -> Thrown]
    /\ found \in [Request -> SUBSET (1..Len(rows))]
    /\ overtook \in [Request -> SUBSET Request]

\* `depends_on: condition: service_healthy`: the database is up at first.
Init ==
    /\ rows = <<>> /\ migrated = FALSE /\ dbUp = TRUE
    /\ phase = "exited" /\ attempt = 1 /\ autoAuth = FALSE
    /\ faults = 0
    /\ pc = [r \in Request |-> "idle"]
    /\ user = [r \in Request |-> NULL]
    /\ event = [r \in Request |-> NULL]
    /\ origin = [r \in Request |-> "fits"]
    /\ raised = [r \in Request |-> Nothing]
    /\ found = [r \in Request |-> {}]
    /\ overtook = [r \in Request |-> {}]

----------------------------------------------------------------------------
(* The boot *)

\* Mutant: a container that is not restarted.
BootOnce ==
    /\ phase = "exited" /\ faults = 0
    /\ phase' \in {"migrating", "connecting"}
    /\ UNCHANGED <<database, attempt, autoAuth, faults, handlers>>

\* Docker starts the container: with the migrations first (docker-compose.yml),
\* or main.js alone (docker-compose.dev.yml).
Boot ==
    /\ phase = "exited"
    /\ phase' \in {"migrating", "connecting"}
    /\ UNCHANGED <<database, attempt, autoAuth, faults, handlers>>

\* run-migrations.js: one attempt; on a failure `&&` starts nothing else.
Migrate ==
    /\ phase = "migrating"
    /\ migrated' = (migrated \/ dbUp)
    /\ phase' = IF dbUp THEN "connecting" ELSE "exited"
    /\ UNCHANGED <<rows, dbUp, attempt, autoAuth, faults, handlers>>

\* Mutant: one attempt too many.
ConnectOffByOne ==
    /\ phase = "connecting"
    /\ \/ /\ dbUp
          /\ phase' = "creating" /\ attempt' = 1
       \/ /\ ~ dbUp /\ attempt <= MaxRetries
          /\ attempt' = attempt + 1 /\ UNCHANGED phase
    /\ UNCHANGED <<database, autoAuth, faults, handlers>>

\* One attempt of bootstrap's loop, and the exit after the last.  The loop's
\* variable is gone with the loop.
Connect ==
    /\ phase = "connecting"
    /\ \/ /\ dbUp
          /\ phase' = "creating" /\ attempt' = 1
       \/ /\ ~ dbUp /\ attempt < MaxRetries
          /\ attempt' = attempt + 1 /\ UNCHANGED phase
       \/ /\ ~ dbUp /\ attempt = MaxRetries
          /\ phase' = "exited" /\ attempt' = 1
    /\ UNCHANGED <<database, autoAuth, faults, handlers>>

\* Mutant: the module connects with migrationsRun: false, as AppDataSource does.
CreateUnmigrated ==
    /\ phase = "creating"
    /\ phase' = IF dbUp THEN "serving" ELSE "exited"
    /\ autoAuth' \in IF dbUp THEN BOOLEAN ELSE {FALSE}
    /\ UNCHANGED <<database, attempt, faults, handlers>>

\* NestFactory.create: the module's own data source runs the migrations, in one
\* transaction, before the server listens.  Nest retries a connection that fails;
\* only its success and the end of its retries are steps.  Each container has
\* an environment of its own, which bootstrap reads last.
Create ==
    /\ phase = "creating"
    /\ migrated' = (migrated \/ dbUp)
    /\ phase' = IF dbUp THEN "serving" ELSE "exited"
    /\ autoAuth' \in IF dbUp THEN BOOLEAN ELSE {FALSE}
    /\ UNCHANGED <<rows, dbUp, attempt, faults, handlers>>

----------------------------------------------------------------------------
(* Requests *)

Goto(r, label) == pc' = [pc EXCEPT ![r] = label]
Throw(r, e) == Goto(r, "failed") /\ raised' = [raised EXCEPT ![r] = e]

\* WHERE "userId" = :u, which TypeORM omits when u is undefined.
OfUser(u) == {i \in 1..Len(rows) : u # NULL => rows[i].user = u}
OfEvent(e) == {i \in 1..Len(rows) : rows[i].event = e}
Registered(r) == OfUser(user[r]) \cap OfEvent(event[r]) # {}

Begin(r) ==
    /\ phase = "serving" /\ pc[r] = "idle"
    /\ user' = [user EXCEPT ![r] = IF autoAuth THEN DevUser ELSE NULL]

\* POST /registrations; the ValidationPipe refuses a body without an integer as
\* its eventId, however large, and takes an origin of any length.
Post(r, body) ==
    /\ Begin(r)
    /\ event' = [event EXCEPT ![r] = body.eventId]
    /\ origin' = [origin EXCEPT ![r] = body.origin]
    /\ IF body.eventId = NULL THEN Throw(r, Invalid) ELSE Goto(r, "find") /\ UNCHANGED raised
    /\ UNCHANGED <<database, process, faults, found, overtook>>

\* A listing is one query; one that fails, or is refused, is a 500.
List(r, e, ids) ==
    /\ Begin(r)
    /\ event' = [event EXCEPT ![r] = e]
    /\ \/ ~ dbUp /\ Throw(r, DatabaseError) /\ UNCHANGED found
       \/ dbUp /\ e = Unfit /\ Throw(r, InvalidInteger) /\ UNCHANGED found
       \/ /\ dbUp /\ e # Unfit
          /\ Goto(r, "listed") /\ found' = [found EXCEPT ![r] = ids] /\ UNCHANGED raised
    /\ UNCHANGED <<database, process, faults, origin, overtook>>

\* Mutant: findOne where find is meant.
MyOne(r) == List(r, NULL, {i \in OfUser(IF autoAuth THEN DevUser ELSE NULL) : i = 1})

\* GET /registrations/my
My(r) == List(r, NULL, OfUser(IF autoAuth THEN DevUser ELSE NULL))

\* GET /registrations/event/:eventId, where e is Number(eventId).
ByEvent(r, e) == List(r, e, OfEvent(e))

\* Mutant: the duplicate check looks for any registration of the user.
FindAny(r) ==
    /\ pc[r] = "find" /\ dbUp /\ event[r] # Unfit
    /\ IF OfUser(user[r]) # {} THEN Throw(r, Duplicate)
       ELSE Goto(r, "insert") /\ UNCHANGED raised
    /\ UNCHANGED <<database, process, faults, user, event, origin, found, overtook>>

\* Mutant: no duplicate check.
FindNone(r) ==
    /\ pc[r] = "find" /\ dbUp /\ event[r] # Unfit
    /\ Goto(r, "insert")
    /\ UNCHANGED <<database, process, faults, user, event, origin, raised, found, overtook>>

\* The duplicate check of create.
Find(r) ==
    /\ pc[r] = "find" /\ dbUp
    /\ \/ event[r] = Unfit /\ Throw(r, InvalidInteger)
       \/ Registered(r) /\ Throw(r, Duplicate)
       \/ event[r] # Unfit /\ ~ Registered(r) /\ Goto(r, "insert") /\ UNCHANGED raised
    /\ UNCHANGED <<database, process, faults, user, event, origin, found, overtook>>

\* r's INSERT is committed.
Commit(r) ==
    /\ rows' = Append(rows, [user |-> user[r], event |-> event[r]])
    /\ Goto(r, "commit")
    /\ overtook' = [q \in Request |->
         IF q # r /\ pc[q] \in InFlight THEN overtook[q] \cup {r} ELSE overtook[q]]
    /\ UNCHANGED raised

\* Mutant: the table without its unique index.
InsertUnindexed(r) ==
    /\ pc[r] = "insert" /\ dbUp /\ user[r] # NULL /\ origin[r] = "fits"
    /\ Commit(r)
    /\ UNCHANGED <<migrated, dbUp, process, faults, user, event, origin, found>>

\* save of the new entity: an INSERT under VARCHAR(50), NOT NULL and the unique
\* index, in this order.
Insert(r) ==
    /\ pc[r] = "insert" /\ dbUp
    /\ \/ /\ origin[r] = "unfit"
          /\ Throw(r, InvalidText) /\ UNCHANGED <<rows, overtook>>
       \/ /\ origin[r] = "fits" /\ user[r] = NULL
          /\ Throw(r, NotNullViolation) /\ UNCHANGED <<rows, overtook>>
       \/ /\ origin[r] = "fits" /\ user[r] # NULL /\ Registered(r)
          /\ Throw(r, UniqueViolation) /\ UNCHANGED <<rows, overtook>>
       \/ /\ origin[r] = "fits" /\ user[r] # NULL /\ ~ Registered(r)
          /\ Commit(r)
    /\ UNCHANGED <<migrated, dbUp, process, faults, user, event, origin, found>>

\* 201 with the saved entity.
Reply(r) ==
    /\ pc[r] = "commit"
    /\ Goto(r, "created")
    /\ UNCHANGED <<database, process, faults, user, event, origin, raised, found, overtook>>

\* r's connection is gone: nobody knows whether its COMMIT was.
Fail(r) ==
    /\ pc[r] \in InFlight /\ ~ dbUp
    /\ Throw(r, DatabaseError)
    /\ UNCHANGED <<database, process, faults, user, event, origin, found, overtook>>

----------------------------------------------------------------------------
(* Faults *)

DbDown ==
    /\ dbUp /\ faults < MaxFaults
    /\ dbUp' = FALSE /\ faults' = faults + 1
    /\ UNCHANGED <<rows, migrated, process, handlers>>

DbReturns ==
    /\ ~ dbUp
    /\ dbUp' = TRUE
    /\ UNCHANGED <<rows, migrated, process, faults, handlers>>

\* The process dies, and its clients' connections with it.
Crash ==
    /\ phase # "exited" /\ faults < MaxFaults
    /\ phase' = "exited" /\ attempt' = 1 /\ autoAuth' = FALSE
    /\ faults' = faults + 1
    /\ pc' = [r \in Request |-> IF pc[r] \in InFlight THEN "lost" ELSE pc[r]]
    /\ UNCHANGED <<database, user, event, origin, raised, found, overtook>>

----------------------------------------------------------------------------

Starting == Boot \/ Migrate \/ Connect \/ Create
Step(r) == Find(r) \/ Insert(r) \/ Reply(r) \/ Fail(r)

Next ==
    \/ Starting
    \/ \E r \in Request :
          \/ \E body \in Body : Post(r, body)
          \/ My(r)
          \/ \E e \in Event \cup {Unfit} : ByEvent(r, e)
          \/ Step(r)
    \/ DbDown \/ DbReturns \/ Crash

Spec == Init /\ [][Next]_vars

\* Docker restarts the container (`restart: unless-stopped`), and the boot and
\* the handlers go on by themselves.  The database need not return.
Fairness == WF_vars(Starting) /\ \A r \in Request : WF_vars(Step(r))

FairSpec == Spec /\ Fairness
----------------------------------------------------------------------------
(* Properties *)

Pair(r) == [user |-> user[r], event |-> event[r]]
Table == {rows[i] : i \in 1..Len(rows)}

Status(r) ==
    CASE pc[r] = "created" -> 201
      [] pc[r] = "listed"  -> 200
      [] pc[r] = "failed"  -> AnswerTo(raised[r]).status
      [] OTHER             -> 0

Receipts == {<<r, Pair(r)>> : r \in {q \in Request : Status(q) = 201}}

Ledger == INSTANCE RegistrationLedger WITH
    Registration <- Row, Client <- Request, registered <- Table, receipts <- Receipts

\* Through races, outages, deaths and restarts, a user is registered for an
\* event at most once and for good, and of all the requests for it, retries
\* included, at most one is answered 201, after the row was committed
\* (registrations.service.ts 14-21, the index of the migration, 40-41).
ImplementsLedger == Ledger!Spec

\* Another request registered r's pair while r was in flight.
WasRaced(r) == \E s \in overtook[r] : Pair(s) = Pair(r)

\* A request meets a 500 for a failure of the database, for a value that the
\* ValidationPipe lets through and a column refuses (a path that is no number,
\* an id beyond 32 bits, a long origin, no user), or because another request
\* registered the same pair between its duplicate check and its INSERT; a
\* repeated registration that raced with none is never one
\* (registrations.service.ts 16-20, registrations.controller.ts 12-22,
\* http-exception.filter.ts 15-16).
ServerErrorsHaveCauses ==
    \A r \in Request : Status(r) = 500 =>
        \/ raised[r] = DatabaseError /\ faults > 0
        \/ raised[r] = InvalidInteger /\ event[r] = Unfit
        \/ raised[r] = InvalidText /\ origin[r] = "unfit"
        \/ raised[r] = NotNullViolation /\ user[r] = NULL
        \/ raised[r] = UniqueViolation /\ WasRaced(r)

\* r's INSERT was committed, as far as r's answer lets on: 201, or none at all,
\* or a 500 for the connection.
MayHaveMade(r) ==
    \/ pc[r] \in {"commit", "created", "lost"}
    \/ pc[r] = "failed" /\ raised[r] = DatabaseError

\* Nobody is refused for the registration of their own request: who is told
\* "User already registered for this event", or meets the unique index, is
\* refused for one that another request made for that event, and for the same
\* user; but without a user it may be anybody's, since TypeORM drops the
\* undefined userId from the WHERE (registrations.service.ts 16-20).
RefusedForAnother ==
    \A r \in Request : pc[r] = "failed" /\ raised[r] \in {Duplicate, UniqueViolation} =>
        \E s \in Request \ {r} :
            /\ MayHaveMade(s) /\ Pair(s) \in Table
            /\ event[s] = event[r] /\ user[r] \in {NULL, user[s]}

\* s was answered 201 for a registration that r's listing is about.
Concerns(r, s) ==
    /\ pc[s] = "created"
    /\ IF event'[r] = NULL THEN user'[r] \in {NULL, user[s]} ELSE event'[r] = event[s]

\* A listing, by user or by event, holds every registration that was answered
\* 201 before, by this process or one that died since, and none of them twice
\* (registrations.service.ts 23-29).
ListsWhatWasCreated ==
    [][\A r \in Request : pc[r] = "idle" /\ pc'[r] = "listed" =>
          /\ \A s \in Request : Concerns(r, s) => \E i \in found'[r] : rows[i] = Pair(s)
          /\ \A i, j \in found'[r] : rows[i] = rows[j] => i = j]_vars

\* The service listens only on a database that has its table, whichever way the
\* container was started and whatever failed since (registrations.module.ts:55,
\* run-migrations.ts 6-12).
ServesMigrated == phase = "serving" => migrated

\* A database that stays up is served in the end: however long the outage, the
\* ten attempts, the exit and Docker's restart lead back to a serving process
\* (main.ts 33-52).
EventuallyServes == <>[]dbUp => <>[](phase = "serving")

----------------------------------------------------------------------------
(* The inductive invariant behind the properties *)

\* What r's exception says of r.
RaisedOK(r) ==
    pc[r] = "failed" =>
        /\ raised[r] # Nothing
        /\ raised[r] \in {Duplicate, UniqueViolation} => Registered(r)
        /\ raised[r] = UniqueViolation => WasRaced(r)
        /\ raised[r] = InvalidInteger => event[r] = Unfit
        /\ raised[r] = InvalidText => origin[r] = "unfit"
        /\ raised[r] = NotNullViolation => user[r] = NULL
        /\ raised[r] = DatabaseError => faults > 0

HandlerOK(r) ==
    /\ pc[r] \in InFlight => event[r] # NULL
    /\ pc[r] = "insert" => event[r] \in Event
    /\ pc[r] \in {"commit", "created"} => user[r] # NULL /\ Pair(r) \in Table
    /\ pc[r] = "insert" /\ user[r] # NULL /\ Pair(r) \in Table => WasRaced(r)
    /\ \A s \in overtook[r] : pc[s] # "idle"

\* No two requests made one registration.
OneMaker ==
    \A r, s \in Request :
        {pc[r], pc[s]} \subseteq {"commit", "created"} /\ Pair(r) = Pair(s) => r = s

\* The unique index.
UniqueRows == \A i, j \in 1..Len(rows) : rows[i] = rows[j] => i = j

Inv ==
    /\ TypeOK
    /\ \A r \in Request : RaisedOK(r) /\ HandlerOK(r)
    /\ OneMaker
    /\ UniqueRows
    /\ ServesMigrated
    /\ ~ dbUp => faults > 0

\* Every row was asked for, by a request that was answered 201 or by one that a
\* failure left without its answer.
RowsWereAsked ==
    \A i \in 1..Len(rows) : \E r \in Request : MayHaveMade(r) /\ Pair(r) = rows[i]
=============================================================================
