----------------------------- MODULE UsersStore -----------------------------
(***************************************************************************)
(* The table users of users-service: create, update, remove and            *)
(* setLastLogoutAt of UsersService (users.service.ts), and the seeding of  *)
(* two users at every start.  Requests interleave at every await; save of  *)
(* a loaded entity is a SELECT followed by an UPDATE of the columns that   *)
(* differ (TypeOrm.tla) or, when the SELECT finds no row, by an INSERT of  *)
(* the entity under its own id.                                            *)
(*                                                                         *)
(* Of a row's columns the model keeps email, which is unique, role, which  *)
(* stands for name, password and isActive too, and lastLogout.  E-mail     *)
(* addresses are taken up to case, as the citext column compares them.     *)
(***************************************************************************)
EXTENDS Naturals, Sequences, TypeOrm

CONSTANTS
    Email,
    AdminEmail, TestEmail,  \* the addresses of the seeded users
    Role,
    Student, Admin,         \* UserRole.STUDENT, the column's default, and ADMIN
    Request,                \* HTTP requests
    Dto,                    \* the bodies of PATCH /users/:id
    MaxTime,                \* bound on the clock
    MaxStarts,              \* bound on the starts of the service
    NULL                    \* undefined, or SQL NULL

ASSUME SeedAssumption == {AdminEmail, TestEmail} \subseteq Email /\ {Student, Admin} \subseteq Role
ASSUME NULLAssumption == NULL \notin Nat \cup Email \cup Role
ASSUME DtoAssumption == Dto \subseteq [email : Email \cup {NULL}, role : Role \cup {NULL}]
ASSUME BoundsAssumption == MaxTime \in Nat /\ MaxStarts \in Nat

VARIABLES
    now,        \* the clock
    users,      \* the table: users[i] is the row with id i, NoRow once deleted
    boot,       \* where onModuleInit is, or "up"
    starts,     \* how often the service has started
    pc,         \* pc[r]: where the handler of r is suspended, or its answer
    op,         \* op[r]: the endpoint r called
    id,         \* id[r]: the user in its path; 0 for a create
    entity,     \* entity[r]: the row object the handler holds
    loaded,     \* loaded[r]: the row as save's SELECT returned it
    date,       \* date[r]: the date of a logout
    asked,      \* history: asked[r]: the columns that r's body names
    overtook    \* history: overtook[r]: requests that wrote r's row during r

request == <<pc, op, id, entity, loaded, date, asked, overtook>>
vars == <<now, users, boot, starts, request>>

Columns == {"email", "role", "lastLogout"}
Row == [email : Email, role : Role, lastLogout : Nat \cup {NULL}]
NoRow == [email |-> NULL, role |-> NULL, lastLogout |-> NULL]

InFlight == {"find", "create", "select", "update", "revive", "delete"}
\* Answers: 2xx, {success: false}, 404, 500 for a unique violation, and no
\* answer or a 500 for another failure.
Answer == {"ok", "missing", "notFound", "conflict", "failed"}

TypeOK ==
    /\ now \in Nat /\ starts \in Nat
    /\ users \in Seq(Row \cup {NoRow})
    /\ boot \in {"admin", "test", "up"}
    /\ pc \in [Request -> {"idle"} \cup InFlight \cup Answer]
    /\ op \in [Request -> {"none", "create", "update", "remove", "logout"}]
    /\ id \in [Request -> Nat]
    /\ entity \in [Request -> Row \cup {NoRow}]
    /\ loaded \in [Request -> Row \cup {NoRow}]
    /\ date \in [Request -> Nat]
    /\ asked \in [Request -> SUBSET Columns]
    /\ overtook \in [Request -> SUBSET Request]

Init ==
    /\ now = 0 /\ starts = 1
    /\ users = <<>>
    /\ boot = "admin"
    /\ pc = [r \in Request |-> "idle"]
    /\ op = [r \in Request |-> "none"]
    /\ id = [r \in Request |-> 0]
    /\ entity = [r \in Request |-> NoRow]
    /\ loaded = [r \in Request |-> NoRow]
    /\ date = [r \in Request |-> 0]
    /\ asked = [r \in Request |-> {}]
    /\ overtook = [r \in Request |-> {}]

Exists(i) == i \in 1..Len(users) /\ users[i] # NoRow

\* Some row other than i has the e-mail address: the unique index.
Taken(i, email) == \E j \in 1..Len(users) \ {i} : users[j].email = email

NewUser(email, role) == [email |-> email, role |-> role, lastLogout |-> NULL]

----------------------------------------------------------------------------
(* onModuleInit: nothing else runs before it ends *)

\* findOne, and save if there was none.
SeedUser(email, role) ==
    users' = IF Taken(0, email) THEN users ELSE Append(users, NewUser(email, role))

Seed ==
    /\ \/ boot = "admin" /\ SeedUser(AdminEmail, Admin) /\ boot' = "test"
       \/ boot = "test" /\ SeedUser(TestEmail, Student) /\ boot' = "up"
    /\ UNCHANGED <<now, starts, request>>

\* A statement fails: the catch lets the service come up without the rest.
SeedFails ==
    /\ boot # "up"
    /\ boot' = "up"
    /\ UNCHANGED <<now, users, starts, request>>

\* The service dies and is started again: handlers in flight stop where they are.
Restart ==
    /\ starts < MaxStarts
    /\ starts' = starts + 1
    /\ boot' = "admin"
    /\ pc' = [r \in Request |-> IF pc[r] \in InFlight THEN "failed" ELSE pc[r]]
    /\ UNCHANGED <<now, users, op, id, entity, loaded, date, asked, overtook>>

----------------------------------------------------------------------------
(* The handlers *)

Goto(r, label) == pc' = [pc EXCEPT ![r] = label]

\* r comes in, for user i, with a body that names the columns.
Begin(r, endpoint, i, columns) ==
    /\ boot = "up" /\ pc[r] = "idle"
    /\ op' = [op EXCEPT ![r] = endpoint]
    /\ id' = [id EXCEPT ![r] = i]
    /\ asked' = [asked EXCEPT ![r] = columns]
    /\ UNCHANGED <<now, users, boot, starts, loaded, overtook>>

\* The body's role is not looked at.
Create(r, email) ==
    /\ Begin(r, "create", 0, {})
    /\ entity' = [entity EXCEPT ![r] = NewUser(email, Student)]
    /\ Goto(r, "create")
    /\ UNCHANGED date

Given(field, current) == IF field # NULL THEN field ELSE current

\* Mutant: an absent email is assigned, too.
MergedUnguarded(row, d) == [row EXCEPT !.email = d.email, !.role = Given(d.role, @)]

\* Mutant: the entity is made anew from the body.
MergedAnew(row, d) == NewUser(Given(d.email, row.email), Given(d.role, row.role))

\* Mutant: an absent role falls back to the column's default.
MergedWithDefault(row, d) ==
    [row EXCEPT !.email = Given(d.email, @), !.role = Given(d.role, Student)]

Merged(row, d) ==
    [email |-> Given(d.email, row.email), role |-> Given(d.role, row.role),
     lastLogout |-> row.lastLogout]

\* findOne of update and the assignments to what it found.
Update(r, i, d) ==
    /\ Begin(r, "update", i, {c \in {"email", "role"} : d[c] # NULL})
    /\ \/ ~ Exists(i) /\ Goto(r, "notFound") /\ UNCHANGED entity
       \/ /\ Exists(i) /\ Goto(r, "select")
          /\ entity' = [entity EXCEPT ![r] = Merged(users[i], d)]
    /\ UNCHANGED date

\* PATCH /users/:id/last-logout: the controller takes the date first.
Logout(r, i) ==
    /\ Begin(r, "logout", i, {"lastLogout"})
    /\ date' = [date EXCEPT ![r] = now]
    /\ Goto(r, "find")
    /\ UNCHANGED entity

\* findOne of setLastLogoutAt.
LogoutFind(r) ==
    /\ pc[r] = "find"
    /\ \/ ~ Exists(id[r]) /\ Goto(r, "notFound") /\ UNCHANGED entity
       \/ /\ Exists(id[r]) /\ Goto(r, "select")
          /\ entity' = [entity EXCEPT ![r] = [users[id[r]] EXCEPT !.lastLogout = date[r]]]
    /\ UNCHANGED <<now, users, boot, starts, op, id, loaded, date, asked, overtook>>

Remove(r, i) ==
    /\ Begin(r, "remove", i, {})
    /\ Goto(r, "delete")
    /\ UNCHANGED <<entity, date>>

----------------------------------------------------------------------------
(* Their statements *)

\* r's statement on its row is committed, and r answered 2xx, in one step: an
\* answer lost in between would add writes that nobody was told of, and of those
\* the properties claim nothing.
Write(r, table) ==
    /\ users' = table
    /\ Goto(r, "ok")
    /\ overtook' = [q \in Request |-> IF q # r /\ pc[q] \in InFlight /\ id[q] = id[r]
                                      THEN overtook[q] \cup {r} ELSE overtook[q]]

Conflict(r) == Goto(r, "conflict") /\ UNCHANGED <<users, overtook>>

\* save of a new entity; the index refuses an address that is in use.
Insert(r) ==
    /\ pc[r] = "create"
    /\ \/ Taken(0, entity[r].email) /\ Conflict(r)
       \/ /\ ~ Taken(0, entity[r].email)
          /\ users' = Append(users, entity[r]) /\ Goto(r, "ok") /\ UNCHANGED overtook
    /\ UNCHANGED <<now, boot, starts, op, id, entity, loaded, date, asked>>

\* The SELECT of save.
Select(r) ==
    /\ pc[r] = "select"
    /\ \/ ~ Exists(id[r]) /\ Goto(r, "revive") /\ UNCHANGED loaded
       \/ /\ Exists(id[r]) /\ Goto(r, "update")
          /\ loaded' = [loaded EXCEPT ![r] = users[id[r]]]
    /\ UNCHANGED <<now, users, boot, starts, op, id, entity, date, asked, overtook>>

\* The row r writes, after its UPDATE.
Saved(r) ==
    LET row == users[id[r]]
    IN  [c \in Columns |-> SavedColumn(row[c], loaded[r][c], entity[r][c])]

\* The UPDATE, which changes nothing if the row has been deleted.
Save(r) ==
    /\ pc[r] = "update"
    /\ \/ /\ ~ Exists(id[r])
          /\ Write(r, users)
       \/ /\ Exists(id[r]) /\ Taken(id[r], Saved(r).email)
          /\ Conflict(r)
       \/ /\ Exists(id[r]) /\ ~ Taken(id[r], Saved(r).email)
          /\ Write(r, [users EXCEPT ![id[r]] = Saved(r)])
    /\ UNCHANGED <<now, boot, starts, op, id, entity, loaded, date, asked>>

\* The INSERT of an entity whose row has been deleted.
Revive(r) ==
    /\ pc[r] = "revive"
    /\ \/ /\ Exists(id[r]) \/ Taken(id[r], entity[r].email)
          /\ Conflict(r)
       \/ /\ ~ Exists(id[r]) /\ ~ Taken(id[r], entity[r].email)
          /\ Write(r, [users EXCEPT ![id[r]] = entity[r]])
    /\ UNCHANGED <<now, boot, starts, op, id, entity, loaded, date, asked>>

\* Mutant: the handler does not wait for the DELETE, which fails.
DeleteUnawaited(r) ==
    /\ pc[r] = "delete"
    /\ \/ ~ Exists(id[r]) /\ Goto(r, "missing") /\ UNCHANGED <<users, overtook>>
       \/ Exists(id[r]) /\ Write(r, users)
    /\ UNCHANGED <<now, boot, starts, op, id, entity, loaded, date, asked>>

\* repo.delete.
Delete(r) ==
    /\ pc[r] = "delete"
    /\ \/ ~ Exists(id[r]) /\ Goto(r, "missing") /\ UNCHANGED <<users, overtook>>
       \/ Exists(id[r]) /\ Write(r, [users EXCEPT ![id[r]] = NoRow])
    /\ UNCHANGED <<now, boot, starts, op, id, entity, loaded, date, asked>>

\* A statement fails, or the client goes away.
Abort(r) ==
    /\ pc[r] \in InFlight
    /\ Goto(r, "failed")
    /\ UNCHANGED <<now, users, boot, starts, op, id, entity, loaded, date, asked, overtook>>

Tick ==
    /\ now < MaxTime
    /\ now' = now + 1
    /\ UNCHANGED <<users, boot, starts, request>>

----------------------------------------------------------------------------

Begins(r) ==
    \/ \E email \in Email : Create(r, email)
    \/ \E i \in 1..(Len(users) + 1) :
          \/ \E d \in Dto : Update(r, i, d)
          \/ Logout(r, i)
          \/ Remove(r, i)

Step(r) == LogoutFind(r) \/ Insert(r) \/ Select(r) \/ Save(r) \/ Revive(r) \/ Delete(r)

Next ==
    \/ Seed \/ SeedFails \/ Restart \/ Tick
    \/ \E r \in Request : Begins(r) \/ Step(r) \/ Abort(r)

Spec == Init /\ [][Next]_vars

----------------------------------------------------------------------------
(* Properties *)

\* A request that was in flight when r wrote has written the same row since.
WrittenOver(r) == \E s \in Request : pc[s] = "ok" /\ id[s] = id[r] /\ r \in overtook[s]

\* The date of an acknowledged logout, on which the refusal of older access
\* tokens rests, is missing from the row only after a race: a request that had
\* loaded the user before wrote it back, or one that wrote during the logout
\* left it nothing to write (users.service.ts 25-32, 161-172).
LogoutLostOnlyInRace ==
    \A r \in Request : op[r] = "logout" /\ pc[r] = "ok" /\ Exists(id[r]) =>
        \/ users[id[r]].lastLogout # NULL /\ users[id[r]].lastLogout >= date[r]
        \/ WrittenOver(r)
        \/ overtook[r] # {}

\* A removed user is back only if save inserted the entity of a request that
\* was in flight at the removal (users.service.ts 172, 179).
RemovedReturnsOnlyInRace ==
    \A r \in Request : op[r] = "remove" /\ pc[r] = "ok" /\ Exists(id[r]) => WrittenOver(r)

\* A request writes a column its body does not name only if another request
\* wrote the row while it was in flight: then save takes the column back to
\* what the entity held (users.service.ts 163-172).
UnaskedOnlyInRace ==
    [][\A i \in 1..Len(users) : \A c \in Columns :
          users[i] # NoRow /\ users'[i] # NoRow /\ users'[i][c] # users[i][c] =>
             \E r \in Request : /\ id[r] = i /\ pc[r] = "update"
                                /\ c \in asked[r] \/ overtook[r] # {}]_vars

----------------------------------------------------------------------------
(* The inductive invariant behind the properties *)

Holding == {"select", "update", "revive"}

\* What a handler holds, by where it is.
HandlerOK(r) ==
    /\ pc[r] = "create" => op[r] = "create" /\ entity[r] \in Row
    /\ pc[r] = "find" => op[r] = "logout"
    /\ pc[r] = "delete" => op[r] = "remove"
    /\ pc[r] \in Holding =>
          /\ op[r] \in {"update", "logout"} /\ id[r] \in 1..Len(users) /\ entity[r] \in Row
          /\ op[r] = "logout" => entity[r].lastLogout = date[r]
    /\ pc[r] = "update" => loaded[r] \in Row
    /\ pc[r] = "ok" /\ op[r] # "create" => id[r] \in 1..Len(users)
    /\ op[r] = "logout" => asked[r] = {"lastLogout"}
    /\ date[r] <= now
    /\ \A s \in overtook[r] : pc[s] = "ok"

\* As long as nobody wrote its row, a handler's entity differs from it in the
\* columns of the body only, and save's SELECT saw what its UPDATE will see.
FreshOK(r) ==
    pc[r] \in Holding /\ overtook[r] = {} =>
        /\ Exists(id[r]) /\ pc[r] # "revive"
        /\ \A c \in Columns \ asked[r] : entity[r][c] = users[id[r]][c]
        /\ pc[r] = "update" => loaded[r] = users[id[r]]

\* A handler that holds an entity from before a removal was overtaken by it.
RemovalOK(r, s) ==
    op[r] = "remove" /\ pc[r] = "ok" /\ pc[s] \in Holding /\ id[s] = id[r] =>
        r \in overtook[s] \/ WrittenOver(r)

Excused(r) == WrittenOver(r) \/ overtook[r] # {}

\* A handler that may take back the date of a logout was overtaken by it.
LogoutOK(r, s) ==
    op[r] = "logout" /\ pc[r] = "ok" /\ id[s] = id[r] /\ r \notin overtook[s] /\ ~ Excused(r) =>
        /\ pc[s] \in Holding => entity[s].lastLogout # NULL /\ entity[s].lastLogout >= date[r]
        /\ pc[s] = "find" => date[s] >= date[r]

Inv ==
    /\ TypeOK
    /\ \A r \in Request : HandlerOK(r) /\ FreshOK(r)
    /\ \A r, s \in Request : RemovalOK(r, s) /\ LogoutOK(r, s)
    /\ LogoutLostOnlyInRace
    /\ RemovedReturnsOnlyInRace
=============================================================================
