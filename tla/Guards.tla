------------------------------- MODULE Guards -------------------------------
(***************************************************************************)
(* What stands between a request and its handler: ServiceTokenGuard,       *)
(* ServiceAndJwtGuard, AuthGuard('jwt') with the service's JwtStrategy,    *)
(* TokenRevocationGuard, RolesGuard, and the identity that @OwnerId and    *)
(* GET /auth/me take from what the guards leave in req.user.  Access       *)
(* tokens carry the role their user had when they were signed, and live    *)
(* for TTL.                                                                *)
(*                                                                         *)
(* Requests share nothing here but the tokens, so there is one at a time.  *)
(* A JavaScript value that may be a number or its decimal rendering is     *)
(* tagged with its type.                                                   *)
(***************************************************************************)
EXTENDS Naturals, Sequences

CONSTANTS
    UserId,
    Role, Student, Teacher, Admin,
    Secret,         \* values of SERVICE_TOKEN and of the header x-service-token
    Insecure,       \* the default shipped with the example configuration
    TTL,            \* JWT_ACCESS_EXPIRES_IN
    MaxTime,        \* bound on the clock
    MaxTokens,      \* bound on the access tokens signed
    NULL            \* undefined

ASSUME IdAssumption == UserId \subseteq Nat \ {0}
ASSUME RoleAssumption == {Student, Teacher, Admin} \subseteq Role
ASSUME SecretAssumption == Insecure \in Secret /\ NULL \notin Secret
ASSUME BoundsAssumption == TTL \in Nat /\ MaxTime \in Nat /\ MaxTokens \in Nat
ASSUME NULLAssumption == NULL \notin Nat \cup Role

VARIABLES
    serviceToken,   \* process.env.SERVICE_TOKEN, which the services require
    now,            \* the clock, in seconds
    role,           \* role[u]: the role in u's row, NULL if there is none
    lastHeld,       \* history: lastHeld[u][x]: when u last had role x before
    tokens,         \* the access tokens signed so far
    route,          \* the route of the request
    header,         \* its x-service-token
    bearer,         \* the token in its Authorization header
    todo,           \* the guards that are still to run
    user,           \* req.user
    owner,          \* whom the handler takes for the caller
    verified,       \* history: when the bearer token was verified
    answer

table == <<role, lastHeld>>
request == <<route, header, bearer>>
vars == <<serviceToken, now, table, tokens, request, todo, user, owner, verified, answer>>

Number(n) == [type |-> "number", of |-> n]
String(n) == [type |-> "string", of |-> n]

Id == [type : {"number", "string"}, of : UserId \cup {0}]
Token == {t \in [sub : Id, roles : SUBSET Role, iat : Nat, exp : Nat] : t.exp = t.iat + TTL}
Identity == [sub : Id, id : {NULL}, roles : SUBSET Role]

\* The user ServiceTokenGuard injects.
ServiceUser == [sub |-> Number(0), id |-> NULL, roles |-> {Admin, Teacher, Student}]

\* What JwtStrategy.validate returns.
Claims(token) == [sub |-> token.sub, id |-> NULL, roles |-> token.roles]

\* Routes that are guarded alike are one: POST /users and DELETE /users/:id;
\* GET /users; PATCH /users/:id.
UsersRoute == {"admin", "list", "update"}
\* "events" is every route under /events, "internal" POST /users/validate,
\* PATCH /users/:id/last-logout, GET /users/:id and POST /auth/logout.
Route == UsersRoute \cup {"events", "internal", "me"}

\* @UseGuards
GuardsOf(rt) ==
    IF rt \in UsersRoute THEN <<"ServiceAndJwt", "Roles">>
    ELSE IF rt = "events" THEN <<"ServiceAndJwt">>
    ELSE IF rt = "internal" THEN <<"ServiceToken">>
    ELSE <<"Jwt", "TokenRevocation", "Roles">>

Guard == {"ServiceToken", "ServiceAndJwt", "Jwt", "TokenRevocation", "Roles"}

\* @Roles
Required(rt) ==
    IF rt = "admin" THEN {Admin} ELSE IF rt = "list" THEN {Teacher, Admin} ELSE {}

TypeOK ==
    /\ serviceToken \in Secret
    /\ now \in Nat /\ verified \in Nat
    /\ role \in [UserId -> Role \cup {NULL}]
    /\ lastHeld \in [UserId -> [Role -> Nat \cup {NULL}]]
    /\ tokens \in Seq(Token)
    /\ route \in Route
    /\ header \in Secret \cup {NULL}
    /\ bearer \in Token \cup {NULL}
    /\ todo \in Seq(Guard)
    /\ user \in Identity \cup {NULL}
    /\ owner \in UserId \cup {0, NULL}
    /\ answer \in {"none", "handled", "401", "403"}

Init ==
    /\ serviceToken \in Secret
    /\ now = 0 /\ verified = 0
    /\ role = [u \in UserId |-> Student]
    /\ lastHeld = [u \in UserId |-> [x \in Role |-> NULL]]
    /\ tokens = <<>>
    /\ route = "me" /\ header = NULL /\ bearer = NULL
    /\ todo = <<>> /\ user = NULL /\ owner = NULL
    /\ answer = "401"

Exists(u) == u \in UserId /\ role[u] # NULL

----------------------------------------------------------------------------
(* The rest of the platform *)

\* PATCH or DELETE /users/:id, by anyone at any time.
ChangeRole(u, x) ==
    /\ Exists(u) /\ role[u] # x
    /\ role' = [role EXCEPT ![u] = x]
    /\ lastHeld' = [lastHeld EXCEPT ![u][role[u]] = now]
    /\ UNCHANGED <<serviceToken, now, tokens, request, todo, user, owner, verified, answer>>

\* Mutant: expiresIn is taken for milliseconds.
SignBriefly(u) ==
    /\ Len(tokens) < MaxTokens
    /\ Exists(u)
    /\ tokens' = Append(tokens, [sub |-> String(u), roles |-> {role[u]}, iat |-> now, exp |-> now])
    /\ UNCHANGED <<serviceToken, now, table, request, todo, user, owner, verified, answer>>

\* signAccess, by login or refresh, of what users-service says of u at that time.
Sign(u) ==
    /\ Len(tokens) < MaxTokens
    /\ Exists(u)
    /\ tokens' = Append(tokens, [sub |-> String(u), roles |-> {role[u]}, iat |-> now, exp |-> now + TTL])
    /\ UNCHANGED <<serviceToken, now, table, request, todo, user, owner, verified, answer>>

Tick ==
    /\ now < MaxTime
    /\ now' = now + 1
    /\ UNCHANGED <<serviceToken, table, tokens, request, todo, user, owner, verified, answer>>

----------------------------------------------------------------------------
(* The guards *)

\* A request comes in; bearer NULL stands for a token that is absent or was not
\* signed by auth-service.
Arrive(rt, h, b) ==
    /\ answer # "none"
    /\ answer' = "none"
    /\ route' = rt /\ header' = h /\ bearer' = b
    /\ todo' = GuardsOf(rt)
    /\ user' = NULL /\ owner' = NULL /\ verified' = 0
    /\ UNCHANGED <<serviceToken, now, table, tokens>>

Refuse(status) == answer' = status /\ UNCHANGED <<todo, user, verified>>

PassAs(identity) == user' = identity /\ todo' = Tail(todo) /\ UNCHANGED answer

Runs(guard) ==
    /\ answer = "none" /\ todo # <<>> /\ Head(todo) = guard
    /\ UNCHANGED <<serviceToken, now, table, tokens, request, owner>>

ServiceOK == serviceToken # Insecure /\ header = serviceToken

\* Mutant: tokens do not expire.
VerifiedForever == bearer # NULL

\* passport-jwt, which looks at exp.
Verified == bearer # NULL /\ now < bearer.exp

ServiceTokenGuard ==
    /\ Runs("ServiceToken")
    /\ \/ ~ ServiceOK /\ Refuse("401")
       \/ ServiceOK /\ PassAs(IF user = NULL THEN ServiceUser ELSE user) /\ UNCHANGED verified

\* Mutant: CombinedAuthGuard in its place, which either credential satisfies.
CombinedAuthGuard ==
    /\ Runs("ServiceAndJwt")
    /\ \/ ServiceOK /\ PassAs(ServiceUser) /\ UNCHANGED verified
       \/ ~ ServiceOK /\ Verified /\ PassAs(Claims(bearer)) /\ verified' = now
       \/ ~ ServiceOK /\ ~ Verified /\ Refuse("401")

\* Both, and passport replaces the injected user.
ServiceAndJwtGuard ==
    /\ Runs("ServiceAndJwt")
    /\ \/ ~ (ServiceOK /\ Verified) /\ Refuse("401")
       \/ ServiceOK /\ Verified /\ PassAs(Claims(bearer)) /\ verified' = now

\* AuthGuard('jwt') of auth-service: its strategy may also find the token
\* revoked (AccessRevocation).
JwtGuard ==
    /\ Runs("Jwt")
    /\ \/ Refuse("401")
       \/ Verified /\ PassAs(Claims(bearer)) /\ verified' = now

\* It asks isTokenValid of a user with an iat only; JwtStrategy returns none.
TokenRevocationGuard ==
    /\ Runs("TokenRevocation")
    /\ PassAs(user) /\ UNCHANGED verified

Allowed == Required(route) = {} \/ user.roles \cap Required(route) # {}

RolesGuard ==
    /\ Runs("Roles")
    /\ \/ ~ Allowed /\ Refuse("403")
       \/ Allowed /\ PassAs(user) /\ UNCHANGED verified

----------------------------------------------------------------------------
(* The handlers *)

\* @OwnerId
OwnerId(u) ==
    IF u = NULL THEN NULL ELSE IF u.sub.type = "number" THEN u.sub.of ELSE u.id

\* Number(sub)
AsNumber(sub) == sub.of

Handle ==
    /\ answer = "none" /\ todo = <<>>
    /\ answer' = "handled"
    /\ \/ route = "events" /\ owner' = OwnerId(user)
       \/ route \in UsersRoute \cup {"internal"} /\ UNCHANGED owner
    /\ UNCHANGED <<serviceToken, now, table, tokens, request, todo, user, verified>>

\* AuthController.me, and the getById of AuthService.me, which may fail.
Me ==
    /\ answer = "none" /\ todo = <<>> /\ route = "me"
    /\ \/ answer' = "401" /\ UNCHANGED owner
       \/ /\ Exists(AsNumber(user.sub))
          /\ answer' = "handled" /\ owner' = AsNumber(user.sub)
    /\ UNCHANGED <<serviceToken, now, table, tokens, request, todo, user, verified>>

----------------------------------------------------------------------------

Bearer == {NULL} \cup {tokens[i] : i \in 1..Len(tokens)}

Next ==
    \/ Tick
    \/ \E u \in UserId : Sign(u) \/ \E x \in Role \cup {NULL} : ChangeRole(u, x)
    \/ \E rt \in Route, h \in Secret \cup {NULL}, b \in Bearer : Arrive(rt, h, b)
    \/ ServiceTokenGuard \/ ServiceAndJwtGuard \/ JwtGuard \/ TokenRevocationGuard \/ RolesGuard
    \/ Handle \/ Me

Spec == Init /\ [][Next]_vars

----------------------------------------------------------------------------
(* Properties *)

\* A handler behind a JWT runs for the user of a token that auth-service signed
\* and that had not expired when it was verified, and behind ServiceAndJwtGuard
\* never without the service token, nor for the all-powerful user that the
\* service token alone stands for (service-and-jwt.guard.ts 11-14,
\* service-token.guard.ts 37-46).
HandledAsBearer ==
    answer = "handled" /\ route # "internal" =>
        /\ \E i \in 1..Len(tokens) : tokens[i] = bearer
        /\ user = Claims(bearer) /\ verified < bearer.exp
        /\ route # "me" => header = serviceToken /\ header # Insecure
        /\ route = "me" => bearer.sub = String(owner)

Had(u, x, time) == role[u] = x \/ (lastHeld[u][x] # NULL /\ lastHeld[u][x] >= time)

\* Roles are read from the token, not from the row: a user who has lost the role
\* a route of users-service asks for is served there for less than TTL more
\* (roles.guard.ts 15-18).
RoleLossTakesEffect ==
    answer = "handled" /\ Required(route) # {} =>
        \E u \in UserId, x \in Required(route) :
            bearer.sub = String(u) /\ Had(u, x, verified + 1 - TTL)

\* "ownerId = JWT.sub no backend" (https/events/events.http 207): a handler of
\* events-service takes the user of the token for the caller.
OwnerIsBearer == answer = "handled" /\ route = "events" => owner = bearer.sub.of

----------------------------------------------------------------------------
(* The inductive invariant behind the properties *)

\* A signed token carries a role its user had at the time.
SignedOK(token) ==
    /\ token.iat <= now
    /\ \E u \in UserId, x \in Role :
          token.sub = String(u) /\ token.roles = {x} /\ Had(u, x, token.iat)

\* The guards that verify a JWT have let the request pass.
PassedAsBearer ==
    /\ \E i \in 1..Len(tokens) : tokens[i] = bearer
    /\ user = Claims(bearer) /\ verified < bearer.exp
    /\ route # "me" => ServiceOK

\* What has been established, by the guards that are still to run.
PassedOK ==
    \/ todo = GuardsOf(route) /\ answer = "none"
    \/ todo = <<"TokenRevocation", "Roles">> /\ answer = "none" /\ route = "me" /\ PassedAsBearer
    \/ todo = <<"Roles">> /\ answer = "none" /\ route \in UsersRoute \cup {"me"} /\ PassedAsBearer
    \/ todo = <<>> /\ route = "internal"
    \/ todo = <<>> /\ route # "internal" /\ PassedAsBearer /\ Allowed

Inv ==
    /\ TypeOK
    /\ bearer # NULL => \E i \in 1..Len(tokens) : tokens[i] = bearer
    /\ \A i \in 1..Len(tokens) : SignedOK(tokens[i])
    /\ answer \in {"none", "handled"} => PassedOK
    /\ answer = "handled" /\ route = "me" => bearer.sub = String(owner)
=============================================================================
