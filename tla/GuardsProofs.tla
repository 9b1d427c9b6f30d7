---------------------------- MODULE GuardsProofs ----------------------------
(***************************************************************************)
(* Theorems about Guards, for any users, roles, secrets, number of tokens   *)
(* and lifetime: who a handler runs for, and how long a lost role is used.  *)
(***************************************************************************)
EXTENDS Guards, TLAPS

Signed(b) == \E i \in 1..Len(tokens) : tokens[i] = b

\* The parts of Inv, by name.
TokensOK == \A i \in 1..Len(tokens) : SignedOK(tokens[i])
BearerOK == bearer # NULL => Signed(bearer)
StageOK == answer \in {"none", "handled"} => PassedOK
MeOK == answer = "handled" /\ route = "me" => bearer.sub = String(owner)

LEMMA InvParts == Inv <=> TypeOK /\ BearerOK /\ TokensOK /\ StageOK /\ MeOK
  BY DEF Inv, BearerOK, Signed, TokensOK, StageOK, MeOK

\* The sequences of guards, and what each leaves of its sequence.
LEMMA Stages ==
  /\ \A rt \in Route : GuardsOf(rt) \in Seq(Guard)
  /\ Tail(<<"ServiceAndJwt", "Roles">>) = <<"Roles">>
  /\ Tail(<<"Jwt", "TokenRevocation", "Roles">>) = <<"TokenRevocation", "Roles">>
  /\ Tail(<<"TokenRevocation", "Roles">>) = <<"Roles">>
  /\ Tail(<<"ServiceAndJwt">>) = <<>> /\ Tail(<<"ServiceToken">>) = <<>> /\ Tail(<<"Roles">>) = <<>>
  BY DEF GuardsOf, Route, UsersRoute, Guard

\* A role that was had at a time still counts as had then, whatever happens to
\* the table and the clock.
LEMMA HadLasts ==
  ASSUME TypeOK, NEW u \in UserId, NEW x \in Role, NEW time \in Nat, time <= now,
         Had(u, x, time),
         UNCHANGED table \/ \E v \in UserId, y \in Role \cup {NULL} : ChangeRole(v, y)
  PROVE  Had(u, x, time)'
<1>1. CASE UNCHANGED table
  BY <1>1 DEF Had, table
<1>2. ASSUME NEW v \in UserId, NEW y \in Role \cup {NULL}, ChangeRole(v, y)
      PROVE  Had(u, x, time)'
  <2>1. now \in Nat /\ role \in [UserId -> Role \cup {NULL}] /\ lastHeld \in [UserId -> [Role -> Nat \cup {NULL}]]
    BY DEF TypeOK
  <2>2. /\ role[v] \in Role
        /\ role' = [role EXCEPT ![v] = y]
        /\ lastHeld' = [lastHeld EXCEPT ![v][role[v]] = now]
    BY <1>2, <2>1 DEF ChangeRole, Exists
  <2>3. CASE u = v /\ x = role[v]
    <3>1. lastHeld'[u][x] = now
      BY <2>1, <2>2, <2>3
    <3>2. now # NULL
      BY <2>1, NULLAssumption
    <3> QED BY <3>1, <3>2 DEF Had
  <2>4. CASE ~ (u = v /\ x = role[v])
    <3>1. lastHeld'[u][x] = lastHeld[u][x]
      BY <2>1, <2>2, <2>4
    <3>2. role[u] = x => role'[u] = x
      BY <2>1, <2>2, <2>4
    <3> QED BY <3>1, <3>2 DEF Had
  <2> QED BY <2>3, <2>4
<1> QED BY <1>1, <1>2

\* Signed tokens stay in order while no token is added and time does not run back.
LEMMA SignedLasts ==
  ASSUME TypeOK, TokensOK, now' \in Nat, now <= now', tokens' = tokens,
         UNCHANGED table \/ \E v \in UserId, y \in Role \cup {NULL} : ChangeRole(v, y)
  PROVE  TokensOK'
<1> SUFFICES ASSUME NEW i \in 1..Len(tokens)
             PROVE  SignedOK(tokens[i])'
  BY DEF TokensOK
<1>1. tokens[i] \in Token /\ now \in Nat
  BY DEF TypeOK
<1>2. tokens[i].iat \in Nat /\ SignedOK(tokens[i])
  BY <1>1 DEF Token, TokensOK
<1>3. PICK u \in UserId, x \in Role :
         tokens[i].sub = String(u) /\ tokens[i].roles = {x} /\ Had(u, x, tokens[i].iat)
  BY <1>2 DEF SignedOK
<1>4. Had(u, x, tokens[i].iat)'
  BY <1>1, <1>2, <1>3, HadLasts DEF SignedOK
<1> QED BY <1>1, <1>2, <1>3, <1>4 DEF SignedOK, String

\* The state has the parts' types, one by one, as the actions need them.
LEMMA Fields ==
  ASSUME TypeOK
  PROVE  /\ serviceToken \in Secret /\ now \in Nat /\ verified \in Nat
         /\ role \in [UserId -> Role \cup {NULL}]
         /\ lastHeld \in [UserId -> [Role -> Nat \cup {NULL}]]
         /\ tokens \in Seq(Token) /\ route \in Route
         /\ header \in Secret \cup {NULL} /\ bearer \in Token \cup {NULL}
         /\ todo \in Seq(Guard)
         /\ user \in Identity \cup {NULL} /\ owner \in UserId \cup {0, NULL}
         /\ answer \in {"none", "handled", "401", "403"}
  BY DEF TypeOK

LEMMA TokenFields ==
  ASSUME NEW t \in Token
  PROVE  /\ t.sub \in Id /\ t.roles \in SUBSET Role /\ t.iat \in Nat /\ t.exp \in Nat
         /\ t.exp = t.iat + TTL /\ Claims(t) \in Identity
  BY DEF Token, Claims, Identity

----------------------------------------------------------------------------
(* The rest of the platform leaves the request alone *)

\* What a step that adds tokens at most keeps of the request's invariants.
LEMMA RequestKept ==
  ASSUME Inv, tokens' \in Seq(Token), Len(tokens) <= Len(tokens'),
         \A i \in 1..Len(tokens) : tokens'[i] = tokens[i],
         UNCHANGED <<serviceToken, request, todo, user, owner, verified, answer>>
  PROVE  BearerOK' /\ StageOK' /\ MeOK'
<1>0. tokens \in Seq(Token) /\ BearerOK /\ StageOK /\ MeOK
  BY InvParts, Fields
<1>1. Signed(bearer) => Signed(bearer)'
  BY <1>0 DEF Signed, request
<1>2. BearerOK' /\ MeOK'
  BY <1>0, <1>1 DEF BearerOK, MeOK, request
<1>3. PassedAsBearer => PassedAsBearer'
  BY <1>1 DEF PassedAsBearer, Signed, request, ServiceOK
<1>4. PassedOK => PassedOK'
  BY <1>3 DEF PassedOK, request, Allowed
<1> QED BY <1>0, <1>2, <1>4 DEF StageOK

LEMMA TickInv == ASSUME Inv, Tick PROVE Inv'
<1>0. TypeOK /\ TokensOK /\ now \in Nat /\ tokens \in Seq(Token)
  BY InvParts, Fields
<1>1. TypeOK'
  BY <1>0 DEF TypeOK, Tick, table, request
<1>2. TokensOK'
  BY <1>0, SignedLasts DEF Tick
<1>3. BearerOK' /\ StageOK' /\ MeOK'
  BY <1>0, RequestKept DEF Tick
<1> QED BY <1>1, <1>2, <1>3, InvParts DEF Inv, BearerOK, Signed, TokensOK, StageOK, MeOK

LEMMA ChangeRoleInv ==
  ASSUME Inv, NEW u \in UserId, NEW x \in Role \cup {NULL}, ChangeRole(u, x) PROVE Inv'
<1>0. TypeOK /\ TokensOK /\ now \in Nat /\ tokens \in Seq(Token)
  BY InvParts, Fields
<1>1. TypeOK'
  <2>1. role[u] \in Role /\ role' = [role EXCEPT ![u] = x]
        /\ lastHeld' = [lastHeld EXCEPT ![u][role[u]] = now]
    BY <1>0, Fields DEF ChangeRole, Exists
  <2>2. role' \in [UserId -> Role \cup {NULL}]
    BY <1>0, <2>1, Fields
  <2>3. lastHeld' \in [UserId -> [Role -> Nat \cup {NULL}]]
    BY <1>0, <2>1, Fields
  <2> QED BY <1>0, <2>2, <2>3 DEF TypeOK, ChangeRole, request
<1>2. TokensOK'
  <2>1. now' = now /\ tokens' = tokens
    BY DEF ChangeRole
  <2> QED BY <1>0, <2>1, SignedLasts
<1>3. BearerOK' /\ StageOK' /\ MeOK'
  BY <1>0, RequestKept DEF ChangeRole
<1> QED BY <1>1, <1>2, <1>3, InvParts DEF Inv, BearerOK, Signed, TokensOK, StageOK, MeOK

LEMMA SignInv == ASSUME Inv, NEW u \in UserId, Sign(u) PROVE Inv'
<1> DEFINE new == [sub |-> String(u), roles |-> {role[u]}, iat |-> now, exp |-> now + TTL]
<1>0. TypeOK /\ TokensOK /\ now \in Nat /\ tokens \in Seq(Token)
  BY InvParts, Fields
<1>1. role[u] \in Role /\ tokens' = Append(tokens, new)
  BY <1>0, Fields DEF Sign, Exists
<1>2. new \in Token
  BY <1>0, <1>1, BoundsAssumption DEF Token, Id, String
<1>3. TypeOK'
  BY <1>0, <1>1, <1>2 DEF TypeOK, Sign, table, request
<1>4. TokensOK'
  <2> SUFFICES ASSUME NEW i \in 1..Len(tokens')
               PROVE  SignedOK(tokens[i])'
    BY DEF TokensOK
  <2>1. CASE i \in 1..Len(tokens)
    <3>1. tokens'[i] = tokens[i] /\ SignedOK(tokens[i])
      BY <1>0, <1>1, <2>1 DEF TokensOK
    <3> QED BY <3>1 DEF SignedOK, Had, Sign, table, String
  <2>2. CASE i = Len(tokens) + 1
    <3>1. tokens'[i] = new
      BY <1>0, <1>1, <2>2
    <3>2. Had(u, role[u], now)'
      BY DEF Had, Sign, table
    <3> QED BY <1>0, <1>1, <3>1, <3>2 DEF SignedOK, Sign, table, String
  <2> QED BY <1>0, <1>1, <2>1, <2>2
<1>5. BearerOK' /\ StageOK' /\ MeOK'
  <2>1. Len(tokens') = Len(tokens) + 1 /\ \A i \in 1..Len(tokens) : tokens'[i] = tokens[i]
    BY <1>0, <1>1, <1>2
  <2> QED BY <1>0, <1>3, <2>1, RequestKept, Fields DEF Sign, TypeOK
<1> QED BY <1>3, <1>4, <1>5, InvParts DEF Inv, BearerOK, Signed, TokensOK, StageOK, MeOK

----------------------------------------------------------------------------
(* The request *)

LEMMA ArriveInv ==
  ASSUME Inv, NEW rt \in Route, NEW h \in Secret \cup {NULL}, NEW b \in Bearer, Arrive(rt, h, b)
  PROVE  Inv'
<1>0. TypeOK /\ TokensOK /\ now \in Nat /\ tokens \in Seq(Token)
  BY InvParts, Fields
<1>1. b \in Token \cup {NULL} /\ (b # NULL => Signed(b))
  BY <1>0 DEF Bearer, Signed
<1>2. TypeOK'
  BY <1>0, <1>1, Stages DEF TypeOK, Arrive, table
<1>3. now' = now /\ tokens' = tokens /\ UNCHANGED table
  BY DEF Arrive
<1>4. TokensOK'
  BY <1>0, <1>3, SignedLasts
<1>5. BearerOK'
  BY <1>1, <1>3 DEF BearerOK, Signed, Arrive
<1>6. StageOK' /\ MeOK'
  BY DEF StageOK, MeOK, PassedOK, Arrive
<1> QED BY <1>2, <1>4, <1>5, <1>6 DEF Inv, BearerOK, Signed, TokensOK, StageOK, MeOK

\* A step of the request leaves tokens, table and credentials alone, so only its
\* type and its stage are to be looked at.
LEMMA CredentialsKept ==
  ASSUME Inv, UNCHANGED <<serviceToken, now, table, tokens, request>>
  PROVE  /\ TokensOK' /\ BearerOK'
         /\ TypeOK' /\ StageOK' /\ MeOK' => Inv'
<1>0. TypeOK /\ TokensOK /\ BearerOK /\ now \in Nat
  BY InvParts, Fields
<1>1. TokensOK'
  BY <1>0, SignedLasts
<1>2. BearerOK'
  BY <1>0 DEF BearerOK, Signed, request
<1> QED BY <1>1, <1>2 DEF Inv, BearerOK, Signed, TokensOK, StageOK, MeOK

\* The type after a step of the request.
LEMMA RequestType ==
  ASSUME TypeOK, UNCHANGED <<serviceToken, now, table, tokens, request>>,
         todo' \in Seq(Guard),
         user' \in Identity \cup {NULL}, owner' \in UserId \cup {0, NULL}, verified' \in Nat,
         answer' \in {"none", "handled", "401", "403"}
  PROVE  TypeOK'
  BY DEF TypeOK, table, request

\* A refusal ends the request.
LEMMA RefuseInv ==
  ASSUME Inv, NEW guard, Runs(guard), NEW status \in {"401", "403"}, Refuse(status)
  PROVE  Inv'
<1>0. TypeOK /\ UNCHANGED <<serviceToken, now, table, tokens, request>>
  BY InvParts DEF Runs
<1>1. TypeOK'
  BY <1>0, Fields, RequestType DEF Runs, Refuse
<1>2. StageOK' /\ MeOK'
  BY DEF StageOK, MeOK, Refuse
<1> QED BY <1>0, <1>1, <1>2, CredentialsKept

\* A guard that lets the request pass as somebody.
LEMMA PassInv ==
  ASSUME Inv, NEW guard, Runs(guard), NEW identity \in Identity, PassAs(identity),
         verified' \in Nat, PassedOK'
  PROVE  Inv'
<1>0. TypeOK /\ UNCHANGED <<serviceToken, now, table, tokens, request>>
  BY InvParts DEF Runs
<1>1. todo \in Seq(Guard) /\ todo # <<>>
  BY <1>0, Fields DEF Runs
<1>2. TypeOK'
  BY <1>0, <1>1, Fields, RequestType DEF Runs, PassAs
<1>3. StageOK' /\ MeOK'
  BY DEF StageOK, MeOK, Runs, PassAs
<1> QED BY <1>0, <1>2, <1>3, CredentialsKept

\* Which guard runs where.
LEMMA RunsWhere ==
  ASSUME Inv, NEW guard, Runs(guard)
  PROVE  /\ route \in Route /\ PassedOK
         /\ guard = "ServiceToken" => route = "internal" /\ Tail(todo) = <<>>
         /\ guard = "ServiceAndJwt" =>
               \/ route \in UsersRoute /\ Tail(todo) = <<"Roles">>
               \/ route = "events" /\ Tail(todo) = <<>>
         /\ guard = "Jwt" => route = "me" /\ Tail(todo) = <<"TokenRevocation", "Roles">>
         /\ guard = "TokenRevocation" => route = "me" /\ Tail(todo) = <<"Roles">> /\ PassedAsBearer
         /\ guard = "Roles" =>
               route \in UsersRoute \cup {"me"} /\ Tail(todo) = <<>> /\ PassedAsBearer
<1>1. PassedOK /\ route \in Route /\ todo # <<>> /\ Head(todo) = guard
  BY InvParts, Fields DEF StageOK, Runs
<1>2. CASE todo = GuardsOf(route)
  BY <1>1, <1>2, Stages DEF GuardsOf, Route, UsersRoute
<1>3. CASE todo = <<"TokenRevocation", "Roles">> /\ route = "me" /\ PassedAsBearer
  BY <1>1, <1>3, Stages
<1>4. CASE todo = <<"Roles">> /\ route \in UsersRoute \cup {"me"} /\ PassedAsBearer
  BY <1>1, <1>4, Stages
<1> QED BY <1>1, <1>2, <1>3, <1>4 DEF PassedOK

\* A verified token was signed, and makes an identity.
LEMMA VerifiedBearer ==
  ASSUME Inv, Verified
  PROVE  Signed(bearer) /\ bearer \in Token /\ Claims(bearer) \in Identity /\ now \in Nat
<1>1. bearer \in Token /\ BearerOK
  BY InvParts, Fields DEF Verified
<1> QED BY <1>1, InvParts, Fields, TokenFields DEF Verified, BearerOK

LEMMA ServiceTokenGuardInv == ASSUME Inv, ServiceTokenGuard PROVE Inv'
<1>0. Runs("ServiceToken") /\ TypeOK
  BY InvParts DEF ServiceTokenGuard
<1>1. CASE Refuse("401")
  BY <1>0, <1>1, RefuseInv
<1>2. ASSUME PassAs(IF user = NULL THEN ServiceUser ELSE user), verified' = verified
      PROVE  Inv'
  <2>1. ServiceUser \in Identity
    BY RoleAssumption DEF ServiceUser, Identity, Id, Number
  <2>2. (IF user = NULL THEN ServiceUser ELSE user) \in Identity
    BY <1>0, <2>1, Fields
  <2>3. PassedOK'
    BY <1>0, <1>2, RunsWhere DEF PassedOK, PassAs, Runs, request
  <2> QED BY <1>0, <1>2, <2>2, <2>3, PassInv, Fields
<1> QED BY <1>1, <1>2 DEF ServiceTokenGuard

LEMMA ServiceAndJwtGuardInv == ASSUME Inv, ServiceAndJwtGuard PROVE Inv'
<1>0. Runs("ServiceAndJwt")
  BY DEF ServiceAndJwtGuard
<1>1. CASE Refuse("401")
  BY <1>0, <1>1, RefuseInv
<1>2. ASSUME ServiceOK, Verified, PassAs(Claims(bearer)), verified' = now
      PROVE  Inv'
  <2>1. PassedAsBearer'
    BY <1>0, <1>2, VerifiedBearer
    DEF PassedAsBearer, Signed, Verified, ServiceOK, PassAs, Runs, request, Claims
  <2>2. PassedOK'
    BY <1>0, <1>2, <2>1, RunsWhere DEF PassedOK, PassAs, Runs, request, Allowed, Required
  <2> QED BY <1>0, <1>2, <2>2, VerifiedBearer, PassInv
<1> QED BY <1>1, <1>2 DEF ServiceAndJwtGuard

LEMMA JwtGuardInv == ASSUME Inv, JwtGuard PROVE Inv'
<1>0. Runs("Jwt")
  BY DEF JwtGuard
<1>1. CASE Refuse("401")
  BY <1>0, <1>1, RefuseInv
<1>2. ASSUME Verified, PassAs(Claims(bearer)), verified' = now
      PROVE  Inv'
  <2>1. PassedAsBearer'
    BY <1>0, <1>2, VerifiedBearer, RunsWhere
    DEF PassedAsBearer, Signed, Verified, PassAs, Runs, request, Claims
  <2>2. PassedOK'
    BY <1>0, <1>2, <2>1, RunsWhere DEF PassedOK, PassAs, Runs, request
  <2> QED BY <1>0, <1>2, <2>2, VerifiedBearer, PassInv
<1> QED BY <1>1, <1>2 DEF JwtGuard

\* A request that has passed a JWT's guard comes with an identity.
LEMMA PassedIdentity == ASSUME Inv, PassedAsBearer PROVE user \in Identity
<1>1. PICK i \in 1..Len(tokens) : tokens[i] = bearer
  BY DEF PassedAsBearer
<1>2. bearer \in Token
  BY <1>1, InvParts, Fields
<1> QED BY <1>2, TokenFields DEF PassedAsBearer

LEMMA TokenRevocationGuardInv == ASSUME Inv, TokenRevocationGuard PROVE Inv'
<1>0. Runs("TokenRevocation") /\ PassAs(user) /\ verified' = verified
  BY DEF TokenRevocationGuard
<1>1. PassedAsBearer /\ route = "me" /\ Tail(todo) = <<"Roles">>
  BY <1>0, RunsWhere
<1>2. PassedAsBearer'
  BY <1>0, <1>1 DEF PassedAsBearer, PassAs, Runs, request, ServiceOK
<1>3. PassedOK'
  BY <1>0, <1>1, <1>2 DEF PassedOK, PassAs, Runs, request
<1> QED BY <1>0, <1>1, <1>3, PassedIdentity, PassInv, InvParts, Fields

LEMMA RolesGuardInv == ASSUME Inv, RolesGuard PROVE Inv'
<1>0. Runs("Roles") /\ TypeOK /\ BearerOK
  BY InvParts DEF RolesGuard
<1>1. CASE Refuse("403")
  BY <1>0, <1>1, RefuseInv
<1>2. ASSUME Allowed, PassAs(user), verified' = verified
      PROVE  Inv'
  <2>1. PassedAsBearer /\ route \in UsersRoute \cup {"me"} /\ Tail(todo) = <<>>
    BY <1>0, RunsWhere
  <2>2. PassedAsBearer'
    BY <1>0, <1>2, <2>1 DEF PassedAsBearer, PassAs, Runs, request, ServiceOK
  <2>3. PassedOK'
    BY <1>0, <1>2, <2>1, <2>2 DEF PassedOK, PassAs, Runs, request, Allowed, UsersRoute
  <2>4. user \in Identity
    BY <2>1, PassedIdentity
  <2> QED BY <1>0, <1>2, <2>3, <2>4, PassInv, Fields
<1> QED BY <1>1, <1>2 DEF RolesGuard

\* Once a request has passed its guards, its handler leaves everything but owner
\* and answer as it is.
LEMMA HandledStage ==
  ASSUME Inv, answer = "none", todo = <<>>, answer' = "handled",
         UNCHANGED <<serviceToken, now, table, tokens, request, todo, user, verified>>
  PROVE  StageOK'
<1>1. PassedOK /\ route \in Route
  BY InvParts, Fields DEF StageOK
<1>2. GuardsOf(route) # <<>>
  BY <1>1 DEF GuardsOf
<1>3. PassedAsBearer => PassedAsBearer'
  BY DEF PassedAsBearer, ServiceOK, request
<1> QED BY <1>1, <1>2, <1>3 DEF StageOK, PassedOK, Allowed, request

LEMMA HandleInv == ASSUME Inv, Handle PROVE Inv'
<1>0. /\ TypeOK /\ answer = "none" /\ todo = <<>> /\ answer' = "handled" /\ route # "me"
      /\ UNCHANGED <<serviceToken, now, table, tokens, request, todo, user, verified>>
  BY InvParts DEF Handle, UsersRoute
<1>1. owner' \in UserId \cup {0, NULL}
  <2>1. CASE owner' = OwnerId(user)
    BY <1>0, <2>1, Fields DEF OwnerId, Identity, Id
  <2>2. CASE owner' = owner
    BY <1>0, <2>2, Fields
  <2> QED BY <2>1, <2>2 DEF Handle
<1>2. TypeOK'
  BY <1>0, <1>1, Fields, RequestType
<1>3. StageOK' /\ MeOK'
  BY <1>0, HandledStage DEF MeOK, request
<1> QED BY <1>0, <1>2, <1>3, CredentialsKept

LEMMA MeInv == ASSUME Inv, Me PROVE Inv'
<1>0. /\ TypeOK /\ answer = "none" /\ todo = <<>> /\ route = "me"
      /\ UNCHANGED <<serviceToken, now, table, tokens, request, todo, user, verified>>
  BY InvParts DEF Me
<1>1. CASE answer' = "401" /\ owner' = owner
  <2>1. TypeOK'
    BY <1>0, <1>1, Fields, RequestType
  <2> QED BY <1>0, <1>1, <2>1, CredentialsKept DEF StageOK, MeOK
<1>2. ASSUME Exists(AsNumber(user.sub)), answer' = "handled", owner' = AsNumber(user.sub)
      PROVE  Inv'
  <2>1. owner' \in UserId
    BY <1>2 DEF Exists
  <2>2. TypeOK'
    BY <1>0, <1>2, <2>1, Fields, RequestType
  <2>3. PassedAsBearer
    <3>1. PassedOK
      BY <1>0, InvParts DEF StageOK
    <3>2. GuardsOf(route) # <<>>
      BY <1>0 DEF GuardsOf
    <3> QED BY <1>0, <3>1, <3>2 DEF PassedOK
  <2>4. bearer.sub = String(user.sub.of)
    <3>1. PICK i \in 1..Len(tokens) : tokens[i] = bearer
      BY <2>3 DEF PassedAsBearer
    <3>2. SignedOK(bearer)
      BY <3>1, InvParts DEF TokensOK
    <3> QED BY <2>3, <3>2 DEF SignedOK, PassedAsBearer, Claims, String
  <2>5. MeOK'
    BY <1>0, <1>2, <2>4 DEF MeOK, AsNumber, request, String
  <2>6. StageOK'
    BY <1>0, <1>2, HandledStage
  <2> QED BY <1>0, <2>2, <2>5, <2>6, CredentialsKept
<1> QED BY <1>0, <1>1, <1>2 DEF Me

----------------------------------------------------------------------------
(* The theorems *)

LEMMA InitInv == ASSUME Init PROVE Inv
<1>1. role \in [UserId -> Role \cup {NULL}] /\ lastHeld \in [UserId -> [Role -> Nat \cup {NULL}]]
  BY RoleAssumption DEF Init
<1>2. TypeOK
  BY <1>1 DEF Init, TypeOK, Route
<1>3. BearerOK /\ TokensOK /\ StageOK /\ MeOK
  BY DEF Init, BearerOK, TokensOK, StageOK, MeOK
<1> QED BY <1>2, <1>3, InvParts

LEMMA NextInv == ASSUME Inv, [Next]_vars PROVE Inv'
<1>1. CASE Tick
  BY <1>1, TickInv
<1>2. ASSUME NEW u \in UserId, Sign(u) PROVE Inv'
  BY <1>2, SignInv
<1>3. ASSUME NEW u \in UserId, NEW x \in Role \cup {NULL}, ChangeRole(u, x) PROVE Inv'
  BY <1>3, ChangeRoleInv
<1>4. ASSUME NEW rt \in Route, NEW h \in Secret \cup {NULL}, NEW b \in Bearer, Arrive(rt, h, b)
      PROVE  Inv'
  BY <1>4, ArriveInv
<1>5. CASE ServiceTokenGuard
  BY <1>5, ServiceTokenGuardInv
<1>6. CASE ServiceAndJwtGuard
  BY <1>6, ServiceAndJwtGuardInv
<1>7. CASE JwtGuard
  BY <1>7, JwtGuardInv
<1>8. CASE TokenRevocationGuard
  BY <1>8, TokenRevocationGuardInv
<1>9. CASE RolesGuard
  BY <1>9, RolesGuardInv
<1>10. CASE Handle
  BY <1>10, HandleInv
<1>11. CASE Me
  BY <1>11, MeInv
<1>12. CASE UNCHANGED vars
  <2>1. TypeOK /\ UNCHANGED <<serviceToken, now, table, tokens, request>>
    BY <1>12, InvParts DEF vars
  <2>2. TypeOK'
    BY <1>12, <2>1, Fields, RequestType DEF vars
  <2>3. StageOK' /\ MeOK'
    BY <1>12, RequestKept, <2>1, Fields DEF vars
  <2> QED BY <2>1, <2>2, <2>3, CredentialsKept
<1> QED BY <1>1, <1>2, <1>3, <1>4, <1>5, <1>6, <1>7, <1>8, <1>9, <1>10, <1>11, <1>12 DEF Next

\* What the guards have established of a request fits the guards that are still
\* to run, and every token carries a role its user had when it was signed.
THEOREM GuardsInvariant == Spec => []Inv
  BY InitInv, NextInv, PTL DEF Spec

\* Every reachable state is well typed; tokens live for TTL.
THEOREM GuardsTypeCorrect == Spec => []TypeOK
<1>1. Inv => TypeOK
  BY DEF Inv
<1> QED BY <1>1, GuardsInvariant, PTL

\* Handlers behind a JWT run for the user of a signed, unexpired token, and
\* behind ServiceAndJwtGuard never for the injected service user.
THEOREM HandledForTheBearer == Spec => []HandledAsBearer
<1>1. Inv => HandledAsBearer
  <2> SUFFICES ASSUME Inv, answer = "handled", route # "internal"
               PROVE  /\ \E i \in 1..Len(tokens) : tokens[i] = bearer
                      /\ user = Claims(bearer) /\ verified < bearer.exp
                      /\ route # "me" => header = serviceToken /\ header # Insecure
                      /\ route = "me" => bearer.sub = String(owner)
    BY DEF HandledAsBearer
  <2>1. PassedAsBearer /\ MeOK
    BY InvParts DEF StageOK, PassedOK
  <2> QED BY <2>1 DEF PassedAsBearer, ServiceOK, MeOK
<1> QED BY <1>1, GuardsInvariant, PTL

\* A role that was taken away is of use for less than TTL more.
THEOREM LostRolesExpire == Spec => []RoleLossTakesEffect
<1>1. Inv => RoleLossTakesEffect
  <2> SUFFICES ASSUME Inv, answer = "handled", Required(route) # {}
               PROVE  \E u \in UserId, x \in Required(route) :
                         bearer.sub = String(u) /\ Had(u, x, verified + 1 - TTL)
    BY DEF RoleLossTakesEffect
  <2>1. PassedAsBearer /\ user.roles \cap Required(route) # {} /\ TypeOK /\ TokensOK
    BY InvParts DEF StageOK, PassedOK, Allowed, Required
  <2>2. PICK i \in 1..Len(tokens) : tokens[i] = bearer
    BY <2>1 DEF PassedAsBearer
  <2>3. bearer \in Token /\ SignedOK(bearer) /\ verified \in Nat /\ verified < bearer.exp
    BY <2>1, <2>2, Fields DEF TokensOK, PassedAsBearer
  <2>4. PICK u \in UserId, x \in Role :
           bearer.sub = String(u) /\ bearer.roles = {x} /\ Had(u, x, bearer.iat)
    BY <2>3 DEF SignedOK
  <2>5. x \in Required(route)
    BY <2>1, <2>4 DEF PassedAsBearer, Claims
  <2>6. bearer.iat \in Nat /\ TTL \in Nat /\ verified + 1 - TTL <= bearer.iat
    BY <2>3, TokenFields, BoundsAssumption
  <2>7. Had(u, x, verified + 1 - TTL)
    <3>1. lastHeld[u][x] \in Nat \cup {NULL}
      BY <2>1, <2>4, Fields
    <3> QED BY <2>3, <2>4, <2>6, <3>1, BoundsAssumption DEF Had
  <2> QED BY <2>4, <2>5, <2>7
<1> QED BY <1>1, GuardsInvariant, PTL

----------------------------------------------------------------------------
(* @OwnerId and the tokens of this platform *)

\* What a handler of events-service takes for the caller: undefined, for signAccess
\* signs sub as a string, and JwtStrategy.validate returns no id.
OwnerUnknown == answer = "handled" /\ route = "events" => owner = NULL

\* Whoever passed the guards of /events has a sub that is a string, and no id.
LEMMA EventsCaller ==
  ASSUME Inv, answer = "none", todo = <<>>, route = "events"
  PROVE  OwnerId(user) = NULL
<1>1. PassedAsBearer
  <2>1. PassedOK /\ GuardsOf(route) # <<>>
    BY InvParts DEF StageOK, GuardsOf, UsersRoute
  <2> QED BY <2>1 DEF PassedOK
<1>2. PICK i \in 1..Len(tokens) : tokens[i] = bearer
  BY <1>1 DEF PassedAsBearer
<1>3. SignedOK(bearer)
  BY <1>2, InvParts DEF TokensOK
<1>4. PICK u \in UserId : bearer.sub = String(u)
  BY <1>3 DEF SignedOK
<1>5. user.sub.type = "string" /\ user.id = NULL
  BY <1>1, <1>4 DEF PassedAsBearer, Claims, String
<1> QED BY <1>5 DEF OwnerId

LEMMA OwnerUnknownNext == Inv /\ OwnerUnknown /\ [Next]_vars => OwnerUnknown'
<1> SUFFICES ASSUME Inv, OwnerUnknown, [Next]_vars
             PROVE  OwnerUnknown'
  OBVIOUS
<1>1. CASE Handle
  <2>1. CASE route = "events"
    BY <1>1, <2>1, EventsCaller DEF Handle, OwnerUnknown, UsersRoute
  <2>2. CASE route # "events"
    BY <1>1, <2>2 DEF Handle, OwnerUnknown, request
  <2> QED BY <2>1, <2>2
<1>2. CASE Me
  BY <1>2 DEF Me, OwnerUnknown, request
<1>3. ASSUME NEW guard, Runs(guard), Refuse("401") \/ Refuse("403") \/ answer' = answer
      PROVE  OwnerUnknown'
  BY <1>3 DEF OwnerUnknown, Runs, Refuse, request
<1>4. CASE ServiceTokenGuard \/ ServiceAndJwtGuard \/ JwtGuard \/ TokenRevocationGuard \/ RolesGuard
  BY <1>3, <1>4
  DEF ServiceTokenGuard, ServiceAndJwtGuard, JwtGuard, TokenRevocationGuard, RolesGuard, PassAs
<1>5. CASE UNCHANGED <<request, owner, answer>>
  BY <1>5 DEF OwnerUnknown, request
<1>6. ASSUME NEW rt \in Route, NEW h \in Secret \cup {NULL}, NEW b \in Bearer, Arrive(rt, h, b)
      PROVE  OwnerUnknown'
  BY <1>6 DEF Arrive, OwnerUnknown
<1>7. Tick \/ (\E u \in UserId : Sign(u) \/ \E x \in Role \cup {NULL} : ChangeRole(u, x))
        \/ UNCHANGED vars
      => UNCHANGED <<request, owner, answer>>
  BY DEF Tick, Sign, ChangeRole, vars
<1> QED BY <1>1, <1>2, <1>4, <1>5, <1>6, <1>7 DEF Next

\* For any users, roles and tokens: no handler of events-service that answers has
\* ever learned who called it (owner-id.decorator.ts 8).
THEOREM OwnersAreUnknown == Spec => []OwnerUnknown
<1>1. Init => OwnerUnknown
  BY DEF Init, OwnerUnknown
<1> QED BY <1>1, OwnerUnknownNext, GuardsInvariant, PTL DEF Spec

\* So OwnerIsBearer, what https/events/events.http 207 says, is false in every
\* state in which such a handler has answered.
THEOREM OwnersAreNeverTheBearer ==
  Spec => [](answer = "handled" /\ route = "events" => owner # bearer.sub.of)
<1>1. Inv /\ OwnerUnknown => (answer = "handled" /\ route = "events" => owner # bearer.sub.of)
  <2> SUFFICES ASSUME Inv, OwnerUnknown, answer = "handled", route = "events"
               PROVE  owner # bearer.sub.of
    OBVIOUS
  <2>1. PassedAsBearer
    BY InvParts DEF StageOK, PassedOK, GuardsOf, UsersRoute
  <2>2. PICK i \in 1..Len(tokens) : tokens[i] = bearer
    BY <2>1 DEF PassedAsBearer
  <2>3. PICK u \in UserId : bearer.sub = String(u)
    BY <2>2, InvParts DEF TokensOK, SignedOK
  <2>4. bearer.sub.of \in Nat
    BY <2>3, IdAssumption DEF String
  <2> QED BY <2>4, NULLAssumption DEF OwnerUnknown
<1> QED BY <1>1, OwnersAreUnknown, GuardsInvariant, PTL
=============================================================================
