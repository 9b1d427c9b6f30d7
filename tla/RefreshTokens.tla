--------------------------- MODULE RefreshTokens ---------------------------
(***************************************************************************)
(* The refresh-token store of auth-service: AuthService.login, refresh and *)
(* logout (auth.service.ts) over the table auth_refresh_tokens.  Every     *)
(* await is a point where other requests run, so a handler is a sequence   *)
(* of actions, one per statement it sends to the database or call it makes *)
(* to users-service.  bcrypt calls touch no shared state and are folded    *)
(* into the step before them.                                              *)
(*                                                                         *)
(* A raw token is represented by the id of its row: raw tokens are random  *)
(* and bcrypt.compare accepts only the one that was hashed.  A request of  *)
(* this module is one HTTP request, used once.                             *)
(***************************************************************************)
EXTENDS Naturals, Sequences, TypeOrm

CONSTANTS
    User,       \* user ids that users-service knows or once knew
    Request,    \* HTTP requests to /auth/login, /auth/refresh, /auth/logout
    TTL,        \* REFRESH_EXPIRES_DAYS, in ticks of the clock
    MaxTime,    \* bound on the clock
    NULL        \* SQL NULL

ASSUME TTLAssumption == TTL \in Nat
ASSUME MaxTimeAssumption == MaxTime \in Nat
ASSUME NULLAssumption == NULL \notin Nat

VARIABLES
    now,        \* the clock
    tokens,     \* the table: row i is the row with id i; rows are never deleted
    pc,         \* pc[r]: where the handler of r is suspended, or its answer
    op,         \* op[r]: the endpoint r called
    user,       \* user[r]: the user a login authenticated
    tok,        \* tok[r]: the row `current` the handler matched, 0 if none
    entity,     \* entity[r]: the two columns of `current` the code assigns
    loaded,     \* loaded[r]: the same columns as save's SELECT returned them
    newTok      \* newTok[r]: the id of the row issueRefresh inserted, 0 if none

vars == <<now, tokens, pc, op, user, tok, entity, loaded, newTok>>

Op == {"login", "refresh", "logout"}
InFlight == {"insert", "reply", "select", "update", "getById", "notify"}
\* Answers: 200, 401 (credentials or token), 401 'User not found',
\* {revoked: 0}, and no answer or a 500.
Answer == {"ok", "unauthorized", "userNotFound", "revoked0", "failed"}

Columns == [revokedAt : Nat \cup {NULL}, replacedBy : Nat \cup {NULL}]
Row == [userId : User, expiresAt : Nat,
        revokedAt : Nat \cup {NULL}, replacedBy : Nat \cup {NULL}]

TypeOK ==
    /\ now \in Nat
    /\ tokens \in Seq(Row)
    /\ pc \in [Request -> {"idle"} \cup InFlight \cup Answer]
    /\ op \in [Request -> Op \cup {"none"}]
    /\ user \in [Request -> User \cup {NULL}]
    /\ tok \in [Request -> Nat]
    /\ entity \in [Request -> Columns]
    /\ loaded \in [Request -> Columns]
    /\ newTok \in [Request -> Nat]

Unset == [revokedAt |-> NULL, replacedBy |-> NULL]

Init ==
    /\ now = 0
    /\ tokens = <<>>
    /\ pc = [r \in Request |-> "idle"]
    /\ op = [r \in Request |-> "none"]
    /\ user = [r \in Request |-> NULL]
    /\ tok = [r \in Request |-> 0]
    /\ entity = [r \in Request |-> Unset]
    /\ loaded = [r \in Request |-> Unset]
    /\ newTok = [r \in Request |-> 0]

Goto(r, label) == pc' = [pc EXCEPT ![r] = label]

----------------------------------------------------------------------------
(* Login *)

\* users.validateUser answered with an identity.
LoginValid(r, u) ==
    /\ pc[r] = "idle"
    /\ op' = [op EXCEPT ![r] = "login"]
    /\ user' = [user EXCEPT ![r] = u]
    /\ Goto(r, "insert")
    /\ UNCHANGED <<now, tokens, tok, entity, loaded, newTok>>

\* users.validateUser answered null: wrong credentials, or users-service did
\* not answer at all.
LoginRefused(r) ==
    /\ pc[r] = "idle"
    /\ op' = [op EXCEPT ![r] = "login"]
    /\ Goto(r, "unauthorized")
    /\ UNCHANGED <<now, tokens, user, tok, entity, loaded, newTok>>

----------------------------------------------------------------------------
(* Matching the presented token, in refresh and in logout *)

\* Some client was given the raw token of row t.
Delivered(t) ==
    \E r \in Request : pc[r] = "ok" /\ op[r] \in {"login", "refresh"} /\ newTok[r] = t

\* Mutant: a candidates query without `revokedAt: IsNull()`.
CandidateEvenRevoked(t) == tokens[t].expiresAt > now

\* The WHERE clause of the candidates query.
Candidate(t) == tokens[t].revokedAt = NULL /\ tokens[t].expiresAt > now

\* The candidates query and the bcrypt scan over its answer: the row object
\* is kept as it was when the query ran.
Match(r, t, o) ==
    /\ Candidate(t)
    /\ op' = [op EXCEPT ![r] = o]
    /\ tok' = [tok EXCEPT ![r] = t]
    /\ entity' = [entity EXCEPT ![r] = [revokedAt |-> tokens[t].revokedAt,
                                        replacedBy |-> tokens[t].replacedBy]]
    /\ UNCHANGED <<now, tokens, user, loaded, newTok>>

NoMatch(r, t, o) ==
    /\ ~ Candidate(t)
    /\ op' = [op EXCEPT ![r] = o]
    /\ UNCHANGED <<now, tokens, user, tok, entity, loaded, newTok>>

RefreshFind(r, t) ==
    /\ pc[r] = "idle" /\ t \in 1..Len(tokens) /\ Delivered(t)
    /\ \/ Match(r, t, "refresh") /\ Goto(r, "insert")
       \/ NoMatch(r, t, "refresh") /\ Goto(r, "unauthorized")

LogoutFind(r, t) ==
    /\ pc[r] = "idle" /\ t \in 1..Len(tokens) /\ Delivered(t)
    /\ \/ Match(r, t, "logout") /\ Goto(r, "select")
       \/ NoMatch(r, t, "logout") /\ Goto(r, "revoked0")

----------------------------------------------------------------------------
(* issueRefresh *)

\* Mutant: a row without an expiry date.
NewRowWithoutExpiry(u) == [userId |-> u, expiresAt |-> NULL,
                           revokedAt |-> NULL, replacedBy |-> NULL]

NewRow(u) == [userId |-> u, expiresAt |-> now + TTL,
              revokedAt |-> NULL, replacedBy |-> NULL]

\* Mutant: an INSERT that is sent again when its answer is lost.
IssueRefreshRetried(r) ==
    /\ pc[r] = "insert"
    /\ tokens' = Append(tokens, NewRow(IF op[r] = "login" THEN user[r]
                                       ELSE tokens[tok[r]].userId))
    /\ newTok' = [newTok EXCEPT ![r] = Len(tokens) + 1]
    /\ UNCHANGED pc \/ Goto(r, IF op[r] = "login" THEN "reply" ELSE "select")
    /\ UNCHANGED <<now, op, user, tok, entity, loaded>>

\* refreshRepo.save of a new entity: one INSERT.  A login has only its answer
\* left; a refresh goes on to revoke the token it consumes.
IssueRefresh(r) ==
    /\ pc[r] = "insert"
    /\ tokens' = Append(tokens, NewRow(IF op[r] = "login" THEN user[r]
                                       ELSE tokens[tok[r]].userId))
    /\ newTok' = [newTok EXCEPT ![r] = Len(tokens) + 1]
    /\ Goto(r, IF op[r] = "login" THEN "reply" ELSE "select")
    /\ UNCHANGED <<now, op, user, tok, entity, loaded>>

Reply(r) ==
    /\ pc[r] = "reply"
    /\ Goto(r, "ok")
    /\ UNCHANGED <<now, tokens, op, user, tok, entity, loaded, newTok>>

----------------------------------------------------------------------------
(* refreshRepo.save(current) *)

\* The SELECT of save, for an entity whose columns have become `columns`.
SelectFor(r, columns) ==
    /\ pc[r] = "select"
    /\ entity' = [entity EXCEPT ![r] = columns]
    /\ loaded' = [loaded EXCEPT ![r] =
                    [revokedAt |-> tokens[tok[r]].revokedAt,
                     replacedBy |-> tokens[tok[r]].replacedBy]]
    /\ Goto(r, "update")
    /\ UNCHANGED <<now, tokens, op, user, tok, newTok>>

\* Mutant: refresh links the successor but forgets to set revokedAt.
SaveSelectForgetsRevokedAt(r) ==
    SelectFor(r, [revokedAt |-> IF op[r] = "refresh" THEN NULL ELSE now,
                  replacedBy |-> IF op[r] = "refresh" THEN newTok[r]
                                 ELSE entity[r].replacedBy])

\* Mutant: the link names the newest row of the table.
SaveSelectLinksNewest(r) ==
    SelectFor(r, [revokedAt |-> now,
                  replacedBy |-> IF op[r] = "refresh" THEN Len(tokens)
                                 ELSE entity[r].replacedBy])

\* Mutant: refresh forgets to set replacedByTokenId.
SaveSelectForgetsLink(r) == SelectFor(r, [entity[r] EXCEPT !.revokedAt = now])

\* current.revokedAt = nowUtc(), and in refresh also current.replacedByTokenId
\* = newEntity.id; then save's SELECT.
SaveSelect(r) ==
    SelectFor(r, [revokedAt |-> now,
                  replacedBy |-> IF op[r] = "refresh" THEN newTok[r]
                                 ELSE entity[r].replacedBy])

\* The row r writes, after its UPDATE.
Saved(r) ==
    LET row == tokens[tok[r]]
    IN  [row EXCEPT
           !.revokedAt = SavedColumn(row.revokedAt, loaded[r].revokedAt, entity[r].revokedAt),
           !.replacedBy = SavedColumn(row.replacedBy, loaded[r].replacedBy, entity[r].replacedBy)]

\* save's UPDATE.  A refresh asks for the user next, a logout tells
\* users-service.
SaveUpdate(r) ==
    /\ pc[r] = "update"
    /\ tokens' = [tokens EXCEPT ![tok[r]] = Saved(r)]
    /\ Goto(r, IF op[r] = "refresh" THEN "getById" ELSE "notify")
    /\ UNCHANGED <<now, op, user, tok, entity, loaded, newTok>>

----------------------------------------------------------------------------
(* The calls to users-service that end a handler, and failures *)

\* users.getById answered with the user, or with null: the user is gone, or
\* three attempts failed.  The rotation is committed either way.
GetById(r) ==
    /\ pc[r] = "getById"
    /\ Goto(r, "ok") \/ Goto(r, "userNotFound")
    /\ UNCHANGED <<now, tokens, op, user, tok, entity, loaded, newTok>>

\* users.setLastLogoutAt returned; its result is not looked at.
Notify(r) ==
    /\ pc[r] = "notify"
    /\ Goto(r, "ok")
    /\ UNCHANGED <<now, tokens, op, user, tok, entity, loaded, newTok>>

\* A statement fails, the client goes away or the process dies: what is
\* committed stays, the rest of the handler does not run.  A crash of the
\* service is this step for every request in flight.
Abort(r) ==
    /\ pc[r] \in InFlight
    /\ Goto(r, "failed")
    /\ UNCHANGED <<now, tokens, op, user, tok, entity, loaded, newTok>>

Tick ==
    /\ now < MaxTime
    /\ now' = now + 1
    /\ UNCHANGED <<tokens, pc, op, user, tok, entity, loaded, newTok>>

----------------------------------------------------------------------------

\* What the event loop of the service does for a request in flight.
Step(r) ==
    IssueRefresh(r) \/ Reply(r) \/ SaveSelect(r) \/ SaveUpdate(r) \/ GetById(r) \/ Notify(r)

Next ==
    \/ \E r \in Request :
          \/ \E u \in User : LoginValid(r, u)
          \/ LoginRefused(r)
          \/ \E t \in 1..Len(tokens) : RefreshFind(r, t) \/ LogoutFind(r, t)
          \/ Step(r)
          \/ Abort(r)
    \/ Tick

Spec == Init /\ [][Next]_vars

----------------------------------------------------------------------------
(* Properties *)

\* r's UPDATE has been committed and the handler has gone on.
PastUpdate(r) ==
    \/ pc[r] \in {"getById", "userNotFound", "notify"}
    \/ pc[r] = "ok" /\ op[r] \in {"refresh", "logout"}

\* No other request ever matched the token that r presented.
Lone(r) == \A s \in Request \ {r} : tok[s] # tok[r]

\* Nothing un-revokes a token.  refresh and logout of one token write the same
\* row from entities they loaded earlier (auth.service.ts 106-108, 138-139),
\* and save writes back whatever column differs.
RevocationIsFinal ==
    [][\A t \in 1..Len(tokens) :
          tokens[t].revokedAt # NULL => tokens'[t].revokedAt # NULL]_vars

\* Once a refresh or a logout has got past its save, whatever it answers and
\* whatever other requests still write, the token it was given is revoked, and
\* the successor it minted is a later row of the same user.
SpentStaysSpent ==
    \A r \in Request : PastUpdate(r) =>
        /\ tokens[tok[r]].revokedAt # NULL
        /\ op[r] = "refresh" =>
              /\ newTok[r] \in (tok[r] + 1)..Len(tokens)
              /\ tokens[newTok[r]].userId = tokens[tok[r]].userId

\* A token that a completed refresh or logout consumed is refused when it is
\* presented again (https/auth/auth.http:93), so two rotations of one token can
\* both succeed only if they overlapped.
SpentIsRefused ==
    [][\A r \in Request :
          pc[r] = "idle" /\ tok'[r] # 0 =>
             \A s \in Request : PastUpdate(s) => tok[s] # tok'[r]]_vars

\* replacedByTokenId never names a token minted for something else: it is
\* only set on a revoked row, and names the later row that a refresh of this
\* very row inserted.  So the links form a forest that follows the sessions.
LinksFollowRotations ==
    \A t \in 1..Len(tokens) : tokens[t].replacedBy # NULL =>
        /\ tokens[t].revokedAt # NULL
        /\ tokens[t].replacedBy > t
        /\ \E r \in Request : op[r] = "refresh" /\ tok[r] = t
                              /\ newTok[r] = tokens[t].replacedBy

\* The link of a rotated token is lost or taken over only in a race: if no
\* other request matched the token, it names the successor r minted.  (With a
\* logout or a second refresh in flight it may end NULL or name the other's.)
LoneRotationIsLinked ==
    \A r \in Request :
        op[r] = "refresh" /\ PastUpdate(r) /\ Lone(r)
        => tokens[tok[r]].replacedBy = newTok[r]

----------------------------------------------------------------------------
(* The inductive invariant behind the properties *)

\* Which locals a handler has set, by where it is.
HandlerInv ==
    \A r \in Request :
        /\ tok[r] \in 0..Len(tokens) /\ newTok[r] \in 0..Len(tokens)
        /\ op[r] \in {"none", "login"} => tok[r] = 0
        /\ op[r] = "logout" => newTok[r] = 0
        /\ pc[r] = "idle" => op[r] = "none" /\ newTok[r] = 0
        /\ pc[r] = "insert" =>
              /\ newTok[r] = 0
              /\ \/ op[r] = "login" /\ user[r] \in User
                 \/ op[r] = "refresh" /\ tok[r] # 0
        /\ pc[r] \in {"select", "update"} => op[r] \in {"refresh", "logout"} /\ tok[r] # 0
        /\ pc[r] = "reply" => op[r] = "login"
        /\ pc[r] \in {"getById", "userNotFound"} => op[r] = "refresh" /\ tok[r] # 0
        /\ pc[r] = "notify" => op[r] = "logout" /\ tok[r] # 0
        /\ pc[r] = "ok" /\ op[r] # "login" => op[r] # "none" /\ tok[r] # 0
        /\ op[r] = "refresh" /\ pc[r] \in {"select", "update", "getById", "ok", "userNotFound"}
              => newTok[r] # 0

\* A successor is a later row of the same user.
SuccessorInv ==
    \A r \in Request : op[r] = "refresh" /\ newTok[r] # 0 =>
        /\ tok[r] # 0 /\ tok[r] < newTok[r]
        /\ tokens[newTok[r]].userId = tokens[tok[r]].userId

\* What a handler's save may write: the entity it holds revokes the row, and
\* if its SELECT saw the row revoked then the row still is.
SaveInv ==
    \A r \in Request :
        /\ pc[r] \in {"insert", "select"} /\ tok[r] # 0 => entity[r].replacedBy = NULL
        /\ pc[r] = "update" =>
              /\ entity[r].revokedAt # NULL
              /\ entity[r].replacedBy = IF op[r] = "refresh" THEN newTok[r] ELSE NULL
              /\ loaded[r].revokedAt # NULL => tokens[tok[r]].revokedAt # NULL
        /\ PastUpdate(r) => tokens[tok[r]].revokedAt # NULL

\* A rotation nobody races finds its row as it left it.
LoneInv ==
    \A r \in Request : op[r] = "refresh" /\ tok[r] # 0 /\ Lone(r) =>
        /\ pc[r] \in {"insert", "select", "update"} => tokens[tok[r]].replacedBy = NULL
        /\ pc[r] = "update" => loaded[r].replacedBy = NULL
        /\ PastUpdate(r) => tokens[tok[r]].replacedBy = newTok[r]

Inv ==
    /\ TypeOK
    /\ HandlerInv
    /\ SuccessorInv
    /\ SaveInv
    /\ LinksFollowRotations
    /\ LoneInv

----------------------------------------------------------------------------
(* The refinement *)

LedgerPhase(r) ==
    CASE pc[r] = "idle" -> "new"
      [] pc[r] = "insert" -> IF op[r] = "login" THEN "login" ELSE "rotating"
      [] pc[r] = "reply" -> "minted"
      [] pc[r] \in {"select", "update"} -> IF op[r] = "refresh" THEN "minted" ELSE "ending"
      [] pc[r] \in {"getById", "notify"} -> "spent"
      [] OTHER -> "closed"

Ledger == INSTANCE TokenLedger WITH
    owner <- [i \in 1..Len(tokens) |-> tokens[i].userId],
    revoked <- {i \in 1..Len(tokens) : tokens[i].revokedAt # NULL},
    phase <- [r \in Request |-> LedgerPhase(r)],
    claim <- tok,
    minted <- newTok

\* The two-statement saves implement the ledger's atomic revocations.
ImplementsLedger == Ledger!LedgerSpec
=============================================================================
