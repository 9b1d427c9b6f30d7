------------------------ MODULE RefreshTokensProofs ------------------------
(***************************************************************************)
(* Proofs about RefreshTokens, for every set of users and requests and     *)
(* every lifetime.  Inv is inductive; the properties follow from it.       *)
(***************************************************************************)
EXTENDS RefreshTokens, TLAPS

USE NULLAssumption, TTLAssumption, MaxTimeAssumption

\* save's UPDATE leaves a column as it is or gives it the entity's value
\* (TypeORM's save, cited for refreshRepo.save(current)).
LEMMA SavedColumnCases ==
    ASSUME NEW db, NEW old, NEW new
    PROVE  /\ SavedColumn(db, old, new) \in {db, new}
           /\ old = new => SavedColumn(db, old, new) = db
           /\ old # new => SavedColumn(db, old, new) = new
BY DEF SavedColumn

\* What the INSERT of issueRefresh does to the table.
LEMMA InsertEffect ==
    ASSUME TypeOK, HandlerInv, NEW r \in Request, IssueRefresh(r)
    PROVE  /\ tokens' \in Seq(Row)
           /\ Len(tokens') = Len(tokens) + 1
           /\ \A i \in 1..Len(tokens) : tokens'[i] = tokens[i]
           /\ tokens'[Len(tokens) + 1].revokedAt = NULL
           /\ tokens'[Len(tokens) + 1].replacedBy = NULL
           /\ op[r] = "refresh" =>
                 tokens'[Len(tokens) + 1].userId = tokens[tok[r]].userId
<1> DEFINE u == IF op[r] = "login" THEN user[r] ELSE tokens[tok[r]].userId
<1>1. u \in User
  <2>1. CASE op[r] = "login"
    BY <2>1 DEF HandlerInv, IssueRefresh
  <2>2. CASE op[r] = "refresh" /\ tok[r] # 0
    <3>1. tok[r] \in 1..Len(tokens)
      BY <2>2 DEF HandlerInv, TypeOK
    <3>2. tokens[tok[r]] \in Row
      BY <3>1 DEF TypeOK
    <3>. QED  BY <2>2, <3>2 DEF Row
  <2>. QED  BY <2>1, <2>2 DEF HandlerInv, IssueRefresh
<1>2. NewRow(u) \in Row
  BY <1>1 DEF NewRow, Row, TypeOK
<1>3. tokens' = Append(tokens, NewRow(u))
  BY DEF IssueRefresh
<1>. HIDE DEF u
<1>4. tokens'[Len(tokens) + 1] = NewRow(u)
  BY <1>2, <1>3 DEF TypeOK
<1>5. op[r] = "refresh" => u = tokens[tok[r]].userId
  BY DEF u
<1>. QED  BY <1>2, <1>3, <1>4, <1>5 DEF TypeOK, NewRow

\* What the UPDATE of refreshRepo.save(current) does to the table.
LEMMA UpdateEffect ==
    ASSUME TypeOK, HandlerInv, SaveInv, NEW r \in Request, SaveUpdate(r)
    PROVE  /\ tok[r] \in 1..Len(tokens)
           /\ tokens' \in Seq(Row)
           /\ Len(tokens') = Len(tokens)
           /\ \A i \in 1..Len(tokens) : i # tok[r] => tokens'[i] = tokens[i]
           /\ \A i \in 1..Len(tokens) : tokens'[i].userId = tokens[i].userId
           /\ tokens'[tok[r]].revokedAt # NULL
           /\ tokens'[tok[r]].replacedBy =
                 SavedColumn(tokens[tok[r]].replacedBy, loaded[r].replacedBy,
                             entity[r].replacedBy)
<1>1. tok[r] \in 1..Len(tokens)
  BY DEF HandlerInv, SaveUpdate, TypeOK
<1>2. tokens[tok[r]] \in Row
  BY <1>1 DEF TypeOK
<1>3. entity[r] \in Columns /\ loaded[r] \in Columns
  BY DEF TypeOK
<1>4. Saved(r) \in Row
  BY <1>2, <1>3 DEF Saved, Row, Columns, SavedColumn
<1>5. /\ Saved(r).userId = tokens[tok[r]].userId
      /\ Saved(r).replacedBy =
            SavedColumn(tokens[tok[r]].replacedBy, loaded[r].replacedBy, entity[r].replacedBy)
      /\ Saved(r).revokedAt =
            SavedColumn(tokens[tok[r]].revokedAt, loaded[r].revokedAt, entity[r].revokedAt)
  BY <1>2 DEF Saved, Row
<1>6. Saved(r).revokedAt # NULL
  BY <1>5 DEF SaveInv, SaveUpdate, SavedColumn
<1>7. tokens' = [tokens EXCEPT ![tok[r]] = Saved(r)]
  BY DEF SaveUpdate
<1>. QED  BY <1>1, <1>4, <1>5, <1>6, <1>7 DEF TypeOK

LEMMA InitInv == Init => Inv
<1>. SUFFICES ASSUME Init PROVE Inv
  OBVIOUS
<1>1. TypeOK
  BY DEF Init, TypeOK, Unset, Columns
<1>. QED
  BY <1>1 DEF Init, Inv, HandlerInv, SuccessorInv, SaveInv, LoneInv, LinksFollowRotations,
              PastUpdate, InFlight

\* A step that leaves the links of the old rows alone, adds only unlinked rows
\* and forgets no rotation keeps LinksFollowRotations.
LEMMA LinksKept ==
    ASSUME TypeOK, LinksFollowRotations, Len(tokens') \in Nat,
           \A t \in 1..Len(tokens') :
              \/ t \in 1..Len(tokens) /\ tokens'[t] = tokens[t]
              \/ tokens'[t].replacedBy = NULL,
           \A s \in Request : op[s] = "refresh" /\ newTok[s] # 0 =>
              op'[s] = op[s] /\ tok'[s] = tok[s] /\ newTok'[s] = newTok[s]
    PROVE  LinksFollowRotations'
<1>. SUFFICES ASSUME NEW t \in 1..Len(tokens'), tokens'[t].replacedBy # NULL
              PROVE  /\ tokens'[t].revokedAt # NULL
                     /\ tokens'[t].replacedBy > t
                     /\ \E s \in Request : op'[s] = "refresh" /\ tok'[s] = t
                                           /\ newTok'[s] = tokens'[t].replacedBy
  BY DEF LinksFollowRotations
<1>1. t \in 1..Len(tokens) /\ tokens'[t] = tokens[t]
  OBVIOUS
<1>2. tokens[t].revokedAt # NULL /\ tokens[t].replacedBy > t
  BY <1>1 DEF LinksFollowRotations
<1>3. PICK s \in Request : op[s] = "refresh" /\ tok[s] = t
                           /\ newTok[s] = tokens[t].replacedBy
  BY <1>1 DEF LinksFollowRotations
<1>4. newTok[s] # 0
  BY <1>1, <1>2, <1>3 DEF TypeOK
<1>. QED  BY <1>1, <1>2, <1>3, <1>4

\* Answering, failing and the clock: auth.service.ts 67-81, 99, 110-118, 136-146.
LEMMA QuietSteps ==
    ASSUME Inv, NEW r \in Request,
           \/ Reply(r) \/ GetById(r) \/ Notify(r) \/ Abort(r) \/ LoginRefused(r)
    PROVE  Inv'
<1>1. PICK l \in {"ok", "userNotFound", "failed", "unauthorized"} :
         /\ pc' = [pc EXCEPT ![r] = l]
         /\ l = "ok" => pc[r] \in {"reply", "getById", "notify"} /\ op' = op
         /\ l = "userNotFound" => pc[r] = "getById" /\ op' = op
         /\ l = "failed" => op' = op
         /\ l = "unauthorized" => pc[r] = "idle" /\ op' = [op EXCEPT ![r] = "login"]
  BY DEF Reply, GetById, Notify, Abort, LoginRefused, Goto
<1>2. UNCHANGED <<now, tokens, user, tok, entity, loaded, newTok>>
  BY DEF Reply, GetById, Notify, Abort, LoginRefused
<1>. USE <1>1, <1>2 DEF Inv
<1>3. TypeOK'
  BY DEF TypeOK, Answer, InFlight, Op
<1>4. HandlerInv'
  BY DEF HandlerInv, TypeOK
<1>5. SuccessorInv'
  BY DEF SuccessorInv, HandlerInv, TypeOK
<1>6. \A s \in Request : PastUpdate(s)' => PastUpdate(s)
  BY DEF PastUpdate, HandlerInv, TypeOK
<1>7. SaveInv'
  BY <1>6 DEF SaveInv, HandlerInv, TypeOK
<1>8. LinksFollowRotations'
  BY LinksKept DEF HandlerInv, TypeOK
<1>9. LoneInv'
  BY <1>6 DEF LoneInv, HandlerInv, TypeOK, Lone
<1>. QED  BY <1>3, <1>4, <1>5, <1>7, <1>8, <1>9

\* Accepted credentials: auth.service.ts 67-71.
LEMMA LoginStep ==
    ASSUME Inv, NEW r \in Request, NEW u \in User, LoginValid(r, u)
    PROVE  Inv'
<1>. USE DEF Inv, LoginValid, Goto
<1>1. TypeOK'
  BY DEF TypeOK, InFlight, Op
<1>2. HandlerInv'
  BY DEF HandlerInv, TypeOK
<1>3. SuccessorInv'
  BY DEF SuccessorInv, HandlerInv, TypeOK
<1>4. SaveInv'
  BY DEF SaveInv, HandlerInv, TypeOK, PastUpdate
<1>5. LinksFollowRotations'
  BY LinksKept DEF HandlerInv, TypeOK
<1>6. LoneInv'
  BY DEF LoneInv, HandlerInv, TypeOK, Lone, PastUpdate
<1>. QED  BY <1>1, <1>2, <1>3, <1>4, <1>5, <1>6

\* The candidates query and the scan: auth.service.ts 87-99 and 124-136.
LEMMA FindStep ==
    ASSUME Inv, NEW r \in Request, NEW t \in 1..Len(tokens),
           RefreshFind(r, t) \/ LogoutFind(r, t)
    PROVE  Inv'
<1>1. CASE \E o \in {"refresh", "logout"}, l \in {"unauthorized", "revoked0"} :
              NoMatch(r, t, o) /\ Goto(r, l) /\ pc[r] = "idle"
  <2>1. PICK o \in {"refresh", "logout"}, l \in {"unauthorized", "revoked0"} :
              NoMatch(r, t, o) /\ Goto(r, l) /\ pc[r] = "idle"
    BY <1>1
  <2>. USE <2>1 DEF Inv, NoMatch, Goto
  <2>2. TypeOK'
    BY DEF TypeOK, Answer, Op
  <2>3. HandlerInv'
    BY DEF HandlerInv, TypeOK
  <2>4. SuccessorInv'
    BY DEF SuccessorInv, HandlerInv, TypeOK
  <2>5. SaveInv'
    BY DEF SaveInv, HandlerInv, TypeOK, PastUpdate
  <2>6. LinksFollowRotations'
    BY LinksKept DEF HandlerInv, TypeOK
  <2>7. LoneInv'
    BY DEF LoneInv, HandlerInv, TypeOK, Lone, PastUpdate
  <2>. QED  BY <2>2, <2>3, <2>4, <2>5, <2>6, <2>7
<1>2. CASE \E o \in {"refresh", "logout"} :
              /\ Match(r, t, o) /\ pc[r] = "idle"
              /\ Goto(r, IF o = "refresh" THEN "insert" ELSE "select")
  <2>1. PICK o \in {"refresh", "logout"} :
              /\ Match(r, t, o) /\ pc[r] = "idle"
              /\ Goto(r, IF o = "refresh" THEN "insert" ELSE "select")
    BY <1>2
  <2>. USE <2>1 DEF Inv, Match, Goto
  <2>2. tokens[t] \in Row /\ tokens[t].revokedAt = NULL
    BY DEF TypeOK, Candidate
  <2>3. tokens[t].replacedBy = NULL
    BY <2>2 DEF LinksFollowRotations
  <2>4. TypeOK'
    <3>1. [revokedAt |-> tokens[t].revokedAt, replacedBy |-> tokens[t].replacedBy] \in Columns
      BY <2>2 DEF Columns, Row
    <3>. QED  BY <3>1 DEF TypeOK, InFlight, Op
  <2>5. HandlerInv'
    BY DEF HandlerInv, TypeOK
  <2>6. SuccessorInv'
    BY DEF SuccessorInv, HandlerInv, TypeOK
  <2>7. SaveInv'
    BY <2>3 DEF SaveInv, HandlerInv, TypeOK, PastUpdate
  <2>8. LinksFollowRotations'
    BY LinksKept DEF HandlerInv, TypeOK
  <2>9. LoneInv'
    BY <2>3 DEF LoneInv, HandlerInv, TypeOK, Lone, PastUpdate
  <2>. QED  BY <2>4, <2>5, <2>6, <2>7, <2>8, <2>9
<1>. QED  BY <1>1, <1>2 DEF RefreshFind, LogoutFind

\* The INSERT of issueRefresh: auth.service.ts 57.
LEMMA IssueStep ==
    ASSUME Inv, NEW r \in Request, IssueRefresh(r)
    PROVE  Inv'
<1>. USE DEF Inv
<1>1. /\ tokens' \in Seq(Row)
      /\ Len(tokens') = Len(tokens) + 1
      /\ \A i \in 1..Len(tokens) : tokens'[i] = tokens[i]
      /\ tokens'[Len(tokens) + 1].revokedAt = NULL
      /\ tokens'[Len(tokens) + 1].replacedBy = NULL
      /\ op[r] = "refresh" => tokens'[Len(tokens) + 1].userId = tokens[tok[r]].userId
  BY InsertEffect
<1>2. /\ pc[r] = "insert"
      /\ newTok' = [newTok EXCEPT ![r] = Len(tokens) + 1]
      /\ pc' = [pc EXCEPT ![r] = IF op[r] = "login" THEN "reply" ELSE "select"]
      /\ UNCHANGED <<now, op, user, tok, entity, loaded>>
  BY DEF IssueRefresh, Goto
<1>3. Len(tokens) \in Nat
  BY DEF TypeOK
<1>. USE <1>1, <1>2, <1>3
<1>4. TypeOK'
  BY DEF TypeOK, InFlight
<1>5. HandlerInv'
  BY DEF HandlerInv, TypeOK
<1>6. SuccessorInv'
  BY DEF SuccessorInv, HandlerInv, TypeOK
<1>7. \A s \in Request : PastUpdate(s)' <=> PastUpdate(s)
  BY DEF PastUpdate, HandlerInv, TypeOK
<1>8. SaveInv'
  <2>. SUFFICES ASSUME NEW s \in Request
                PROVE  /\ pc'[s] \in {"insert", "select"} /\ tok[s] # 0
                             => entity[s].replacedBy = NULL
                       /\ pc'[s] = "update" =>
                             /\ entity[s].revokedAt # NULL
                             /\ entity[s].replacedBy =
                                   IF op[s] = "refresh" THEN newTok'[s] ELSE NULL
                             /\ loaded[s].revokedAt # NULL => tokens'[tok[s]].revokedAt # NULL
                       /\ PastUpdate(s)' => tokens'[tok[s]].revokedAt # NULL
    BY DEF SaveInv
  <2>1. tok[s] # 0 => tokens'[tok[s]] = tokens[tok[s]]
    BY DEF HandlerInv, TypeOK
  <2>2. PastUpdate(s) => tok[s] # 0
    BY DEF PastUpdate, HandlerInv
  <2>3. pc'[s] = "update" => s # r /\ pc[s] = "update" /\ tok[s] # 0
    BY DEF HandlerInv, TypeOK
  <2>4. s # r => newTok'[s] = newTok[s]
    BY DEF TypeOK
  <2>5. pc'[s] \in {"insert", "select"} => pc[s] \in {"insert", "select"}
    BY DEF TypeOK
  <2>. QED  BY <1>7, <2>1, <2>2, <2>3, <2>4, <2>5 DEF SaveInv
<1>9. LinksFollowRotations'
  BY LinksKept DEF HandlerInv, TypeOK
<1>10. LoneInv'
  BY <1>7 DEF LoneInv, HandlerInv, TypeOK, Lone, PastUpdate
<1>. QED  BY <1>4, <1>5, <1>6, <1>8, <1>9, <1>10

\* save's SELECT, after the assignments to `current`: auth.service.ts 106-108, 138-139.
LEMMA SelectStep ==
    ASSUME Inv, NEW r \in Request, SaveSelect(r)
    PROVE  Inv'
<1>. DEFINE columns == [revokedAt |-> now,
                        replacedBy |-> IF op[r] = "refresh" THEN newTok[r]
                                       ELSE entity[r].replacedBy]
            seen == [revokedAt |-> tokens[tok[r]].revokedAt,
                     replacedBy |-> tokens[tok[r]].replacedBy]
<1>. USE DEF Inv
<1>1. /\ pc[r] = "select"
      /\ entity' = [entity EXCEPT ![r] = columns]
      /\ loaded' = [loaded EXCEPT ![r] = seen]
      /\ pc' = [pc EXCEPT ![r] = "update"]
      /\ UNCHANGED <<now, tokens, op, user, tok, newTok>>
  BY DEF SaveSelect, SelectFor, Goto
<1>2. tok[r] \in 1..Len(tokens)
  BY <1>1 DEF HandlerInv, TypeOK
<1>3. columns \in Columns
  BY DEF Columns, TypeOK
<1>4. seen \in Columns
  <2>1. tokens[tok[r]] \in Row
    BY <1>2 DEF TypeOK
  <2>. QED  BY <2>1 DEF Row, Columns
<1>5. TypeOK'
  BY <1>1, <1>3, <1>4 DEF TypeOK, InFlight
<1>6. HandlerInv'
  BY <1>1 DEF HandlerInv, TypeOK
<1>7. SuccessorInv'
  BY <1>1 DEF SuccessorInv
<1>8. \A s \in Request : PastUpdate(s)' <=> PastUpdate(s)
  BY <1>1 DEF PastUpdate, TypeOK
<1>9. SaveInv'
  <2>1. entity'[r] = columns /\ loaded'[r] = seen
    BY <1>1 DEF TypeOK
  <2>2. /\ columns.revokedAt # NULL
        /\ columns.replacedBy = IF op[r] = "refresh" THEN newTok[r] ELSE NULL
    BY <1>1, <1>2 DEF TypeOK, SaveInv
  <2>. QED  BY <1>1, <1>8, <2>1, <2>2 DEF SaveInv, TypeOK
<1>10. LinksFollowRotations'
  BY <1>1 DEF LinksFollowRotations
<1>11. LoneInv'
  BY <1>1, <1>8 DEF LoneInv, Lone, TypeOK
<1>. QED  BY <1>5, <1>6, <1>7, <1>9, <1>10, <1>11

\* save's UPDATE: auth.service.ts 108, 139.  The row it writes is revoked
\* afterwards, whoever wrote it in between.
LEMMA UpdateStep ==
    ASSUME Inv, NEW r \in Request, SaveUpdate(r)
    PROVE  Inv'
<1>. USE DEF Inv
<1>1. /\ tok[r] \in 1..Len(tokens)
      /\ tokens' \in Seq(Row)
      /\ Len(tokens') = Len(tokens)
      /\ \A i \in 1..Len(tokens) : i # tok[r] => tokens'[i] = tokens[i]
      /\ \A i \in 1..Len(tokens) : tokens'[i].userId = tokens[i].userId
      /\ tokens'[tok[r]].revokedAt # NULL
      /\ tokens'[tok[r]].replacedBy =
            SavedColumn(tokens[tok[r]].replacedBy, loaded[r].replacedBy, entity[r].replacedBy)
  BY UpdateEffect
<1>2. /\ pc[r] = "update"
      /\ pc' = [pc EXCEPT ![r] = IF op[r] = "refresh" THEN "getById" ELSE "notify"]
      /\ UNCHANGED <<now, op, user, tok, entity, loaded, newTok>>
  BY DEF SaveUpdate, Goto
<1>3. entity[r].replacedBy = IF op[r] = "refresh" THEN newTok[r] ELSE NULL
  BY <1>2 DEF SaveInv
<1>4. TypeOK'
  BY <1>1, <1>2 DEF TypeOK, InFlight
<1>5. HandlerInv'
  BY <1>1, <1>2 DEF HandlerInv, TypeOK
<1>6. SuccessorInv'
  <2>. SUFFICES ASSUME NEW s \in Request, op[s] = "refresh", newTok[s] # 0
                PROVE  /\ tok[s] # 0 /\ tok[s] < newTok[s]
                       /\ tokens'[newTok[s]].userId = tokens'[tok[s]].userId
    BY <1>2 DEF SuccessorInv
  <2>1. /\ tok[s] # 0 /\ tok[s] < newTok[s]
        /\ tokens[newTok[s]].userId = tokens[tok[s]].userId
    BY DEF SuccessorInv
  <2>2. tok[s] \in 1..Len(tokens) /\ newTok[s] \in 1..Len(tokens)
    BY <2>1 DEF HandlerInv, TypeOK
  <2>. QED  BY <1>1, <2>1, <2>2
<1>7. \A s \in Request : PastUpdate(s)' <=> PastUpdate(s) \/ s = r
  BY <1>2 DEF PastUpdate, HandlerInv, TypeOK
<1>8. \A i \in 1..Len(tokens) : tokens[i].revokedAt # NULL => tokens'[i].revokedAt # NULL
  BY <1>1
<1>9. \A s \in Request : PastUpdate(s) \/ pc[s] \in {"select", "update"}
                            => tok[s] \in 1..Len(tokens)
  BY DEF PastUpdate, HandlerInv, TypeOK
<1>10. SaveInv'
  <2>. SUFFICES ASSUME NEW s \in Request
                PROVE  /\ pc'[s] \in {"insert", "select"} /\ tok[s] # 0
                             => entity[s].replacedBy = NULL
                       /\ pc'[s] = "update" =>
                             /\ entity[s].revokedAt # NULL
                             /\ entity[s].replacedBy =
                                   IF op[s] = "refresh" THEN newTok[s] ELSE NULL
                             /\ loaded[s].revokedAt # NULL => tokens'[tok[s]].revokedAt # NULL
                       /\ PastUpdate(s)' => tokens'[tok[s]].revokedAt # NULL
    BY <1>2 DEF SaveInv
  <2>1. pc'[s] \in {"insert", "select", "update"} => pc'[s] = pc[s]
    BY <1>2 DEF TypeOK
  <2>. QED  BY <1>1, <1>7, <1>8, <1>9, <2>1 DEF SaveInv
<1>11. LinksFollowRotations'
  <2>. SUFFICES ASSUME NEW t \in 1..Len(tokens), tokens'[t].replacedBy # NULL
                PROVE  /\ tokens'[t].revokedAt # NULL
                       /\ tokens'[t].replacedBy > t
                       /\ \E s \in Request : op[s] = "refresh" /\ tok[s] = t
                                             /\ newTok[s] = tokens'[t].replacedBy
    BY <1>1, <1>2 DEF LinksFollowRotations
  <2>1. CASE tokens'[t].replacedBy = tokens[t].replacedBy
    BY <1>8, <2>1 DEF LinksFollowRotations
  <2>2. CASE tokens'[t].replacedBy # tokens[t].replacedBy
    <3>1. t = tok[r] /\ tokens'[t].replacedBy = entity[r].replacedBy
      BY <1>1, <2>2, SavedColumnCases
    <3>2. op[r] = "refresh" /\ tokens'[t].replacedBy = newTok[r]
      BY <1>3, <3>1
    <3>3. newTok[r] > t
      BY <1>2, <3>1, <3>2 DEF SuccessorInv, HandlerInv, TypeOK
    <3>. QED  BY <1>1, <3>1, <3>2, <3>3
  <2>. QED  BY <2>1, <2>2
<1>12. LoneInv'
  <2>. SUFFICES ASSUME NEW s \in Request, op[s] = "refresh", tok[s] # 0, Lone(s)
                PROVE  /\ pc'[s] \in {"insert", "select", "update"}
                             => tokens'[tok[s]].replacedBy = NULL
                       /\ pc'[s] = "update" => loaded[s].replacedBy = NULL
                       /\ PastUpdate(s)' => tokens'[tok[s]].replacedBy = newTok[s]
    BY <1>2 DEF LoneInv, Lone
  <2>0. tok[s] \in 1..Len(tokens)
    BY DEF HandlerInv, TypeOK
  <2>1. CASE s = r
    <3>1. tokens[tok[r]].replacedBy = NULL /\ loaded[r].replacedBy = NULL
      BY <1>2, <2>1 DEF LoneInv
    <3>2. newTok[r] # NULL
      BY DEF TypeOK
    <3>3. tokens'[tok[r]].replacedBy = newTok[r]
      BY <1>1, <1>3, <2>1, <3>1, <3>2, SavedColumnCases
    <3>4. pc'[r] \notin {"insert", "select", "update"}
      BY <1>2 DEF TypeOK
    <3>. QED  BY <2>1, <3>3, <3>4
  <2>2. CASE s # r
    <3>1. tokens'[tok[s]] = tokens[tok[s]]
      BY <1>1, <2>0, <2>2 DEF Lone
    <3>2. pc'[s] = pc[s]
      BY <1>2, <2>2 DEF TypeOK
    <3>. QED  BY <1>7, <2>2, <3>1, <3>2 DEF LoneInv
  <2>. QED  BY <2>1, <2>2
<1>. QED  BY <1>4, <1>5, <1>6, <1>10, <1>11, <1>12

LEMMA TickStep ==
    ASSUME Inv, Tick \/ UNCHANGED vars
    PROVE  Inv'
BY DEF Inv, Tick, vars, TypeOK, HandlerInv, SuccessorInv, SaveInv, LinksFollowRotations,
       LoneInv, Lone, PastUpdate

LEMMA NextInv == Inv /\ [Next]_vars => Inv'
<1>. SUFFICES ASSUME Inv, [Next]_vars PROVE Inv'
  OBVIOUS
<1>1. ASSUME NEW r \in Request,
             \/ \E u \in User : LoginValid(r, u)
             \/ LoginRefused(r)
             \/ \E t \in 1..Len(tokens) : RefreshFind(r, t) \/ LogoutFind(r, t)
             \/ Step(r)
             \/ Abort(r)
      PROVE  Inv'
  <2>1. CASE \E u \in User : LoginValid(r, u)
    BY <2>1, LoginStep
  <2>2. CASE \E t \in 1..Len(tokens) : RefreshFind(r, t) \/ LogoutFind(r, t)
    BY <2>2, FindStep
  <2>3. CASE IssueRefresh(r)
    BY <2>3, IssueStep
  <2>4. CASE SaveSelect(r)
    BY <2>4, SelectStep
  <2>5. CASE SaveUpdate(r)
    BY <2>5, UpdateStep
  <2>6. CASE Reply(r) \/ GetById(r) \/ Notify(r) \/ Abort(r) \/ LoginRefused(r)
    BY <2>6, QuietSteps
  <2>. QED  BY <1>1, <2>1, <2>2, <2>3, <2>4, <2>5, <2>6 DEF Step
<1>2. CASE Tick \/ UNCHANGED vars
  BY <1>2, TickStep
<1>. QED  BY <1>1, <1>2 DEF Next

----------------------------------------------------------------------------
(* Theorems *)

\* Inv holds in every state of AuthService's token store.
THEOREM InvariantHolds == Spec => []Inv
BY InitInv, NextInv, PTL DEF Spec

\* Type correctness of the token table and of the handlers' locals.
THEOREM TypeCorrect == Spec => []TypeOK
<1>1. Inv => TypeOK
  BY DEF Inv
<1>. QED  BY <1>1, InvariantHolds, PTL

\* A refresh or logout past its save leaves its token revoked for good, and a
\* refresh's successor is a later row of the same user (auth.service.ts
\* 101-108, 138-139).
THEOREM SpentTokensStaySpent == Spec => []SpentStaysSpent
<1>1. Inv => SpentStaysSpent
  <2>. SUFFICES ASSUME Inv, NEW r \in Request, PastUpdate(r)
                PROVE  /\ tokens[tok[r]].revokedAt # NULL
                       /\ op[r] = "refresh" =>
                             /\ newTok[r] \in (tok[r] + 1)..Len(tokens)
                             /\ tokens[newTok[r]].userId = tokens[tok[r]].userId
    BY DEF SpentStaysSpent
  <2>1. op[r] = "refresh" => newTok[r] # 0
    BY DEF Inv, HandlerInv, PastUpdate
  <2>. QED  BY <2>1 DEF Inv, SaveInv, SuccessorInv, HandlerInv, TypeOK
<1>. QED  BY <1>1, InvariantHolds, PTL

\* replacedByTokenId is set on revoked rows only and names the later row that
\* a refresh of this row inserted (auth.service.ts 107).
THEOREM LinksAreRotations == Spec => []LinksFollowRotations
<1>1. Inv => LinksFollowRotations
  BY DEF Inv
<1>. QED  BY <1>1, InvariantHolds, PTL

\* An unraced rotation is linked to its successor (auth.service.ts 107-108).
THEOREM LoneRotationsAreLinked == Spec => []LoneRotationIsLinked
<1>1. Inv => LoneRotationIsLinked
  <2>. SUFFICES ASSUME Inv, NEW r \in Request, op[r] = "refresh", PastUpdate(r), Lone(r)
                PROVE  tokens[tok[r]].replacedBy = newTok[r]
    BY DEF LoneRotationIsLinked
  <2>1. tok[r] # 0
    BY DEF Inv, HandlerInv, PastUpdate
  <2>. QED  BY <2>1 DEF Inv, LoneInv
<1>. QED  BY <1>1, InvariantHolds, PTL

\* No interleaving of refreshes and logouts un-revokes a token
\* (auth.service.ts 106-108, 138-139).
THEOREM RevocationsAreFinal == Spec => RevocationIsFinal
<1>1. ASSUME Inv, [Next]_vars, NEW t \in 1..Len(tokens), tokens[t].revokedAt # NULL
      PROVE  tokens'[t].revokedAt # NULL
  <2>1. CASE \E r \in Request : IssueRefresh(r)
    BY <1>1, <2>1, InsertEffect DEF Inv
  <2>2. CASE \E r \in Request : SaveUpdate(r)
    BY <1>1, <2>2, UpdateEffect DEF Inv
  <2>3. CASE UNCHANGED tokens
    BY <1>1, <2>3
  <2>. QED
    BY <1>1, <2>1, <2>2, <2>3 DEF Next, Step, vars, LoginValid, LoginRefused, RefreshFind,
       LogoutFind, Match, NoMatch, Reply, SaveSelect, SelectFor, GetById, Notify, Abort, Tick
<1>2. Inv /\ [Next]_vars
        => [\A t \in 1..Len(tokens) :
               tokens[t].revokedAt # NULL => tokens'[t].revokedAt # NULL]_vars
  BY <1>1
<1>. QED  BY <1>2, InvariantHolds, PTL DEF Spec, RevocationIsFinal

\* A consumed token is never matched again (auth.service.ts 87-99, 124-136).
THEOREM SpentTokensAreRefused == Spec => SpentIsRefused
<1>1. ASSUME Inv, [Next]_vars, NEW r \in Request, pc[r] = "idle", tok'[r] # 0,
             NEW s \in Request, PastUpdate(s)
      PROVE  tok[s] # tok'[r]
  <2>1. tok[r] = 0
    BY <1>1 DEF Inv, HandlerInv
  <2>2. PICK q \in Request, t \in 1..Len(tokens), o \in Op : Match(q, t, o)
    <3>1. ~ UNCHANGED tok
      BY <1>1, <2>1
    <3>. QED
      BY <1>1, <3>1 DEF Next, Step, vars, LoginValid, LoginRefused, RefreshFind, LogoutFind,
         NoMatch, Reply, SaveSelect, SelectFor, GetById, Notify, Abort, Tick, IssueRefresh,
         SaveUpdate, Op
  <2>3. tok'[r] = t
    BY <1>1, <2>1, <2>2 DEF Match, Inv, TypeOK
  <2>4. tokens[t].revokedAt = NULL
    BY <2>2 DEF Match, Candidate
  <2>5. tokens[tok[s]].revokedAt # NULL
    BY <1>1 DEF Inv, SaveInv
  <2>. QED  BY <2>3, <2>4, <2>5
<1>2. Inv /\ [Next]_vars
        => [\A r \in Request :
               pc[r] = "idle" /\ tok'[r] # 0 =>
                  \A s \in Request : PastUpdate(s) => tok[s] # tok'[r]]_vars
  BY <1>1
<1>. QED  BY <1>2, InvariantHolds, PTL DEF Spec, SpentIsRefused

----------------------------------------------------------------------------
(* The refinement of TokenLedger *)

LEMMA LedgerInitially == Init => Ledger!LedgerInit
<1>. SUFFICES ASSUME Init PROVE Ledger!LedgerInit
  OBVIOUS
<1>1. [i \in 1..Len(tokens) |-> tokens[i].userId] = <<>>
  BY DEF Init
<1>2. \A r \in Request : LedgerPhase(r) = "new"
  BY DEF Init, LedgerPhase
<1>. QED  BY <1>1, <1>2 DEF Init, Ledger!LedgerInit

\* Every step of the token store is a step of the ledger or leaves it alone.
LEMMA LedgerStep == Inv /\ [Next]_vars => [Ledger!LedgerNext]_(Ledger!ledgerVars)
<1>. SUFFICES ASSUME Inv, [Next]_vars
              PROVE  [Ledger!LedgerNext]_(Ledger!ledgerVars)
  OBVIOUS
<1>. DEFINE Phases == [r \in Request |-> LedgerPhase(r)]
            Owners == [i \in 1..Len(tokens) |-> tokens[i].userId]
            Revoked == {i \in 1..Len(tokens) : tokens[i].revokedAt # NULL}
<1>1. ASSUME NEW r \in Request, NEW p, LedgerPhase(r)' = p,
             \A s \in Request \ {r} : pc'[s] = pc[s] /\ op'[s] = op[s]
      PROVE  Phases' = [Phases EXCEPT ![r] = p]
  <2>1. \A s \in Request \ {r} : LedgerPhase(s)' = LedgerPhase(s)
    BY <1>1 DEF LedgerPhase
  <2>. QED  BY <1>1, <2>1
<1>2. Len(tokens) \in Nat /\ Owners \in Seq(User) /\ Len(Owners) = Len(tokens)
  <2>1. \A i \in 1..Len(tokens) : tokens[i] \in Row
    BY DEF Inv, TypeOK
  <2>2. \A i \in 1..Len(tokens) : tokens[i].userId \in User
    BY <2>1 DEF Row
  <2>3. Owners \in [1..Len(tokens) -> User]
    BY <2>2
  <2>. QED  BY <2>3 DEF Inv, TypeOK
<1>3. ASSUME NEW r \in Request, NEW u \in User, LoginValid(r, u)
      PROVE  Ledger!Admit(r)
  <2>1. LedgerPhase(r) = "new" /\ LedgerPhase(r)' = "login"
    BY <1>3 DEF LoginValid, Goto, LedgerPhase, Inv, TypeOK
  <2>2. Phases' = [Phases EXCEPT ![r] = "login"]
    BY <1>1, <1>3, <2>1 DEF LoginValid, Goto, Inv, TypeOK
  <2>3. UNCHANGED <<tokens, tok, newTok>>
    BY <1>3 DEF LoginValid
  <2>. QED  BY <2>1, <2>2, <2>3 DEF Ledger!Admit
<1>4. ASSUME NEW r \in Request, NEW t \in 1..Len(tokens),
             RefreshFind(r, t) \/ LogoutFind(r, t)
      PROVE  \/ \E p \in {"rotating", "ending"} : Ledger!Accept(r, t, p)
             \/ Ledger!Close(r)
  <2>1. LedgerPhase(r) = "new"
    BY <1>4 DEF RefreshFind, LogoutFind, LedgerPhase
  <2>2. CASE \E o \in Op : Match(r, t, o)
    <3>1. PICK p \in {"rotating", "ending"} : LedgerPhase(r)' = p
      BY <1>4, <2>2 DEF RefreshFind, LogoutFind, Match, NoMatch, Goto, LedgerPhase, Inv, TypeOK
    <3>2. Phases' = [Phases EXCEPT ![r] = p]
      BY <1>1, <1>4, <2>2, <3>1 DEF RefreshFind, LogoutFind, Match, Goto, Inv, TypeOK
    <3>3. t \notin Revoked /\ tok' = [tok EXCEPT ![r] = t] /\ UNCHANGED <<tokens, newTok>>
      BY <2>2 DEF Match, Candidate
    <3>. QED  BY <1>2, <2>1, <3>2, <3>3 DEF Ledger!Accept
  <2>3. CASE \E o \in Op : NoMatch(r, t, o)
    <3>1. LedgerPhase(r)' = "closed" /\ UNCHANGED <<tokens, tok, newTok>>
      BY <1>4, <2>3 DEF RefreshFind, LogoutFind, NoMatch, Match, Goto, LedgerPhase, Inv, TypeOK
    <3>2. Phases' = [Phases EXCEPT ![r] = "closed"]
      BY <1>1, <1>4, <2>3, <3>1 DEF RefreshFind, LogoutFind, NoMatch, Goto, Inv, TypeOK
    <3>. QED  BY <2>1, <3>1, <3>2 DEF Ledger!Close
  <2>. QED  BY <1>4, <2>2, <2>3 DEF RefreshFind, LogoutFind, Op
<1>5. ASSUME NEW r \in Request, IssueRefresh(r)
      PROVE  Ledger!MintSuccessor(r) \/ \E u \in User : Ledger!MintForLogin(r, u)
  <2>. DEFINE u == IF op[r] = "login" THEN user[r] ELSE tokens[tok[r]].userId
  <2>1. u \in User
    <3>1. tok[r] # 0 => tokens[tok[r]] \in Row
      BY DEF Inv, HandlerInv, TypeOK
    <3>. QED  BY <1>5, <3>1 DEF IssueRefresh, Inv, HandlerInv, Row
  <2>2. LedgerPhase(r)' = "minted"
    BY <1>5 DEF IssueRefresh, Goto, LedgerPhase, Inv, TypeOK, HandlerInv
  <2>3. Phases' = [Phases EXCEPT ![r] = "minted"]
    BY <1>1, <1>5, <2>2 DEF IssueRefresh, Goto, Inv, TypeOK
  <2>4. tokens' = Append(tokens, NewRow(u)) /\ NewRow(u) \in Row
    BY <1>5, <2>1 DEF IssueRefresh, NewRow, Row, Inv, TypeOK
  <2>5. /\ newTok' = [newTok EXCEPT ![r] = Len(Owners) + 1] /\ tok' = tok
    BY <1>2, <1>5 DEF IssueRefresh
  <2>6. NewRow(u).userId = u /\ NewRow(u).revokedAt = NULL
    BY DEF NewRow
  <2>. HIDE DEF u
  <2>7. /\ Len(tokens') = Len(tokens) + 1
        /\ \A i \in 1..Len(tokens) : tokens'[i] = tokens[i]
        /\ tokens'[Len(tokens) + 1] = NewRow(u)
    BY <2>4 DEF Inv, TypeOK
  <2>8. Owners' = Append(Owners, u)
    <3>1. Len(Append(Owners, u)) = Len(tokens) + 1
      BY <1>2, <2>1
    <3>2. \A i \in 1..(Len(tokens) + 1) : Append(Owners, u)[i] = tokens'[i].userId
      BY <1>2, <2>1, <2>6, <2>7
    <3>3. Append(Owners, u) = [i \in 1..(Len(tokens) + 1) |-> Append(Owners, u)[i]]
      BY <1>2, <2>1, <3>1
    <3>. QED  BY <2>7, <3>2, <3>3
  <2>9. Revoked' = Revoked
    BY <1>2, <2>6, <2>7
  <2>10. Ledger!Mint(r, u)
    BY <2>3, <2>5, <2>8, <2>9 DEF Ledger!Mint
  <2>11. CASE op[r] = "login"
    <3>1. LedgerPhase(r) = "login"
      BY <1>5, <2>11 DEF IssueRefresh, LedgerPhase
    <3>2. Ledger!MintForLogin(r, u)
      BY <2>10, <3>1 DEF Ledger!MintForLogin
    <3>. QED  BY <2>1, <3>2
  <2>12. CASE op[r] # "login"
    <3>1. LedgerPhase(r) = "rotating"
      BY <1>5, <2>12 DEF IssueRefresh, LedgerPhase
    <3>2. tok[r] \in 1..Len(tokens)
      BY <1>5, <2>12 DEF IssueRefresh, Inv, HandlerInv, TypeOK
    <3>3. u = Owners[tok[r]]
      BY <2>12, <3>2 DEF u
    <3>4. Ledger!Mint(r, Owners[tok[r]])
      BY <2>10, <3>3 DEF Ledger!Mint
    <3>. QED  BY <3>1, <3>4 DEF Ledger!MintSuccessor
  <2>. QED  BY <2>11, <2>12
<1>6. ASSUME NEW r \in Request, SaveSelect(r)
      PROVE  UNCHANGED Ledger!ledgerVars
  <2>1. \A s \in Request : LedgerPhase(s)' = LedgerPhase(s)
    BY <1>6 DEF SaveSelect, SelectFor, Goto, LedgerPhase, Inv, TypeOK
  <2>2. Phases' = Phases
    BY <2>1
  <2>3. UNCHANGED <<tokens, tok, newTok>>
    BY <1>6 DEF SaveSelect, SelectFor
  <2>. QED  BY <2>2, <2>3 DEF Ledger!ledgerVars
<1>7. ASSUME NEW r \in Request, SaveUpdate(r)
      PROVE  Ledger!Spend(r)
  <2>1. LedgerPhase(r) \in {"minted", "ending"} /\ LedgerPhase(r)' = "spent"
    BY <1>7 DEF SaveUpdate, Goto, LedgerPhase, Inv, TypeOK
  <2>2. Phases' = [Phases EXCEPT ![r] = "spent"]
    BY <1>1, <1>7, <2>1 DEF SaveUpdate, Goto, Inv, TypeOK
  <2>3. UNCHANGED <<tok, newTok>> /\ tok[r] # 0
    BY <1>7 DEF SaveUpdate, Inv, HandlerInv
  <2>4. /\ tok[r] \in 1..Len(tokens)
        /\ Len(tokens') = Len(tokens)
        /\ \A i \in 1..Len(tokens) : i # tok[r] => tokens'[i] = tokens[i]
        /\ \A i \in 1..Len(tokens) : tokens'[i].userId = tokens[i].userId
        /\ tokens'[tok[r]].revokedAt # NULL
    BY <1>7, UpdateEffect DEF Inv
  <2>5. Owners' = Owners
    BY <2>4
  <2>6. Revoked' = Revoked \cup {tok[r]}
    BY <2>4
  <2>. QED  BY <2>1, <2>2, <2>3, <2>5, <2>6 DEF Ledger!Spend
<1>8. ASSUME NEW r \in Request,
             Reply(r) \/ GetById(r) \/ Notify(r) \/ Abort(r) \/ LoginRefused(r)
      PROVE  Ledger!Close(r)
  <2>1. LedgerPhase(r) # "closed"
    BY <1>8 DEF Reply, GetById, Notify, Abort, LoginRefused, LedgerPhase, InFlight
  <2>2. /\ LedgerPhase(r)' = "closed"
        /\ \A s \in Request \ {r} : pc'[s] = pc[s] /\ op'[s] = op[s]
    BY <1>8 DEF Reply, GetById, Notify, Abort, LoginRefused, Goto, LedgerPhase, Inv, TypeOK
  <2>3. Phases' = [Phases EXCEPT ![r] = "closed"]
    BY <1>1, <2>2
  <2>4. UNCHANGED <<tokens, tok, newTok>>
    BY <1>8 DEF Reply, GetById, Notify, Abort, LoginRefused
  <2>. QED  BY <2>1, <2>3, <2>4 DEF Ledger!Close
<1>9. CASE Tick \/ UNCHANGED vars
  <2>1. UNCHANGED <<tokens, pc, op, tok, newTok>>
    BY <1>9 DEF Tick, vars
  <2>2. \A s \in Request : LedgerPhase(s)' = LedgerPhase(s)
    BY <2>1 DEF LedgerPhase
  <2>. QED  BY <2>1, <2>2 DEF Ledger!ledgerVars
<1>. HIDE DEF Phases, Owners, Revoked
<1>. QED  BY <1>2, <1>3, <1>4, <1>5, <1>6, <1>7, <1>8, <1>9 DEF Next, Step, Ledger!LedgerNext, Owners

\* The handlers' two-statement saves implement atomic revocations: the token
\* store refines the ledger (auth.service.ts 61-147).
THEOREM RefinesLedger == Spec => ImplementsLedger
BY InvariantHolds, LedgerInitially, LedgerStep, PTL DEF Spec, ImplementsLedger, Ledger!LedgerSpec

----------------------------------------------------------------------------
(* Sessions: the rows that follow from a login *)

\* Every row was inserted for exactly one request.
MintedOnce ==
    /\ \A t \in 1..Len(tokens) : \E r \in Request : newTok[r] = t
    /\ \A r, s \in Request : newTok[r] # 0 /\ newTok[s] = newTok[r] => s = r

\* No row is the successor of two, nor of a later one: a session is a line.
LinksAreLines ==
    \A t, u \in 1..Len(tokens) :
        tokens[t].replacedBy # NULL =>
            /\ t < tokens[t].replacedBy
            /\ tokens[u].replacedBy = tokens[t].replacedBy => u = t

\* A matched token was given to a client before.
PresentedOK == \A r \in Request : tok[r] # 0 => Delivered(tok[r])

\* Nobody has the raw token of a row that a request inserted before it failed, or
\* before it found its user gone: it is never presented.
OrphansUnused ==
    \A r \in Request :
        newTok[r] # 0 /\ pc[r] \in {"failed", "userNotFound"} =>
            \A s \in Request : tok[s] # newTok[r]

\* Only issueRefresh adds a row.
LEMMA InsertsOnly ==
  ASSUME Inv, [Next]_vars
  PROVE  (\E r \in Request : IssueRefresh(r)) \/ (newTok' = newTok /\ Len(tokens') = Len(tokens))
<1>1. CASE \E r \in Request : SaveUpdate(r)
  <2>1. PICK r \in Request : SaveUpdate(r)
    BY <1>1
  <2> QED BY <2>1, UpdateEffect DEF Inv, SaveUpdate
<1>2. CASE UNCHANGED <<tokens, newTok>>
  BY <1>2
<1> QED
  BY <1>1, <1>2 DEF Next, Step, vars, LoginValid, LoginRefused, RefreshFind, LogoutFind, Match,
     NoMatch, Reply, SaveSelect, SelectFor, GetById, Notify, Abort, Tick

\* Only a client that was given a token presents it.
LEMMA MatchesDelivered ==
  ASSUME [Next]_vars
  PROVE  \/ \E r \in Request, t \in 1..Len(tokens) :
               Delivered(t) /\ tok' = [tok EXCEPT ![r] = t]
         \/ tok' = tok
  BY DEF Next, Step, vars, LoginValid, LoginRefused, RefreshFind, LogoutFind, Match,
     NoMatch, Reply, SaveSelect, SelectFor, GetById, Notify, Abort, Tick, IssueRefresh, SaveUpdate

\* Nothing happens any more to a request that was answered.
LEMMA AnsweredStays ==
  ASSUME TypeOK, [Next]_vars, NEW q \in Request, pc[q] = "ok"
  PROVE  pc'[q] = "ok" /\ op'[q] = op[q] /\ newTok'[q] = newTok[q]
<1>0. /\ pc \in [Request -> {"idle"} \cup InFlight \cup Answer]
      /\ op \in [Request -> Op \cup {"none"}] /\ newTok \in [Request -> Nat]
  BY DEF TypeOK
<1>1. CASE UNCHANGED <<pc, op, newTok>>
  BY <1>1
<1>2. ASSUME NEW r \in Request, LoginRefused(r) \/ \E u \in User : LoginValid(r, u)
      PROVE  pc'[q] = "ok" /\ op'[q] = op[q] /\ newTok'[q] = newTok[q]
  BY <1>0, <1>2 DEF LoginValid, LoginRefused, Goto
<1>3. ASSUME NEW r \in Request, NEW t \in 1..Len(tokens), RefreshFind(r, t) \/ LogoutFind(r, t)
      PROVE  pc'[q] = "ok" /\ op'[q] = op[q] /\ newTok'[q] = newTok[q]
  BY <1>0, <1>3 DEF RefreshFind, LogoutFind, Match, NoMatch, Goto
<1>4. ASSUME NEW r \in Request, Step(r) \/ Abort(r)
      PROVE  pc'[q] = "ok" /\ op'[q] = op[q] /\ newTok'[q] = newTok[q]
  <2>1. CASE IssueRefresh(r)
    BY <1>0, <2>1 DEF IssueRefresh, Goto
  <2>2. CASE Reply(r) \/ GetById(r) \/ Notify(r) \/ Abort(r)
    BY <1>0, <2>2 DEF Reply, GetById, Notify, Abort, Goto, InFlight
  <2>3. CASE SaveSelect(r) \/ SaveUpdate(r)
    BY <1>0, <2>3 DEF SaveSelect, SelectFor, SaveUpdate, Goto
  <2> QED BY <1>4, <2>1, <2>2, <2>3 DEF Step
<1> QED BY <1>1, <1>2, <1>3, <1>4 DEF Next, Tick, vars

LEMMA MintedOnceNext == Inv /\ MintedOnce /\ [Next]_vars => MintedOnce'
<1> SUFFICES ASSUME Inv, MintedOnce, [Next]_vars
             PROVE  MintedOnce'
  OBVIOUS
<1>0. /\ newTok \in [Request -> Nat] /\ Len(tokens) \in Nat
      /\ \A r \in Request : newTok[r] \in 0..Len(tokens)
  BY DEF Inv, TypeOK, HandlerInv
<1>1. CASE newTok' = newTok /\ Len(tokens') = Len(tokens)
  BY <1>1 DEF MintedOnce
<1>2. ASSUME NEW r \in Request, IssueRefresh(r) PROVE MintedOnce'
  <2>1. /\ newTok[r] = 0 /\ newTok' = [newTok EXCEPT ![r] = Len(tokens) + 1]
        /\ Len(tokens') = Len(tokens) + 1
    BY <1>2, InsertEffect DEF Inv, HandlerInv, IssueRefresh
  <2>2. newTok'[r] = Len(tokens) + 1 /\ \A s \in Request \ {r} : newTok'[s] = newTok[s]
    BY <1>0, <2>1
  <2>3. ASSUME NEW t \in 1..Len(tokens') PROVE \E s \in Request : newTok'[s] = t
    <3>1. CASE t = Len(tokens) + 1
      BY <2>2, <3>1
    <3>2. CASE t \in 1..Len(tokens)
      <4>1. PICK s \in Request : newTok[s] = t
        BY <3>2 DEF MintedOnce
      <4>2. s # r
        BY <2>1, <3>2, <4>1
      <4> QED BY <2>2, <4>1, <4>2
    <3> QED BY <1>0, <2>1, <3>1, <3>2
  <2>4. ASSUME NEW p \in Request, NEW q \in Request, newTok'[p] # 0, newTok'[q] = newTok'[p]
        PROVE  q = p
    <3>1. CASE p = r \/ q = r
      BY <1>0, <2>2, <2>4, <3>1
    <3>2. CASE p # r /\ q # r
      BY <2>2, <2>4, <3>2 DEF MintedOnce
    <3> QED BY <3>1, <3>2
  <2> QED BY <2>3, <2>4 DEF MintedOnce
<1> QED BY <1>1, <1>2, InsertsOnly

LEMMA PresentedNext == Inv /\ PresentedOK /\ [Next]_vars => PresentedOK'
<1> SUFFICES ASSUME Inv, PresentedOK, [Next]_vars, NEW r \in Request, tok'[r] # 0
             PROVE  Delivered(tok[r])'
  BY DEF PresentedOK
<1>1. Delivered(tok'[r])
  <2>1. tok \in [Request -> Nat]
    BY DEF Inv, TypeOK
  <2> QED BY <2>1, MatchesDelivered DEF PresentedOK
<1>2. PICK q \in Request : pc[q] = "ok" /\ op[q] \in {"login", "refresh"} /\ newTok[q] = tok'[r]
  BY <1>1 DEF Delivered
<1>3. pc'[q] = "ok" /\ op'[q] = op[q] /\ newTok'[q] = newTok[q]
  BY <1>2, AnsweredStays DEF Inv
<1> QED BY <1>2, <1>3 DEF Delivered

\* Every refresh token was issued for one login or one refresh.
LEMMA TokensAreMintedOnce == Spec => []MintedOnce
<1>1. Init => MintedOnce
  BY DEF Init, MintedOnce
<1> QED BY <1>1, MintedOnceNext, InvariantHolds, PTL DEF Spec

\* Whatever rotations of it race, a token follows one token at most, an older
\* one: replacedByTokenId makes lines of the table, which an audit of a session
\* can walk back (auth.service.ts 107).
THEOREM SessionsAreLines == Spec => []LinksAreLines
<1>1. Inv /\ MintedOnce => LinksAreLines
  <2> SUFFICES ASSUME Inv, MintedOnce, NEW t \in 1..Len(tokens), NEW u \in 1..Len(tokens),
                      tokens[t].replacedBy # NULL
               PROVE  /\ t < tokens[t].replacedBy
                      /\ tokens[u].replacedBy = tokens[t].replacedBy => u = t
    BY DEF LinksAreLines
  <2>1. LinksFollowRotations
    BY DEF Inv
  <2>2. tokens[t].replacedBy \in Nat /\ tokens[t].replacedBy > t
    BY <2>1 DEF LinksFollowRotations, Inv, TypeOK, Row
  <2>3. ASSUME tokens[u].replacedBy = tokens[t].replacedBy PROVE u = t
    <3>1. PICK r \in Request : tok[r] = t /\ newTok[r] = tokens[t].replacedBy
      BY <2>1 DEF LinksFollowRotations
    <3>2. PICK s \in Request : tok[s] = u /\ newTok[s] = tokens[u].replacedBy
      BY <2>1, <2>3 DEF LinksFollowRotations
    <3>3. newTok[r] # 0 /\ newTok[s] = newTok[r]
      BY <2>2, <2>3, <3>1, <3>2
    <3> QED BY <3>1, <3>2, <3>3 DEF MintedOnce
  <2> QED BY <2>2, <2>3
<1> QED BY <1>1, TokensAreMintedOnce, InvariantHolds, PTL

\* A login or refresh that fails after its INSERT leaves a live row behind, which
\* nothing ever rotates or revokes: it only expires (auth.service.ts 101-113).
THEOREM OrphansAreUnused == Spec => []OrphansUnused
<1>1. Init => PresentedOK
  BY DEF Init, PresentedOK
<1>2. MintedOnce /\ PresentedOK => OrphansUnused
  <2> SUFFICES ASSUME MintedOnce, PresentedOK, NEW r \in Request, NEW s \in Request,
                      newTok[r] # 0, pc[r] \in {"failed", "userNotFound"}, tok[s] = newTok[r]
               PROVE  FALSE
    BY DEF OrphansUnused
  <2>1. PICK q \in Request : pc[q] = "ok" /\ newTok[q] = newTok[r]
    BY DEF PresentedOK, Delivered
  <2>2. q = r
    BY <2>1 DEF MintedOnce
  <2> QED BY <2>1, <2>2
<1> QED BY <1>1, <1>2, PresentedNext, TokensAreMintedOnce, InvariantHolds, PTL DEF Spec
=============================================================================
