-------------------------- MODULE AccessRevocation --------------------------
(***************************************************************************)
(* The revocation of a user's access tokens by logout.  auth-service calls *)
(* PATCH /users/:id/last-logout with retries and a timeout                 *)
(* (UsersHttpClient.setLastLogoutAt); users-service stores the time at     *)
(* which it received the call (UsersController.setLastLogout,              *)
(* UsersService.setLastLogoutAt); GET /auth/me compares it with the second *)
(* in which the presented token was issued (JwtStrategy.validate).         *)
(*                                                                         *)
(* One user; users share no state here.  An attempt that timed out is not  *)
(* cancelled in users-service: its handler may run at any later time.  The *)
(* services' clocks are taken to agree.  An access token is the time of    *)
(* its issue: a login or a refresh may have issued one at any time.        *)
(***************************************************************************)
EXTENDS Naturals, TypeOrm

CONSTANTS
    Logout,         \* the logouts of the user that reach setLastLogoutAt
    MaxAttempts,    \* withRetry's maxAttempts
    Second,         \* ticks of the clock per second
    MaxTime,        \* bound on the clock
    NULL            \* SQL NULL

ASSUME MaxAttemptsAssumption == MaxAttempts \in Nat \ {0}
ASSUME SecondAssumption == Second \in Nat \ {0}
ASSUME MaxTimeAssumption == MaxTime \in Nat
ASSUME NULLAssumption == NULL \notin Nat

VARIABLES
    now,            \* the clock
    lastLogoutAt,   \* the user's column
    call,           \* call[l]: setLastLogoutAt in auth-service
    mark,           \* mark[a]: the handler of attempt a in users-service
    raced           \* history: the pairs of attempts, of two logouts, of which one
                    \* wrote while the other was in flight

vars == <<now, lastLogoutAt, call, mark, raced>>

Attempt == Logout \X (1..MaxAttempts)

\* "done": a 2xx came back; "gaveUp": the last attempt failed, too.
CallType == [phase : {"idle", "trying", "done", "gaveUp"}, attempt : 0..MaxAttempts,
             from : Nat, ended : Nat]

\* "sent": not received yet, and perhaps never; then suspended before save's
\* SELECT and before its UPDATE.  A handler that fails, or whose process dies,
\* stays where it is: nothing here waits for it but a call that may give it up.
MarkType == [phase : {"none", "sent", "select", "update", "done"},
             date : Nat, loaded : Nat \cup {NULL}]

TypeOK ==
    /\ now \in Nat
    /\ lastLogoutAt \in Nat \cup {NULL}
    /\ call \in [Logout -> CallType]
    /\ mark \in [Attempt -> MarkType]
    /\ raced \subseteq SUBSET Attempt

Init ==
    /\ now = 0
    /\ lastLogoutAt = NULL
    /\ call = [l \in Logout |-> [phase |-> "idle", attempt |-> 0, from |-> 0, ended |-> 0]]
    /\ mark = [a \in Attempt |-> [phase |-> "none", date |-> 0, loaded |-> NULL]]
    /\ raced = {}

----------------------------------------------------------------------------
(* auth-service: setLastLogoutAt under withRetry *)

Send(a) == mark' = [mark EXCEPT ![a].phase = "sent"]

\* AuthService.logout reaches its call.
Call(l) ==
    /\ call[l].phase = "idle"
    /\ call' = [call EXCEPT ![l] = [phase |-> "trying", attempt |-> 1, from |-> now, ended |-> 0]]
    /\ Send(<<l, 1>>)
    /\ UNCHANGED <<now, lastLogoutAt, raced>>

Current(l) == mark[<<l, call[l].attempt>>]

End(l, phase) == call' = [call EXCEPT ![l].phase = phase, ![l].ended = now]

\* Mutant: the answer does not wait for the row (an await forgotten in the
\* handler).
RespondEarly(l) ==
    /\ call[l].phase = "trying"
    /\ Current(l).phase \in {"select", "update", "done"}
    /\ End(l, "done")
    /\ UNCHANGED <<now, lastLogoutAt, mark, raced>>

\* The current attempt's 2xx arrives.
Respond(l) ==
    /\ call[l].phase = "trying"
    /\ Current(l).phase = "done"
    /\ End(l, "done")
    /\ UNCHANGED <<now, lastLogoutAt, mark, raced>>

\* Mutant: one attempt too many.
RetryOffByOne(l) ==
    /\ call[l].phase = "trying"
    /\ \/ /\ call[l].attempt < MaxAttempts + 1
          /\ call' = [call EXCEPT ![l].attempt = @ + 1]
          /\ Send(<<l, call[l].attempt + 1>>)
       \/ /\ call[l].attempt = MaxAttempts + 1
          /\ End(l, "gaveUp")
          /\ UNCHANGED mark
    /\ UNCHANGED <<now, lastLogoutAt, raced>>

\* The current attempt failed or timed out, whatever users-service did or is
\* still doing with it.
Retry(l) ==
    /\ call[l].phase = "trying"
    /\ \/ /\ call[l].attempt < MaxAttempts
          /\ call' = [call EXCEPT ![l].attempt = @ + 1]
          /\ Send(<<l, call[l].attempt + 1>>)
       \/ /\ call[l].attempt = MaxAttempts
          /\ End(l, "gaveUp")
          /\ UNCHANGED mark
    /\ UNCHANGED <<now, lastLogoutAt, raced>>

----------------------------------------------------------------------------
(* users-service: PATCH /users/:id/last-logout *)

\* The date is the handler's own `new Date()`, not the one in the body.
Receive(a) ==
    /\ mark[a].phase = "sent"
    /\ mark' = [mark EXCEPT ![a].phase = "select", ![a].date = now]
    /\ UNCHANGED <<now, lastLogoutAt, call, raced>>

SaveSelect(a) ==
    /\ mark[a].phase = "select"
    /\ mark' = [mark EXCEPT ![a].phase = "update", ![a].loaded = lastLogoutAt]
    /\ UNCHANGED <<now, lastLogoutAt, call, raced>>

InFlight(a) == mark[a].phase \in {"select", "update"}

SaveUpdate(a) ==
    /\ mark[a].phase = "update"
    /\ lastLogoutAt' = SavedColumn(lastLogoutAt, mark[a].loaded, mark[a].date)
    /\ mark' = [mark EXCEPT ![a].phase = "done", ![a].loaded = NULL]
    /\ raced' = raced \cup {{a, b} : b \in {b \in Attempt : InFlight(b) /\ b[1] # a[1]}}
    /\ UNCHANGED <<now, call>>

----------------------------------------------------------------------------
(* auth-service: GET /auth/me *)

\* signAccess: JWTs carry the second of their issue.
Iat(token) == token \div Second

\* Mutant: compares with the end of the logout's second.
RevokedByTooMuch(token) ==
    lastLogoutAt # NULL /\ Iat(token) * Second <= lastLogoutAt + Second

\* `iat <= Date.parse(u.lastLogoutAt) / 1000`
Revoked(token) == lastLogoutAt # NULL /\ Iat(token) * Second <= lastLogoutAt

Tick ==
    /\ now < MaxTime
    /\ now' = now + 1
    /\ UNCHANGED <<lastLogoutAt, call, mark, raced>>

----------------------------------------------------------------------------

Next ==
    \/ \E l \in Logout : Call(l) \/ Respond(l) \/ Retry(l)
    \/ \E a \in Attempt : Receive(a) \/ SaveSelect(a) \/ SaveUpdate(a)
    \/ Tick

Spec == Init /\ [][Next]_vars

----------------------------------------------------------------------------
(* Properties *)

\* a was received before l was called, and one of the two wrote while the other
\* was in flight.
OlderMarkRaced(l, a) ==
    /\ mark[a].phase = "done" /\ mark[a].date < call[l].from
    /\ \E b \in Attempt : b[1] = l /\ {a, b} \in raced

\* A token issued before l called users-service is accepted, though l was
\* acknowledged.
Outlives(token, l) ==
    call[l].phase = "done" /\ token <= call[l].from /\ ~ Revoked(token)

\* Once users-service has acknowledged a logout, the tokens issued before it are
\* refused, with one exception: another logout's mark, received before this
\* logout was called, raced with it and wrote its older date last.  Retries of
\* the logout itself, timed out and late, do no harm (auth.service.ts 140-142,
\* jwt.strategy.ts 50-55).
AckedLogoutRevokes ==
    \A l \in Logout : \A token \in 0..now :
        Outlives(token, l) => \E a \in Attempt : OlderMarkRaced(l, a)

\* auth-service went on without a.
Abandoned(a) == a[2] < call[a[1]].attempt \/ call[a[1]].phase = "gaveUp"

\* a was received while auth-service waited for it, or was abandoned.
Awaited(a) ==
    \/ call[a[1]].phase = "trying"
    \/ mark[a].date <= call[a[1]].ended
    \/ Abandoned(a)

\* Who logs in anew is not locked out: a refused token was issued no later than
\* the second of a mark that was made before its logout was answered, unless by
\* an attempt that auth-service had abandoned (users.controller.ts 115-116).
RefusedByAwaitedMark ==
    \A token \in 0..now : Revoked(token) =>
        \E a \in Attempt :
            mark[a].phase = "done" /\ Iat(token) <= Iat(mark[a].date) /\ Awaited(a)

\* "access tokens issued before now are invalidated" (auth.service.ts:141).
LogoutRevokes == \A l \in Logout : \A token \in 0..now : ~ Outlives(token, l)

----------------------------------------------------------------------------
(* The inductive invariant behind the properties *)

CallOK(l) ==
    /\ call[l].phase = "idle" => call[l].attempt = 0
    /\ call[l].phase # "idle" => call[l].attempt >= 1 /\ call[l].from <= now
    /\ call[l].phase = "done" =>
          \E a \in Attempt : a[1] = l /\ mark[a].phase = "done"

\* l's mark is in the column, or an older one that raced with it.
Reached(l) ==
    \/ lastLogoutAt # NULL /\ lastLogoutAt >= call[l].from
    \/ \E a \in Attempt : OlderMarkRaced(l, a)

\* auth-service waits for a, went on without it, or has its answer.
Followed(a) ==
    \/ call[a[1]].phase = "trying"
    \/ Abandoned(a)
    \/ mark[a].phase = "done" /\ mark[a].date <= call[a[1]].ended

\* An UPDATE that will write nothing, because its SELECT found its own date,
\* may rely on it.
MarkOK(a) ==
    /\ mark[a].phase # "none" =>
          call[a[1]].phase # "idle" /\ a[2] <= call[a[1]].attempt /\ Followed(a)
    /\ mark[a].phase \in {"select", "update", "done"} =>
          call[a[1]].from <= mark[a].date /\ mark[a].date <= now
    /\ mark[a].phase = "update" /\ mark[a].loaded = mark[a].date => Reached(a[1])
    /\ mark[a].phase = "done" => lastLogoutAt # NULL /\ Reached(a[1])

\* A mark still in flight that is older than one made by another logout raced
\* with it.
PairOK(a, b) ==
    InFlight(a) /\ mark[b].phase = "done" /\ a[1] # b[1] /\ mark[a].date < mark[b].date
    => {a, b} \in raced

LastOK ==
    lastLogoutAt # NULL => \E a \in Attempt : mark[a].phase = "done" /\ mark[a].date = lastLogoutAt

Inv ==
    /\ TypeOK
    /\ \A l \in Logout : CallOK(l)
    /\ \A a \in Attempt : MarkOK(a)
    /\ \A a, b \in Attempt : PairOK(a, b)
    /\ LastOK
=============================================================================
