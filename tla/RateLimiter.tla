---------------------------- MODULE RateLimiter ----------------------------
(***************************************************************************)
(* createRateLimitMiddleware, the fixed-window limiter that every service  *)
(* installs before its routes (main.ts of auth-, users-, events- and       *)
(* registrations-service hold the same function).  The middleware runs     *)
(* without an await, so one request is one step.                           *)
(*                                                                         *)
(* The clock is taken to be monotonic; Date.now() is not when the host's   *)
(* clock is set back, and nothing is claimed of that case.                 *)
(***************************************************************************)
EXTENDS Naturals, Sequences

CONSTANTS
    IP,         \* the keys of the map: req.ip, or 'unknown'
    Limit,      \* RATE_LIMIT_LIMIT
    TTL,        \* RATE_LIMIT_TTL, in ticks of the clock
    MaxTime     \* bound on the clock

ASSUME LimitAssumption == Limit \in Nat
ASSUME TTLAssumption == TTL \in Nat \ {0}
ASSUME MaxTimeAssumption == MaxTime \in Nat

VARIABLES
    now,        \* the clock
    hits,       \* hits[ip]: the map's entry; count 0 stands for no entry
    passed,     \* history: the times at which ip's requests were let through
    refused     \* history: the times at which ip was answered 429

vars == <<now, hits, passed, refused>>

Entry == [count : Nat, resetAt : Nat]

TypeOK ==
    /\ now \in Nat
    /\ hits \in [IP -> Entry]
    /\ passed \in [IP -> Seq(Nat)]
    /\ refused \in [IP -> SUBSET Nat]

Init ==
    /\ now = 0
    /\ hits = [ip \in IP |-> [count |-> 0, resetAt |-> 0]]
    /\ passed = [ip \in IP |-> <<>>]
    /\ refused = [ip \in IP |-> {}]

Pass(ip) == passed' = [passed EXCEPT ![ip] = Append(@, now)] /\ UNCHANGED refused

\* Mutant: a window that the clock's advance does not end in time.
ExpiredLate(ip) == hits[ip].count = 0 \/ hits[ip].resetAt < now

\* The window of ip has ended, or never began: `!entry || entry.resetAt <= now`.
Expired(ip) == hits[ip].count = 0 \/ hits[ip].resetAt <= now

\* Mutant: a window that ends before it begins.
OpenWindowBackwards(ip) ==
    /\ Expired(ip)
    /\ hits' = [hits EXCEPT ![ip] = [count |-> 1, resetAt |-> now - TTL]]
    /\ Pass(ip)

\* Whatever the limit, the request that opens a window passes.
OpenWindow(ip) ==
    /\ Expired(ip)
    /\ hits' = [hits EXCEPT ![ip] = [count |-> 1, resetAt |-> now + TTL]]
    /\ Pass(ip)

\* Mutant: the count goes up after a request that was one too many.
CountOffByOne(ip) ==
    /\ ~ Expired(ip) /\ hits[ip].count <= Limit
    /\ hits' = [hits EXCEPT ![ip].count = @ + 1]
    /\ Pass(ip)

Count(ip) ==
    /\ ~ Expired(ip) /\ hits[ip].count < Limit
    /\ hits' = [hits EXCEPT ![ip].count = @ + 1]
    /\ Pass(ip)

\* 429; the map is not touched.
Refuse(ip) ==
    /\ ~ Expired(ip) /\ hits[ip].count >= Limit
    /\ refused' = [refused EXCEPT ![ip] = @ \cup {now}]
    /\ UNCHANGED <<hits, passed>>

HandleRequest(ip) ==
    /\ OpenWindow(ip) \/ Count(ip) \/ Refuse(ip)
    /\ UNCHANGED now

Tick ==
    /\ now < MaxTime
    /\ now' = now + 1
    /\ UNCHANGED <<hits, passed, refused>>

Next == Tick \/ \E ip \in IP : HandleRequest(ip)

Spec == Init /\ [][Next]_vars

----------------------------------------------------------------------------
(* Properties *)

\* What a window lets through: RATE_LIMIT_LIMIT requests, but never less than
\* the one that opens it.
Quota == IF Limit = 0 THEN 1 ELSE Limit

\* Passes Quota + Quota apart in a history are more than TTL apart.
Spaced(history) ==
    \A i, j \in 1..Len(history) : j = i + Quota + Quota => history[j] > history[i] + TTL

\* No interval of TTL ticks, wherever it starts, sees more than twice the
\* quota pass: a burst at the end of one window and one at the start of the
\* next is the worst case (main.ts 11-25).
BurstBounded == \A ip \in IP : Spaced(passed[ip])

\* Nobody is refused early or for long: a 429 at time t means that a full
\* quota of ip's own requests passed less than TTL ago, so an ip that stays
\* quiet, or is refused, for TTL ticks is let through again.
RefusalJustified ==
    \A ip \in IP : \A t \in refused[ip] :
        \E i, j \in 1..Len(passed[ip]) :
            /\ j + 1 = i + Quota
            /\ passed[ip][j] <= t
            /\ t < passed[ip][i] + TTL

----------------------------------------------------------------------------
(* The inductive invariant: where the passes of the current window, and     *)
(* those of the window before it, lie in the history                        *)

\* The last count passes are those of the current window, which opened at
\* resetAt - TTL; all but the last count + Quota are more than TTL older.
Windowed(history, count, end) ==
    /\ count <= Len(history) /\ count <= Quota
    /\ count = 0 => Len(history) = 0
    /\ count > 0 => end <= now + TTL
    /\ \A i \in 1..Len(history) :
          /\ history[i] <= now /\ history[i] < end
          /\ i + count <= Len(history) => history[i] + TTL < end
          /\ i + count > Len(history) => history[i] + TTL >= end
          /\ i + count + Quota <= Len(history) => history[i] + TTL + TTL < end

WindowInv == \A ip \in IP : Windowed(passed[ip], hits[ip].count, hits[ip].resetAt)

Inv == TypeOK /\ WindowInv /\ BurstBounded /\ RefusalJustified
=============================================================================
