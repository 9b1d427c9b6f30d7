------------------------- MODULE RateLimiterProofs -------------------------
(***************************************************************************)
(* Proofs about the rate limiter, for every set of clients, limit and      *)
(* window.  The argument needs no sums: the history of passes is a         *)
(* sequence, and WindowInv says where in it the current window and the one *)
(* before it begin.                                                        *)
(***************************************************************************)
EXTENDS RateLimiter, TLAPS

\* The quota is the limit, and at least one.
LEMMA QuotaType == Quota \in Nat /\ Quota >= 1 /\ Quota >= Limit /\ (Limit >= 1 => Quota = Limit)
BY LimitAssumption DEF Quota

\* The empty map and history satisfy the invariant.
LEMMA InitInv == Init => Inv
BY QuotaType, TTLAssumption DEF Init, Inv, TypeOK, Entry, WindowInv, Windowed, BurstBounded, Spaced, RefusalJustified

\* A request that passes within a window with room left.
LEMMA CountHistory ==
    ASSUME NEW h \in Seq(Nat), NEW count \in Nat, NEW end \in Nat, now \in Nat,
           Windowed(h, count, end), Spaced(h), count > 0, count < Quota, end > now
    PROVE  Windowed(Append(h, now), count + 1, end) /\ Spaced(Append(h, now))
<1> DEFINE n == Len(h)
           g == Append(h, now)
<1>0. \A i, j \in 1..n : j = i + Quota + Quota => h[j] > h[i] + TTL
  BY DEF Spaced
<1>1. /\ n \in Nat /\ Len(g) = n + 1
      /\ \A i \in 1..n : h[i] \in Nat /\ g[i] = h[i]
      /\ g[n + 1] = now
  OBVIOUS
<1>2. /\ count <= n /\ end <= now + TTL
      /\ \A i \in 1..n :
            /\ h[i] <= now /\ h[i] < end
            /\ i + count <= n => h[i] + TTL < end
            /\ i + count > n => h[i] + TTL >= end
            /\ i + count + Quota <= n => h[i] + TTL + TTL < end
  BY DEF Windowed
<1> HIDE DEF n, g
<1>3. Spaced(g)
  <2> SUFFICES ASSUME NEW i \in 1..Len(g), NEW j \in 1..Len(g), j = i + Quota + Quota
               PROVE  g[j] > g[i] + TTL
    BY DEF Spaced
  <2>0. i \in 1..n /\ (j # n + 1 => j \in 1..n) /\ g[i] = h[i] /\ h[i] \in Nat
    BY <1>1, QuotaType
  <2>1. CASE j = n + 1
    <3>1. i + count + Quota <= n /\ h[i] + TTL + TTL < end
      BY <2>0, <2>1, <1>1, <1>2, QuotaType
    <3>2. g[j] = now
      BY <2>1, <1>1
    <3>3. QED
      BY <2>0, <3>1, <3>2, <1>2, TTLAssumption
  <2>2. CASE j # n + 1
    <3>1. j \in 1..n /\ g[j] = h[j]
      BY <2>0, <2>2, <1>1
    <3>2. QED
      BY <2>0, <3>1, <1>0
  <2>3. QED
    BY <2>1, <2>2
<1>4. Windowed(g, count + 1, end)
  <2> SUFFICES /\ count + 1 <= Len(g) /\ count + 1 <= Quota
               /\ \A i \in 1..Len(g) :
                     /\ g[i] <= now /\ g[i] < end
                     /\ i + count + 1 <= Len(g) => g[i] + TTL < end
                     /\ i + count + 1 > Len(g) => g[i] + TTL >= end
                     /\ i + count + 1 + Quota <= Len(g) => g[i] + TTL + TTL < end
    BY <1>2 DEF Windowed
  <2>1. QED
    BY <1>1, <1>2, TTLAssumption, QuotaType
<1>5. QED
  BY <1>3, <1>4 DEF g

\* A request that opens a window: what the last one let through is TTL old.
LEMMA OpenHistory ==
    ASSUME NEW h \in Seq(Nat), NEW count \in Nat, NEW end \in Nat, now \in Nat,
           Windowed(h, count, end), Spaced(h), count = 0 \/ end <= now
    PROVE  Windowed(Append(h, now), 1, now + TTL) /\ Spaced(Append(h, now))
<1> DEFINE n == Len(h)
           g == Append(h, now)
<1>0. \A i, j \in 1..n : j = i + Quota + Quota => h[j] > h[i] + TTL
  BY DEF Spaced
<1>1. /\ n \in Nat /\ Len(g) = n + 1
      /\ \A i \in 1..n : h[i] \in Nat /\ g[i] = h[i]
      /\ g[n + 1] = now
  OBVIOUS
<1>2. /\ count <= n /\ count <= Quota
      /\ \A i \in 1..n : h[i] < now /\ (i + count <= n => h[i] + TTL < now)
  <2>1. CASE count = 0
    BY <2>1, <1>1, QuotaType DEF Windowed
  <2>2. CASE end <= now
    BY <2>2, <1>1, TTLAssumption DEF Windowed
  <2>3. QED
    BY <2>1, <2>2
<1> HIDE DEF n, g
<1>3. Spaced(g)
  <2> SUFFICES ASSUME NEW i \in 1..Len(g), NEW j \in 1..Len(g), j = i + Quota + Quota
               PROVE  g[j] > g[i] + TTL
    BY DEF Spaced
  <2>0. i \in 1..n /\ (j # n + 1 => j \in 1..n) /\ g[i] = h[i] /\ h[i] \in Nat
    BY <1>1, QuotaType
  <2>1. CASE j = n + 1
    <3>1. i + count <= n /\ h[i] + TTL < now
      BY <2>0, <2>1, <1>1, <1>2, QuotaType
    <3>2. g[j] = now
      BY <2>1, <1>1
    <3>3. QED
      BY <2>0, <3>1, <3>2, <1>2, TTLAssumption
  <2>2. CASE j # n + 1
    <3>1. j \in 1..n /\ g[j] = h[j]
      BY <2>0, <2>2, <1>1
    <3>2. QED
      BY <2>0, <3>1, <1>0
  <2>3. QED
    BY <2>1, <2>2
<1>4. Windowed(g, 1, now + TTL)
  <2> SUFFICES /\ 1 <= Len(g) /\ 1 <= Quota
               /\ \A i \in 1..Len(g) :
                     /\ g[i] <= now /\ g[i] < now + TTL
                     /\ i + 1 <= Len(g) => g[i] + TTL < now + TTL
                     /\ i + 1 > Len(g) => g[i] + TTL >= now + TTL
                     /\ i + 1 + Quota <= Len(g) => g[i] + TTL + TTL < now + TTL
    BY TTLAssumption DEF Windowed
  <2>1. QED
    BY <1>1, <1>2, TTLAssumption, QuotaType
<1>5. QED
  BY <1>3, <1>4 DEF g

\* Counting a request of one client keeps the invariant.
LEMMA CountStep ==
    ASSUME Inv, NEW ip \in IP, Count(ip), UNCHANGED now
    PROVE  TypeOK' /\ WindowInv' /\ BurstBounded'
<1> DEFINE e == hits[ip]
<1>1. /\ e.count \in Nat /\ e.resetAt \in Nat /\ now \in Nat /\ passed[ip] \in Seq(Nat)
      /\ e.count > 0 /\ e.count < Quota /\ e.resetAt > now
  BY QuotaType, LimitAssumption DEF Inv, TypeOK, Entry, Count, Expired
<1>2. /\ Windowed(Append(passed[ip], now), e.count + 1, e.resetAt)
      /\ Spaced(Append(passed[ip], now))
  BY <1>1, CountHistory DEF Inv, WindowInv, BurstBounded
<1>3. /\ hits' = [hits EXCEPT ![ip].count = @ + 1]
      /\ passed' = [passed EXCEPT ![ip] = Append(@, now)]
      /\ UNCHANGED <<now, refused>>
  BY DEF Count, Pass
<1>4. TypeOK'
  BY <1>1, <1>3 DEF Inv, TypeOK, Entry
<1>5. ASSUME NEW c \in IP
      PROVE  /\ Windowed(passed'[c], hits'[c].count, hits'[c].resetAt)
             /\ Spaced(passed'[c])
  <2>1. CASE c = ip
    BY <2>1, <1>2, <1>3 DEF Inv, TypeOK, Entry
  <2>2. CASE c # ip
    BY <2>2, <1>3 DEF Inv, TypeOK, Entry, WindowInv, BurstBounded
  <2>3. QED
    BY <2>1, <2>2
<1>6. QED
  BY <1>3, <1>4, <1>5 DEF WindowInv, BurstBounded, Windowed, Spaced

\* Opening a window for one client keeps the invariant.
LEMMA OpenStep ==
    ASSUME Inv, NEW ip \in IP, OpenWindow(ip), UNCHANGED now
    PROVE  TypeOK' /\ WindowInv' /\ BurstBounded'
<1> DEFINE e == hits[ip]
<1>1. /\ e.count \in Nat /\ e.resetAt \in Nat /\ now \in Nat /\ passed[ip] \in Seq(Nat)
      /\ e.count = 0 \/ e.resetAt <= now
  BY DEF Inv, TypeOK, Entry, OpenWindow, Expired
<1>2. /\ Windowed(Append(passed[ip], now), 1, now + TTL)
      /\ Spaced(Append(passed[ip], now))
  BY <1>1, OpenHistory DEF Inv, WindowInv, BurstBounded
<1>3. /\ hits' = [hits EXCEPT ![ip] = [count |-> 1, resetAt |-> now + TTL]]
      /\ passed' = [passed EXCEPT ![ip] = Append(@, now)]
      /\ UNCHANGED <<now, refused>>
  BY DEF OpenWindow, Pass
<1>4. TypeOK'
  BY <1>1, <1>3, TTLAssumption DEF Inv, TypeOK, Entry
<1>5. ASSUME NEW c \in IP
      PROVE  /\ Windowed(passed'[c], hits'[c].count, hits'[c].resetAt)
             /\ Spaced(passed'[c])
  <2>1. CASE c = ip
    BY <2>1, <1>2, <1>3 DEF Inv, TypeOK, Entry
  <2>2. CASE c # ip
    BY <2>2, <1>3 DEF Inv, TypeOK, Entry, WindowInv, BurstBounded
  <2>3. QED
    BY <2>1, <2>2
<1>6. QED
  BY <1>3, <1>4, <1>5 DEF WindowInv, BurstBounded, Windowed, Spaced

\* Passes leave earlier refusals justified: the history only grows.
LEMMA PassKeepsJustified ==
    ASSUME Inv, NEW ip \in IP, Pass(ip)
    PROVE  RefusalJustified'
<1> SUFFICES ASSUME NEW c \in IP, NEW t \in refused'[c]
             PROVE  \E i, j \in 1..Len(passed'[c]) :
                       /\ j + 1 = i + Quota
                       /\ passed'[c][j] <= t
                       /\ t < passed'[c][i] + TTL
  BY DEF RefusalJustified
<1>1. /\ t \in refused[c] /\ passed[c] \in Seq(Nat)
      /\ passed'[c] = IF c = ip THEN Append(passed[c], now) ELSE passed[c]
  BY DEF Inv, TypeOK, Pass
<1>2. PICK i, j \in 1..Len(passed[c]) : j + 1 = i + Quota /\ passed[c][j] <= t /\ t < passed[c][i] + TTL
  BY <1>1 DEF Inv, RefusalJustified
<1>3. /\ i \in 1..Len(passed'[c]) /\ j \in 1..Len(passed'[c])
      /\ passed'[c][i] = passed[c][i] /\ passed'[c][j] = passed[c][j]
  BY <1>1
<1>4. QED
  BY <1>2, <1>3

\* A refusal finds the window full.
LEMMA RefuseStep ==
    ASSUME Inv, NEW ip \in IP, Refuse(ip), UNCHANGED now
    PROVE  Inv'
<1>1. TypeOK'
  BY DEF Inv, TypeOK, Refuse
<1>2. WindowInv' /\ BurstBounded'
  BY DEF Inv, Refuse, WindowInv, Windowed, BurstBounded, Spaced
<1>3. RefusalJustified'
  <2> SUFFICES ASSUME NEW c \in IP, NEW t \in refused'[c]
               PROVE  \E i, j \in 1..Len(passed[c]) :
                         /\ j + 1 = i + Quota
                         /\ passed[c][j] <= t
                         /\ t < passed[c][i] + TTL
    BY DEF RefusalJustified, Refuse
  <2>1. CASE t \in refused[c]
    BY <2>1 DEF Inv, RefusalJustified
  <2>2. CASE t \notin refused[c]
    <3> DEFINE n == Len(passed[ip])
               i == n + 1 - Quota
    <3>1. c = ip /\ t = now
      BY <2>2 DEF Inv, TypeOK, Refuse
    <3>2. /\ n \in Nat /\ Quota <= n /\ hits[ip].count = Quota
          /\ hits[ip].resetAt \in Nat /\ hits[ip].resetAt > now
      BY QuotaType, LimitAssumption DEF Inv, TypeOK, Entry, Refuse, Expired, WindowInv, Windowed, Quota
    <3>3. i \in 1..n /\ n \in 1..n /\ i + Quota > n /\ n + 1 = i + Quota
      BY <3>2, QuotaType
    <3>4. passed[ip][n] <= now /\ passed[ip][i] + TTL >= hits[ip].resetAt
      BY <3>2, <3>3 DEF Inv, WindowInv, Windowed
    <3>5. now < passed[ip][i] + TTL
      BY <3>2, <3>3, <3>4, TTLAssumption DEF Inv, TypeOK
    <3> HIDE DEF n, i
    <3>6. n \in 1..Len(passed[ip]) /\ i \in 1..Len(passed[ip])
      BY <3>3 DEF n
    <3>7. QED
      BY <3>1, <3>3, <3>4, <3>5, <3>6
  <2>3. QED
    BY <2>1, <2>2
<1>4. QED
  BY <1>1, <1>2, <1>3 DEF Inv

\* The clock's advance changes neither map nor history.
LEMMA TickStep == ASSUME Inv, Tick PROVE Inv'
<1>1. now \in Nat /\ now' = now + 1 /\ UNCHANGED <<hits, passed, refused>>
  BY DEF Inv, TypeOK, Tick
<1>2. TypeOK' /\ BurstBounded' /\ RefusalJustified'
  BY <1>1 DEF Inv, TypeOK, BurstBounded, Spaced, RefusalJustified
<1>3. WindowInv'
  <2> SUFFICES ASSUME NEW ip \in IP
               PROVE  Windowed(passed[ip], hits[ip].count, hits[ip].resetAt)'
    BY <1>1 DEF WindowInv
  <2>1. /\ passed[ip] \in Seq(Nat) /\ hits[ip].count \in Nat /\ hits[ip].resetAt \in Nat
        /\ Windowed(passed[ip], hits[ip].count, hits[ip].resetAt)
    BY DEF Inv, TypeOK, Entry, WindowInv
  <2>2. \A i \in 1..Len(passed[ip]) : passed[ip][i] \in Nat
    BY <2>1
  <2>3. QED
    BY <1>1, <2>1, <2>2, TTLAssumption DEF Windowed
<1>4. QED
  BY <1>2, <1>3 DEF Inv

\* The invariant is inductive.
LEMMA NextInv == Inv /\ [Next]_vars => Inv'
<1> SUFFICES ASSUME Inv, [Next]_vars PROVE Inv'
  OBVIOUS
<1>1. CASE Tick
  BY <1>1, TickStep
<1>2. ASSUME NEW ip \in IP, HandleRequest(ip) PROVE Inv'
  <2>1. CASE OpenWindow(ip)
    BY <2>1, <1>2, OpenStep, PassKeepsJustified DEF HandleRequest, OpenWindow, Inv
  <2>2. CASE Count(ip)
    BY <2>2, <1>2, CountStep, PassKeepsJustified DEF HandleRequest, Count, Inv
  <2>3. CASE Refuse(ip)
    BY <2>3, <1>2, RefuseStep DEF HandleRequest
  <2>4. QED
    BY <1>2, <2>1, <2>2, <2>3 DEF HandleRequest
<1>3. CASE UNCHANGED vars
  BY <1>3 DEF vars, Inv, TypeOK, WindowInv, Windowed, BurstBounded, Spaced, RefusalJustified
<1>4. QED
  BY <1>1, <1>2, <1>3 DEF Next

\* The bookkeeping of the windows is an invariant of the limiter.
THEOREM LimiterInvariant == Spec => []Inv
BY InitInv, NextInv, PTL DEF Spec

\* The limiter's state has its type.
THEOREM LimiterTypeCorrect == Spec => []TypeOK
BY LimiterInvariant, PTL DEF Inv

\* At most twice the quota passes in any TTL ticks (main.ts 11-25).
THEOREM BurstsAreBounded == Spec => []BurstBounded
BY LimiterInvariant, PTL DEF Inv

\* A client is refused only for a quota of passes less than TTL old.
THEOREM RefusalsAreJustified == Spec => []RefusalJustified
BY LimiterInvariant, PTL DEF Inv

----------------------------------------------------------------------------
(* The rate in the long run *)

\* From the start of the clock on, a client's passes are within the rate the
\* limiter is configured for, with one quota to spare: bursts of two quotas
\* (BurstBounded) do not add up.
RateKept == \A ip \in IP : Len(passed[ip]) * TTL <= Quota * (now + TTL)

\* What passed before the window that is open has had its time.
EarlierKept(ip) ==
    /\ hits[ip].count > 0 =>
          (Len(passed[ip]) - hits[ip].count) * TTL + Quota * TTL <= Quota * hits[ip].resetAt
    /\ hits[ip].count = 0 => Len(passed[ip]) = 0

RateInv == \A ip \in IP : EarlierKept(ip)

LEMMA Times ==
  /\ \A a, b, k \in Nat : a <= b => a * k <= b * k /\ k * a <= k * b
  /\ \A a, b, k \in Nat : (a + b) * k = a * k + b * k /\ k * (a + b) = k * a + k * b
  /\ \A a, k \in Nat : a * k \in Nat
<1>1. \A a, b, k \in Nat : (a + b) * k = a * k + b * k /\ k * (a + b) = k * a + k * b
  OBVIOUS
<1>2. \A a, k \in Nat : a * k \in Nat
  OBVIOUS
<1>3. ASSUME NEW a \in Nat, NEW b \in Nat, NEW k \in Nat, a <= b
      PROVE  a * k <= b * k /\ k * a <= k * b
  <2>1. PICK d \in Nat : b = a + d
    <3>1. b - a \in Nat /\ b = a + (b - a)
      BY <1>3
    <3> QED BY <3>1
  <2>2. b * k = a * k + d * k /\ k * b = k * a + k * d
    BY <2>1, <1>1
  <2>3. d * k \in Nat /\ k * d \in Nat /\ a * k \in Nat /\ k * a \in Nat
    BY <1>2
  <2> HIDE <2>1
  <2> QED BY <2>2, <2>3
<1> QED BY <1>1, <1>2, <1>3

\* What a window and those before it let through.
LEMMA PassedSoFar ==
  ASSUME Inv, NEW ip \in IP, EarlierKept(ip), hits[ip].count > 0
  PROVE  Len(passed[ip]) * TTL <= Quota * hits[ip].resetAt
<1> DEFINE p == Len(passed[ip])
           c == hits[ip].count
           e == hits[ip].resetAt
           b == p - c
<1>1. p \in Nat /\ c \in Nat /\ e \in Nat /\ c <= p /\ c <= Quota
  BY DEF Inv, TypeOK, Entry, WindowInv, Windowed
<1>2. b \in Nat /\ p <= b + Quota /\ b + Quota \in Nat
  BY <1>1, QuotaType
<1>3. p * TTL <= (b + Quota) * TTL
  BY <1>1, <1>2, Times, TTLAssumption
<1>4. (b + Quota) * TTL = b * TTL + Quota * TTL
  BY <1>2, Times, TTLAssumption, QuotaType
<1>5. b * TTL + Quota * TTL <= Quota * e
  BY DEF EarlierKept
<1>6. p * TTL \in Nat /\ b * TTL \in Nat /\ Quota * TTL \in Nat /\ Quota * e \in Nat
  BY <1>1, <1>2, Times, TTLAssumption, QuotaType
<1> HIDE DEF b, p, e
<1> QED BY <1>3, <1>4, <1>5, <1>6 DEF p, e

LEMMA RateNext == Inv /\ RateInv /\ [Next]_vars => RateInv'
<1> SUFFICES ASSUME Inv, RateInv, [Next]_vars, NEW c \in IP
             PROVE  EarlierKept(c)'
  BY DEF RateInv
<1>0. /\ hits \in [IP -> Entry] /\ passed \in [IP -> Seq(Nat)] /\ now \in Nat
      /\ EarlierKept(c)
  BY DEF Inv, TypeOK, RateInv
<1>1. CASE UNCHANGED <<hits, passed>>
  BY <1>0, <1>1 DEF EarlierKept
<1>2. ASSUME NEW ip \in IP, Count(ip) PROVE EarlierKept(c)'
  <2>1. CASE c # ip
    BY <1>0, <1>2, <2>1 DEF EarlierKept, Count, Pass, Entry
  <2>2. CASE c = ip
    <3>1. hits[c].count \in Nat /\ hits[c].count > 0
      BY <1>0, <1>2, <2>2 DEF Count, Expired, Entry
    <3>2. /\ hits'[c].count = hits[c].count + 1 /\ hits'[c].resetAt = hits[c].resetAt
          /\ Len(passed'[c]) = Len(passed[c]) + 1
      BY <1>0, <1>2, <2>2 DEF Count, Pass, Entry
    <3>3. Len(passed'[c]) - hits'[c].count = Len(passed[c]) - hits[c].count
      <4>1. Len(passed[c]) \in Nat
        BY <1>0
      <4>2. \A m, n \in Nat : (m + 1) - (n + 1) = m - n
        OBVIOUS
      <4> QED BY <3>1, <3>2, <4>1, <4>2
    <3> QED BY <1>0, <3>1, <3>2, <3>3 DEF EarlierKept
  <2> QED BY <2>1, <2>2
<1>3. ASSUME NEW ip \in IP, OpenWindow(ip) PROVE EarlierKept(c)'
  <2>1. CASE c # ip
    BY <1>0, <1>3, <2>1 DEF EarlierKept, OpenWindow, Pass, Entry
  <2>2. CASE c = ip
    <3> DEFINE p == Len(passed[c])
    <3>1. /\ hits'[c].count = 1 /\ hits'[c].resetAt = now + TTL
          /\ Len(passed'[c]) - hits'[c].count = p /\ p \in Nat
      BY <1>0, <1>3, <2>2 DEF OpenWindow, Pass, Entry
    <3>2. p * TTL <= Quota * now
      <4>1. CASE hits[c].count = 0
        <5>1. p = 0
          BY <1>0, <4>1 DEF EarlierKept
        <5>2. 0 * TTL = 0 /\ Quota * now \in Nat
          BY <1>0, Times, TTLAssumption, QuotaType
        <5> QED BY <5>1, <5>2
      <4>2. CASE hits[c].count # 0
        <5>1. hits[c].count > 0 /\ hits[c].resetAt \in Nat /\ hits[c].resetAt <= now
          BY <1>0, <1>3, <2>2, <4>2 DEF OpenWindow, Expired, Entry
        <5>2. p * TTL <= Quota * hits[c].resetAt
          BY <1>0, <5>1, PassedSoFar
        <5>3. Quota * hits[c].resetAt <= Quota * now
          BY <1>0, <5>1, Times, QuotaType
        <5>4. p * TTL \in Nat /\ Quota * hits[c].resetAt \in Nat /\ Quota * now \in Nat
          BY <1>0, <3>1, <5>1, Times, TTLAssumption, QuotaType
        <5> HIDE DEF p
        <5> QED BY <5>2, <5>3, <5>4
      <4> QED BY <4>1, <4>2
    <3>3. Quota * (now + TTL) = Quota * now + Quota * TTL
      BY <1>0, Times, TTLAssumption, QuotaType
    <3>4. p * TTL \in Nat /\ Quota * now \in Nat /\ Quota * TTL \in Nat
      BY <1>0, <3>1, Times, TTLAssumption, QuotaType
    <3> HIDE DEF p
    <3>5. p * TTL + Quota * TTL <= Quota * (now + TTL)
      BY <3>2, <3>3, <3>4
    <3> QED BY <3>1, <3>5 DEF EarlierKept
  <2> QED BY <2>1, <2>2
<1>4. CASE Tick
  BY <1>1, <1>4 DEF Tick
<1>5. ASSUME NEW ip \in IP, Refuse(ip) PROVE EarlierKept(c)'
  BY <1>1, <1>5 DEF Refuse
<1> QED BY <1>1, <1>2, <1>3, <1>4, <1>5 DEF Next, HandleRequest, vars

\* Over a client's whole life no more passes than the configured rate of
\* RATE_LIMIT_LIMIT per RATE_LIMIT_TTL allows, and one quota: a client that
\* times its bursts to the ends of its windows gains nothing in the long run
\* (main.ts 11-25).
THEOREM LongRunRateIsKept == Spec => []RateKept
<1>1. Init => RateInv
  <2> SUFFICES ASSUME Init, NEW ip \in IP
               PROVE  EarlierKept(ip)
    BY DEF RateInv
  <2>1. hits[ip].count = 0 /\ Len(passed[ip]) = 0
    BY DEF Init
  <2> QED BY <2>1 DEF EarlierKept
<1>2. Inv /\ RateInv => RateKept
  <2> SUFFICES ASSUME Inv, RateInv, NEW ip \in IP
               PROVE  Len(passed[ip]) * TTL <= Quota * (now + TTL)
    BY DEF RateKept
  <2>1. /\ EarlierKept(ip) /\ hits[ip].count \in Nat /\ hits[ip].resetAt \in Nat
        /\ Len(passed[ip]) \in Nat /\ now \in Nat
        /\ hits[ip].count > 0 => hits[ip].resetAt <= now + TTL
    BY DEF Inv, TypeOK, Entry, WindowInv, Windowed, RateInv
  <2>2. /\ Len(passed[ip]) * TTL \in Nat /\ Quota * (now + TTL) \in Nat
        /\ Quota * hits[ip].resetAt \in Nat
    BY <2>1, Times, TTLAssumption, QuotaType
  <2>3. CASE hits[ip].count = 0
    <3>1. Len(passed[ip]) = 0
      BY <2>1, <2>3 DEF EarlierKept
    <3>2. 0 * TTL = 0
      BY TTLAssumption
    <3> QED BY <2>2, <3>1, <3>2
  <2>4. CASE hits[ip].count # 0
    <3>1. hits[ip].count > 0
      BY <2>1, <2>4
    <3>2. Len(passed[ip]) * TTL <= Quota * hits[ip].resetAt
      BY <2>1, <3>1, PassedSoFar
    <3>3. Quota * hits[ip].resetAt <= Quota * (now + TTL)
      BY <2>1, <3>1, Times, TTLAssumption, QuotaType
    <3> QED BY <2>2, <3>2, <3>3
  <2> QED BY <2>3, <2>4
<1> QED BY <1>1, <1>2, RateNext, LimiterInvariant, PTL DEF Spec
=============================================================================
