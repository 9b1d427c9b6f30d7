----------------------- MODULE AccessRevocationProofs -----------------------
(***************************************************************************)
(* Proofs about access revocation, for every number of logouts, attempts   *)
(* and ticks per second: Inv is inductive, and the properties follow.      *)
(***************************************************************************)
EXTENDS AccessRevocation, TLAPS

----------------------------------------------------------------------------
(* Arithmetic of seconds *)

\* A second's number, times its length, is within a second of the time.
LEMMA IatBounds ==
    ASSUME NEW t \in Nat
    PROVE  Iat(t) \in Nat /\ Iat(t) * Second <= t /\ t < Iat(t) * Second + Second
BY SecondAssumption DEF Iat

\* Seconds are ordered as their first instants are.
LEMMA IatOrder ==
    ASSUME NEW t \in Nat, NEW d \in Nat, Iat(t) * Second <= d
    PROVE  Iat(t) <= Iat(d)
<1> DEFINE i == Iat(t)
           j == Iat(d)
<1>1. i \in Nat /\ j \in Nat /\ i * Second <= d /\ d < j * Second + Second
  BY IatBounds
<1>2. Second \in Nat /\ Second > 0
  BY SecondAssumption
<1> HIDE DEF i, j
<1>3. ASSUME i >= j + 1 PROVE FALSE
  <2>1. i * Second >= (j + 1) * Second
    BY <1>1, <1>2, <1>3
  <2>2. (j + 1) * Second = j * Second + Second
    BY <1>1, <1>2
  <2>3. j * Second \in Nat /\ i * Second \in Nat
    BY <1>1, <1>2
  <2>4. QED
    BY <1>1, <1>2, <2>1, <2>2, <2>3
<1>4. i <= j
  BY <1>1, <1>3
<1>5. QED
  BY <1>4 DEF i, j

----------------------------------------------------------------------------
(* What every step keeps *)

Kept ==
    /\ now <= now'
    /\ lastLogoutAt # NULL => lastLogoutAt' # NULL
    /\ \A a \in Attempt : mark[a].phase = "done" =>
          mark'[a].phase = "done" /\ mark'[a].date = mark[a].date
    /\ \A l \in Logout : call[l].phase # "idle" =>
          call'[l].phase # "idle" /\ call'[l].from = call[l].from
    /\ \A l \in Logout : call[l].attempt <= call'[l].attempt
    /\ raced \subseteq raced'

\* An older mark that raced with a logout stays one.
LEMMA OlderMarkKept ==
    ASSUME Kept, NEW l \in Logout, NEW a \in Attempt, call[l].phase # "idle",
           OlderMarkRaced(l, a)
    PROVE  OlderMarkRaced(l, a)'
BY DEF Kept, OlderMarkRaced

\* As long as the column does not go back before it, a logout's mark counts.
LEMMA ReachedKept ==
    ASSUME Kept, NEW l \in Logout, call[l].phase # "idle", Reached(l),
           lastLogoutAt' = lastLogoutAt
    PROVE  Reached(l)'
<1>1. CASE lastLogoutAt # NULL /\ lastLogoutAt >= call[l].from
  BY <1>1 DEF Kept, Reached
<1>2. ASSUME NEW a \in Attempt, OlderMarkRaced(l, a) PROVE Reached(l)'
  BY <1>2, OlderMarkKept DEF Reached
<1>3. QED
  BY <1>1, <1>2 DEF Reached

\* The fields of the records.
LEMMA Fields ==
    ASSUME TypeOK
    PROVE  /\ now \in Nat
           /\ \A l \in Logout : /\ call[l].from \in Nat /\ call[l].ended \in Nat
                                 /\ call[l].attempt \in 0..MaxAttempts
                                 /\ call[l].phase \in {"idle", "trying", "done", "gaveUp"}
           /\ \A a \in Attempt : /\ a[1] \in Logout /\ a[2] \in 1..MaxAttempts
                                  /\ mark[a].date \in Nat
                                  /\ mark[a].phase \in {"none", "sent", "select", "update", "done"}
BY DEF TypeOK, CallType, MarkType, Attempt

LEMMA InitInv == Init => Inv
BY MaxAttemptsAssumption
   DEF Init, Inv, TypeOK, CallType, MarkType, CallOK, MarkOK, PairOK, LastOK, InFlight

----------------------------------------------------------------------------
(* Steps of auth-service *)

\* l's call goes on to c, and sends at most one attempt that was not sent.
Progress(l, c) ==
    /\ c \in CallType
    /\ call' = [call EXCEPT ![l] = c]
    /\ c.phase # "idle" /\ c.attempt >= 1 /\ c.attempt >= call[l].attempt /\ c.from <= now
    /\ call[l].phase # "idle" => c.from = call[l].from
    /\ UNCHANGED <<now, lastLogoutAt, raced>>
    /\ mark' \in [Attempt -> MarkType]
    /\ \A a \in Attempt :
          \/ mark'[a] = mark[a]
          \/ /\ mark[a].phase = "none" /\ mark'[a].phase = "sent"
             /\ a[1] = l /\ a[2] <= c.attempt /\ c.phase = "trying"
    /\ c.phase = "done" => \E a \in Attempt : a[1] = l /\ mark[a].phase = "done"
    /\ \A a \in Attempt : a[1] = l /\ mark[a].phase # "none" =>
          \/ c.phase = "trying"
          \/ a[2] < c.attempt \/ c.phase = "gaveUp"
          \/ mark[a].phase = "done" /\ mark[a].date <= c.ended

LEMMA ProgressStep ==
    ASSUME Inv, NEW l \in Logout, NEW c, Progress(l, c)
    PROVE  Inv'
<1>1. /\ call'[l] = c /\ \A m \in Logout \ {l} : call'[m] = call[m]
      /\ now' = now /\ lastLogoutAt' = lastLogoutAt /\ raced' = raced
  BY DEF Inv, TypeOK, Progress
<1>2. TypeOK'
  BY DEF Inv, TypeOK, Progress
<1>3. \A a \in Attempt :
         \/ mark'[a] = mark[a]
         \/ /\ mark[a].phase = "none" /\ mark'[a].phase = "sent" /\ a[1] = l /\ a[2] <= c.attempt
            /\ c.phase = "trying"
  BY DEF Progress
<1>4. Kept
  <2>1. \A m \in Logout : call[m].attempt <= call'[m].attempt
    BY <1>1, Fields DEF Inv, Progress
  <2>2. QED
    BY <1>1, <1>3, <2>1, Fields DEF Inv, Kept, Progress
<1>5. ASSUME NEW m \in Logout PROVE CallOK(m)'
  <2>1. CallOK(m)
    BY DEF Inv
  <2>2. CASE m = l
    BY <1>1, <1>4, <2>2 DEF CallOK, Progress, Kept
  <2>3. CASE m # l
    BY <1>1, <1>4, <2>1, <2>3 DEF CallOK, Kept
  <2>4. QED
    BY <2>2, <2>3
<1>6. ASSUME NEW a \in Attempt PROVE MarkOK(a)'
  <2>1. MarkOK(a) /\ a[1] \in Logout
    BY Fields DEF Inv
  <2>2. CASE mark'[a].phase = "sent" /\ mark[a].phase = "none"
    BY <1>1, <1>3, <2>2 DEF MarkOK, Progress, Followed
  <2>3. CASE mark'[a] = mark[a]
    <3>1. mark'[a].phase # "none" => call'[a[1]].phase # "idle" /\ a[2] <= call'[a[1]].attempt
      BY <1>4, <2>1, <2>3, <1>2, Fields DEF MarkOK, Kept, Inv, TypeOK, CallType
    <3>2. mark'[a].phase \in {"select", "update", "done"} =>
             call'[a[1]].from <= mark'[a].date /\ mark'[a].date <= now'
      BY <1>1, <1>4, <2>1, <2>3 DEF MarkOK, Kept
    <3>3. mark[a].phase # "none" /\ Reached(a[1]) => Reached(a[1])'
      BY <1>1, <1>4, <2>1, ReachedKept DEF MarkOK
    <3>4. mark[a].phase # "none" => Followed(a)'
      <4>1. CASE a[1] = l
        BY <1>1, <2>1, <2>3, <4>1 DEF MarkOK, Progress, Followed, Abandoned
      <4>2. CASE a[1] # l
        BY <1>1, <2>1, <2>3, <4>2 DEF MarkOK, Followed, Abandoned
      <4>3. QED
        BY <4>1, <4>2
    <3>5. QED
      BY <1>1, <2>1, <2>3, <3>1, <3>2, <3>3, <3>4 DEF MarkOK
  <2>4. QED
    BY <1>3, <2>2, <2>3
<1>7. ASSUME NEW a \in Attempt, NEW b \in Attempt PROVE PairOK(a, b)'
  <2> SUFFICES ASSUME InFlight(a)', mark'[b].phase = "done", a[1] # b[1],
                      mark'[a].date < mark'[b].date
               PROVE  {a, b} \in raced
    BY <1>1 DEF PairOK
  <2>1. mark'[a] = mark[a] /\ mark'[b] = mark[b]
    BY <1>3 DEF InFlight
  <2>2. QED
    BY <2>1 DEF Inv, PairOK, InFlight
<1>8. LastOK'
  BY <1>1, <1>4 DEF Inv, LastOK, Kept
<1>9. QED
  BY <1>2, <1>5, <1>6, <1>7, <1>8 DEF Inv

\* Sending one attempt.
LEMMA SentOne ==
    ASSUME TypeOK, NEW a \in Attempt, mark' = [mark EXCEPT ![a].phase = "sent"]
    PROVE  /\ mark' \in [Attempt -> MarkType]
           /\ \A b \in Attempt : mark'[b] = mark[b] \/ (b = a /\ mark'[b].phase = "sent")
<1>1. mark[a] \in MarkType
  BY DEF TypeOK
<1>2. [mark[a] EXCEPT !.phase = "sent"] \in MarkType
      /\ [mark[a] EXCEPT !.phase = "sent"].phase = "sent"
  BY <1>1 DEF MarkType
<1>3. mark' = [mark EXCEPT ![a] = [mark[a] EXCEPT !.phase = "sent"]]
  OBVIOUS
<1>4. QED
  BY <1>2, <1>3 DEF TypeOK

\* Of the step of a call, l's record afterwards.
LEMMA CallProgress == ASSUME Inv, NEW l \in Logout, Call(l) PROVE \E c : Progress(l, c)
<1> DEFINE c == [phase |-> "trying", attempt |-> 1, from |-> now, ended |-> 0]
           first == <<l, 1>>
<1>1. call' = [call EXCEPT ![l] = c] /\ c \in CallType
  BY Fields, MaxAttemptsAssumption DEF Inv, Call, CallType
<1>2. call[l].attempt = 0 /\ \A a \in Attempt : a[1] = l => mark[a].phase = "none"
  BY DEF Call, Inv, CallOK, MarkOK
<1>3. first \in Attempt /\ first[1] = l /\ first[2] = 1
  BY MaxAttemptsAssumption DEF Attempt
<1>4. mark' = [mark EXCEPT ![first].phase = "sent"] /\ call[l].phase = "idle"
      /\ UNCHANGED <<now, lastLogoutAt, raced>>
  BY DEF Call, Send
<1>5. c.phase = "trying" /\ c.attempt = 1 /\ c.from = now /\ now \in Nat
  BY Fields DEF Inv
<1> HIDE DEF c, first
<1>6. mark' \in [Attempt -> MarkType]
      /\ \A a \in Attempt : mark'[a] = mark[a] \/ (a = first /\ mark'[a].phase = "sent")
  BY <1>3, <1>4, SentOne DEF Inv
<1>7. \A a \in Attempt :
         \/ mark'[a] = mark[a]
         \/ /\ mark[a].phase = "none" /\ mark'[a].phase = "sent"
            /\ a[1] = l /\ a[2] <= c.attempt /\ c.phase = "trying"
  BY <1>2, <1>3, <1>5, <1>6
<1>8. Progress(l, c)
  BY <1>1, <1>2, <1>4, <1>5, <1>6, <1>7 DEF Progress
<1>9. QED
  BY <1>8

LEMMA RespondProgress == ASSUME Inv, NEW l \in Logout, Respond(l) PROVE \E c : Progress(l, c)
<1> DEFINE c == [call[l] EXCEPT !.phase = "done", !.ended = now]
           current == <<l, call[l].attempt>>
<1>1. call[l] \in CallType /\ now \in Nat /\ call[l].phase = "trying"
  BY DEF Inv, TypeOK, Respond
<1>2. call' = [call EXCEPT ![l] = c] /\ c \in CallType
  BY <1>1 DEF Inv, TypeOK, Respond, End, CallType
<1>3. c.phase = "done" /\ c.ended = now /\ c.from = call[l].from /\ c.attempt = call[l].attempt
  BY <1>1 DEF CallType
<1>4. call[l].attempt \in 1..MaxAttempts /\ call[l].from <= now
  BY <1>1, Fields, MaxAttemptsAssumption DEF Inv, CallOK
<1>5. current \in Attempt /\ current[1] = l /\ mark[current].phase = "done"
  BY <1>4 DEF Attempt, Respond, Current
<1>6. \A a \in Attempt : mark[a].phase = "done" => mark[a].date <= now
  BY DEF Inv, MarkOK
<1>7. mark' \in [Attempt -> MarkType] /\ mark' = mark
  BY DEF Inv, TypeOK, Respond
<1>11. ASSUME NEW a \in Attempt, a[1] = l, mark[a].phase # "none"
       PROVE  a[2] < c.attempt \/ (mark[a].phase = "done" /\ mark[a].date <= c.ended)
  <2>1. a[2] <= call[l].attempt /\ a[2] \in Nat
    BY <1>11, Fields DEF Inv, MarkOK
  <2>2. a = <<a[1], a[2]>>
    BY DEF Attempt
  <2>3. CASE a[2] = call[l].attempt
    BY <1>3, <1>5, <1>6, <1>11, <2>2, <2>3
  <2>4. QED
    BY <1>3, <1>4, <2>1, <2>3
<1>8. UNCHANGED <<now, lastLogoutAt, raced>>
  BY DEF Respond
<1> HIDE DEF c, current
<1>9. Progress(l, c)
  BY <1>1, <1>2, <1>3, <1>4, <1>5, <1>7, <1>8, <1>11 DEF Progress
<1>10. QED
  BY <1>9

LEMMA RetryProgress == ASSUME Inv, NEW l \in Logout, Retry(l) PROVE \E c : Progress(l, c)
<1>1. /\ call[l] \in CallType /\ now \in Nat /\ call[l].phase = "trying"
      /\ call[l].attempt \in 1..MaxAttempts /\ call[l].from <= now
      /\ UNCHANGED <<now, lastLogoutAt, raced>>
  BY Fields, MaxAttemptsAssumption DEF Inv, TypeOK, Retry, CallOK
<1>2. CASE /\ call[l].attempt < MaxAttempts
           /\ call' = [call EXCEPT ![l].attempt = @ + 1]
           /\ Send(<<l, call[l].attempt + 1>>)
  <2> DEFINE c == [call[l] EXCEPT !.attempt = @ + 1]
             next == <<l, call[l].attempt + 1>>
  <2>1. call' = [call EXCEPT ![l] = c] /\ c \in CallType
    BY <1>1, <1>2, MaxAttemptsAssumption DEF Inv, TypeOK, CallType
  <2>2. c.phase = "trying" /\ c.from = call[l].from /\ c.attempt = call[l].attempt + 1
    BY <1>1 DEF CallType
  <2>3. next \in Attempt /\ next[1] = l /\ next[2] = call[l].attempt + 1
    BY <1>1, <1>2, MaxAttemptsAssumption DEF Attempt
  <2>4. mark[next].phase = "none"
    BY <1>1, <2>3 DEF Inv, MarkOK
  <2>5. mark' = [mark EXCEPT ![next].phase = "sent"]
    BY <1>2 DEF Send
  <2> HIDE DEF c, next
  <2>6. mark' \in [Attempt -> MarkType]
        /\ \A a \in Attempt : mark'[a] = mark[a] \/ (a = next /\ mark'[a].phase = "sent")
    BY <2>3, <2>5, SentOne DEF Inv
  <2>8. c.attempt >= 1 /\ c.attempt >= call[l].attempt /\ next[2] <= c.attempt
    BY <1>1, <2>2, <2>3, MaxAttemptsAssumption
  <2>9. \A a \in Attempt :
           \/ mark'[a] = mark[a]
           \/ /\ mark[a].phase = "none" /\ mark'[a].phase = "sent"
              /\ a[1] = l /\ a[2] <= c.attempt /\ c.phase = "trying"
    BY <2>2, <2>3, <2>4, <2>6, <2>8
  <2>10. Progress(l, c)
    BY <1>1, <2>1, <2>2, <2>6, <2>8, <2>9 DEF Progress
  <2>11. QED
    BY <2>10
<1>3. CASE End(l, "gaveUp") /\ UNCHANGED mark
  <2> DEFINE c == [call[l] EXCEPT !.phase = "gaveUp", !.ended = now]
  <2>1. call' = [call EXCEPT ![l] = c] /\ c \in CallType
    BY <1>1, <1>3 DEF Inv, TypeOK, End, CallType
  <2>2. c.phase = "gaveUp" /\ c.from = call[l].from /\ c.attempt = call[l].attempt
    BY <1>1 DEF CallType
  <2>3. mark' \in [Attempt -> MarkType] /\ mark' = mark
    BY <1>3 DEF Inv, TypeOK
  <2> HIDE DEF c
  <2>4. Progress(l, c)
    BY <1>1, <2>1, <2>2, <2>3 DEF Progress
  <2>5. QED
    BY <2>4
<1>4. QED
  BY <1>2, <1>3 DEF Retry

----------------------------------------------------------------------------
(* Steps of users-service *)

\* An attempt that is received, or whose SELECT returns.
Advance(a, m) ==
    /\ m \in MarkType
    /\ mark' = [mark EXCEPT ![a] = m]
    /\ UNCHANGED <<now, lastLogoutAt, call, raced>>
    /\ \/ mark[a].phase = "sent" /\ m.phase = "select" /\ m.date = now
       \/ /\ mark[a].phase = "select" /\ m.phase = "update"
          /\ m.date = mark[a].date /\ m.loaded = lastLogoutAt

LEMMA AdvanceStep ==
    ASSUME Inv, NEW a \in Attempt, NEW m, Advance(a, m)
    PROVE  Inv'
<1>1. /\ mark'[a] = m /\ \A b \in Attempt \ {a} : mark'[b] = mark[b]
      /\ UNCHANGED <<now, lastLogoutAt, call, raced>>
      /\ mark[a].phase \in {"sent", "select"} /\ m.phase \in {"select", "update"}
  BY DEF Inv, TypeOK, Advance
<1>2. TypeOK'
  BY DEF Inv, TypeOK, Advance
<1>3. Kept
  BY <1>1, Fields DEF Inv, Kept
<1>4. \A l \in Logout : CallOK(l)'
  BY <1>1, <1>3 DEF Inv, CallOK, Kept
<1>5. \A b \in Attempt : /\ b[1] \in Logout /\ call[b[1]].from \in Nat
                         /\ mark[b].phase # "none" => call[b[1]].phase # "idle"
                         /\ mark[b].phase # "none" => call[b[1]].from <= now
  BY Fields DEF Inv, MarkOK, CallOK
<1>6. ASSUME NEW b \in Attempt, b # a PROVE MarkOK(b)'
  <2>1. MarkOK(b) /\ mark'[b] = mark[b] /\ b[1] \in Logout
    BY <1>1, <1>5, <1>6 DEF Inv
  <2>2. mark[b].phase # "none" /\ Reached(b[1]) => Reached(b[1])'
    BY <1>1, <1>3, <1>5, ReachedKept
  <2>3. QED
    BY <1>1, <2>1, <2>2 DEF MarkOK, Followed, Abandoned
<1>7. MarkOK(a)'
  <2>1. MarkOK(a)
    BY DEF Inv
  <2>2. call[a[1]].from <= m.date /\ m.date <= now
    BY <1>1, <1>5, <2>1, Fields DEF Inv, Advance, MarkOK
  <2>3. ASSUME m.phase = "update", m.loaded = m.date PROVE Reached(a[1])'
    <3>1. lastLogoutAt = m.date /\ m.date \in Nat
      BY <2>3, Fields DEF Inv, Advance
    <3>2. QED
      BY <1>1, <2>2, <3>1, NULLAssumption DEF Reached
  <2>4. Followed(a)' /\ call[a[1]].phase # "idle" /\ a[2] <= call[a[1]].attempt
    BY <1>1, <2>1 DEF MarkOK, Followed, Abandoned
  <2>5. QED
    BY <1>1, <2>2, <2>3, <2>4 DEF MarkOK
<1>8. ASSUME NEW b \in Attempt, NEW d \in Attempt PROVE PairOK(b, d)'
  <2> SUFFICES ASSUME InFlight(b)', mark'[d].phase = "done", b[1] # d[1],
                      mark'[b].date < mark'[d].date
               PROVE  {b, d} \in raced
    BY <1>1 DEF PairOK
  <2>1. d # a /\ mark'[d] = mark[d]
    BY <1>1
  <2>2. CASE b = a /\ m.date = now
    <3>1. mark[d].date <= now /\ mark[d].date \in Nat /\ now \in Nat
      BY <2>1, Fields DEF Inv, MarkOK
    <3>2. QED
      BY <1>1, <2>1, <2>2, <3>1
  <2>3. CASE InFlight(b) /\ mark'[b].date = mark[b].date
    BY <2>1, <2>3 DEF Inv, PairOK
  <2>4. QED
    BY <1>1, <2>2, <2>3 DEF Advance, InFlight
<1>9. LastOK'
  <2>1. \A b \in Attempt : mark[b].phase = "done" => mark'[b] = mark[b]
    BY <1>1
  <2>2. QED
    BY <1>1, <2>1 DEF Inv, LastOK
<1>10. QED
  BY <1>2, <1>4, <1>6, <1>7, <1>8, <1>9 DEF Inv

LEMMA ReceiveStep == ASSUME Inv, NEW a \in Attempt, Receive(a) PROVE Inv'
<1> DEFINE m == [mark[a] EXCEPT !.phase = "select", !.date = now]
<1>1. mark[a] \in MarkType /\ now \in Nat
  BY DEF Inv, TypeOK
<1>2. m \in MarkType /\ m.phase = "select" /\ m.date = now
  BY <1>1 DEF MarkType
<1>3. mark' = [mark EXCEPT ![a] = m]
  BY DEF Inv, TypeOK, Receive
<1>4. Advance(a, m)
  BY <1>2, <1>3 DEF Advance, Receive
<1>5. QED
  BY <1>4, AdvanceStep

LEMMA SelectStep == ASSUME Inv, NEW a \in Attempt, SaveSelect(a) PROVE Inv'
<1> DEFINE m == [mark[a] EXCEPT !.phase = "update", !.loaded = lastLogoutAt]
<1>1. mark[a] \in MarkType /\ lastLogoutAt \in Nat \cup {NULL}
  BY DEF Inv, TypeOK
<1>2. m \in MarkType /\ m.phase = "update" /\ m.loaded = lastLogoutAt /\ m.date = mark[a].date
  BY <1>1 DEF MarkType
<1>3. mark' = [mark EXCEPT ![a] = m]
  BY DEF Inv, TypeOK, SaveSelect
<1>4. Advance(a, m)
  BY <1>2, <1>3 DEF Advance, SaveSelect
<1>5. QED
  BY <1>4, AdvanceStep

\* A mark's UPDATE.
LEMMA UpdateStep == ASSUME Inv, NEW a \in Attempt, SaveUpdate(a) PROVE Inv'
<1> DEFINE date == mark[a].date
           l == a[1]
<1>1. /\ mark[a].phase = "update" /\ UNCHANGED <<now, call>>
      /\ lastLogoutAt' = date \/ (mark[a].loaded = date /\ lastLogoutAt' = lastLogoutAt)
      /\ mark[a].loaded # date => lastLogoutAt' = date
  BY DEF SaveUpdate, SavedColumn
<1>2. /\ l \in Logout /\ date \in Nat /\ call[l].phase # "idle" /\ a[2] <= call[l].attempt
      /\ call[l].from \in Nat /\ call[l].from <= date /\ date <= now /\ now \in Nat
  BY <1>1, Fields DEF Inv, MarkOK
<1>3. /\ mark'[a].phase = "done" /\ mark'[a].date = date
      /\ \A b \in Attempt \ {a} : mark'[b] = mark[b]
      /\ mark' \in [Attempt -> MarkType]
  <2>1. mark[a] \in MarkType
    BY DEF Inv, TypeOK
  <2>2. [mark[a] EXCEPT !.phase = "done", !.loaded = NULL] \in MarkType
    BY <2>1 DEF MarkType
  <2>3. mark' = [mark EXCEPT ![a] = [mark[a] EXCEPT !.phase = "done", !.loaded = NULL]]
    BY DEF Inv, TypeOK, SaveUpdate
  <2>4. QED
    BY <2>1, <2>2, <2>3 DEF Inv, TypeOK, MarkType
<1>4. /\ raced \subseteq raced'
      /\ \A b \in Attempt : InFlight(b) /\ b[1] # l => {a, b} \in raced' /\ {b, a} \in raced'
  <2>1. \A b \in Attempt : InFlight(b) /\ b[1] # l => {a, b} \in raced'
    BY DEF SaveUpdate
  <2>2. \A b \in Attempt : {a, b} = {b, a}
    OBVIOUS
  <2>3. QED
    BY <2>1, <2>2 DEF SaveUpdate
<1>5. TypeOK'
  <2>1. raced' \subseteq SUBSET Attempt
    BY DEF Inv, TypeOK, SaveUpdate
  <2>2. QED
    BY <1>1, <1>2, <1>3, <2>1 DEF Inv, TypeOK
<1> HIDE DEF date, l
<1>6. lastLogoutAt' # NULL
  <2>1. CASE lastLogoutAt' = date
    BY <1>2, <2>1, NULLAssumption
  <2>2. CASE mark[a].loaded = date /\ lastLogoutAt' = lastLogoutAt
    <3>1. Reached(l)
      BY <1>1, <2>2 DEF Inv, MarkOK, date, l
    <3>2. QED
      BY <2>2, <3>1 DEF Reached, OlderMarkRaced, Inv, MarkOK
  <2>3. QED
    BY <1>1, <2>1, <2>2
<1>7. Kept
  BY <1>1, <1>2, <1>3, <1>4, <1>6, Fields DEF Inv, Kept
<1>8. \A m \in Logout : CallOK(m)'
  BY <1>1, <1>3, <1>7 DEF Inv, CallOK, Kept
<1>9. ASSUME NEW m \in Logout, call[m].phase # "idle", lastLogoutAt' = date, date < call[m].from,
             NEW b \in Attempt, b[1] = m, InFlight(b) \/ mark[b].phase = "done"
      PROVE  OlderMarkRaced(m, a)'
  <2>1. m # l
    BY <1>2, <1>9
  <2>2. CASE InFlight(b)
    <3>1. {a, b} \in raced'
      BY <1>4, <1>9, <2>1, <2>2
    <3>2. QED
      BY <1>1, <1>3, <1>9, <3>1 DEF OlderMarkRaced
  <2>3. CASE mark[b].phase = "done"
    <3>0. call[m].from <= mark[b].date /\ mark[b].date \in Nat /\ call[m].from \in Nat
      BY <1>9, <2>3, Fields DEF Inv, MarkOK
    <3>1. {a, b} \in raced
      BY <1>1, <1>2, <1>9, <2>1, <2>3, <3>0 DEF Inv, PairOK, InFlight, date, l
    <3>2. QED
      BY <1>1, <1>3, <1>4, <1>9, <3>1 DEF OlderMarkRaced
  <2>4. QED
    BY <1>9, <2>2, <2>3
<1>10. ASSUME NEW m \in Logout, call[m].phase # "idle", NEW b \in Attempt, b[1] = m,
              \/ b = a
              \/ Reached(m) /\ (InFlight(b) \/ mark[b].phase = "done")
       PROVE  Reached(m)'
  <2>1. CASE lastLogoutAt' = date
    <3>1. CASE date >= call[m].from
      BY <1>1, <1>6, <2>1, <3>1 DEF Reached
    <3>2. CASE date < call[m].from
      <4>1. InFlight(b) \/ mark[b].phase = "done"
        BY <1>1, <1>10 DEF InFlight
      <4>2. OlderMarkRaced(m, a)'
        BY <1>9, <1>10, <2>1, <3>2, <4>1
      <4>3. QED
        BY <4>2 DEF Reached
    <3>3. QED
      BY <1>2, <1>10, <3>1, <3>2, Fields DEF Inv
  <2>2. CASE mark[a].loaded = date /\ lastLogoutAt' = lastLogoutAt
    <3>1. Reached(m)
      BY <1>1, <1>10, <2>2 DEF Inv, MarkOK, date
    <3>2. QED
      BY <1>7, <1>10, <2>2, <3>1, ReachedKept
  <2>3. QED
    BY <1>1, <2>1, <2>2
<1>11. ASSUME NEW b \in Attempt PROVE MarkOK(b)'
  <2>1. MarkOK(b) /\ b[1] \in Logout /\ (mark[b].phase # "none" => call[b[1]].phase # "idle")
    BY Fields DEF Inv, MarkOK
  <2>2. CASE b = a
    <3>1. Reached(b[1])'
      BY <1>2, <1>10, <2>1, <2>2 DEF l
    <3>2. Followed(a)'
      BY <1>1, <2>1, <2>2 DEF MarkOK, Followed, Abandoned
    <3>3. QED
      BY <1>1, <1>2, <1>3, <1>6, <2>2, <3>1, <3>2 DEF MarkOK, l
  <2>3. CASE b # a
    <3>1. mark'[b] = mark[b]
      BY <1>3, <2>3
    <3>2. Reached(b[1]) /\ mark[b].phase \in {"select", "update", "done"} => Reached(b[1])'
      BY <1>10, <2>1 DEF InFlight
    <3>3. QED
      BY <1>1, <1>6, <2>1, <3>1, <3>2 DEF MarkOK, Followed, Abandoned
  <2>4. QED
    BY <2>2, <2>3
<1>12. ASSUME NEW b \in Attempt, NEW d \in Attempt PROVE PairOK(b, d)'
  <2> SUFFICES ASSUME InFlight(b)', mark'[d].phase = "done", b[1] # d[1],
                      mark'[b].date < mark'[d].date
               PROVE  {b, d} \in raced'
    BY DEF PairOK
  <2>1. b # a /\ mark'[b] = mark[b] /\ InFlight(b)
    BY <1>3 DEF InFlight
  <2>2. CASE d = a
    BY <1>4, <2>1, <2>2 DEF l
  <2>3. CASE d # a
    BY <1>3, <1>4, <2>1, <2>3 DEF Inv, PairOK
  <2>4. QED
    BY <2>2, <2>3
<1>13. LastOK'
  <2>1. CASE lastLogoutAt' = date
    BY <1>3, <2>1 DEF LastOK
  <2>2. CASE lastLogoutAt' = lastLogoutAt
    BY <1>6, <1>7, <2>2 DEF Inv, LastOK, Kept
  <2>3. QED
    BY <1>1, <2>1, <2>2
<1>14. QED
  BY <1>5, <1>8, <1>11, <1>12, <1>13 DEF Inv

LEMMA TickStep == ASSUME Inv, Tick PROVE Inv'
<1>1. now \in Nat /\ now' = now + 1 /\ UNCHANGED <<lastLogoutAt, call, mark, raced>>
  BY DEF Inv, TypeOK, Tick
<1>2. Kept
  BY <1>1, Fields DEF Inv, Kept
<1>3. TypeOK'
  BY <1>1 DEF Inv, TypeOK
<1>4. \A l \in Logout : CallOK(l)'
  BY <1>1, Fields DEF Inv, CallOK
<1>5. ASSUME NEW a \in Attempt PROVE MarkOK(a)'
  <2>1. MarkOK(a) /\ a[1] \in Logout /\ mark[a].date \in Nat
    BY Fields DEF Inv
  <2>2. mark[a].phase # "none" /\ Reached(a[1]) => Reached(a[1])'
    BY <1>1, <1>2, <2>1, ReachedKept DEF MarkOK
  <2>3. QED
    BY <1>1, <2>1, <2>2 DEF MarkOK, Followed, Abandoned
<1>6. \A a, b \in Attempt : PairOK(a, b)'
  BY <1>1 DEF Inv, PairOK, InFlight
<1>7. LastOK'
  BY <1>1 DEF Inv, LastOK
<1>8. QED
  BY <1>3, <1>4, <1>5, <1>6, <1>7 DEF Inv

LEMMA StutterStep == ASSUME Inv, UNCHANGED vars PROVE Inv'
<1>1. Kept
  BY Fields DEF Inv, Kept, vars
<1>2. ASSUME NEW a \in Attempt PROVE MarkOK(a)'
  <2>1. MarkOK(a) /\ a[1] \in Logout
    BY Fields DEF Inv
  <2>2. mark[a].phase # "none" /\ Reached(a[1]) => Reached(a[1])'
    BY <1>1, <2>1, ReachedKept DEF MarkOK, vars
  <2>3. QED
    BY <2>1, <2>2 DEF MarkOK, Followed, Abandoned, vars
<1>3. QED
  BY <1>2 DEF Inv, TypeOK, CallOK, PairOK, InFlight, LastOK, vars

LEMMA NextInv == Inv /\ [Next]_vars => Inv'
<1> SUFFICES ASSUME Inv, [Next]_vars PROVE Inv'
  OBVIOUS
<1>1. ASSUME NEW l \in Logout, Call(l) PROVE Inv'
  BY <1>1, CallProgress, ProgressStep
<1>2. ASSUME NEW l \in Logout, Respond(l) PROVE Inv'
  BY <1>2, RespondProgress, ProgressStep
<1>3. ASSUME NEW l \in Logout, Retry(l) PROVE Inv'
  BY <1>3, RetryProgress, ProgressStep
<1>4. ASSUME NEW a \in Attempt, Receive(a) PROVE Inv'
  BY <1>4, ReceiveStep
<1>5. ASSUME NEW a \in Attempt, SaveSelect(a) PROVE Inv'
  BY <1>5, SelectStep
<1>6. ASSUME NEW a \in Attempt, SaveUpdate(a) PROVE Inv'
  BY <1>6, UpdateStep
<1>7. QED
  BY <1>1, <1>2, <1>3, <1>4, <1>5, <1>6, TickStep, StutterStep DEF Next

----------------------------------------------------------------------------
(* Theorems *)

\* The calls, marks and the column are always related as the invariant says.
THEOREM RevocationInvariant == Spec => []Inv
BY InitInv, NextInv, PTL DEF Spec

\* The types of the clock, the column, the calls and the marks.
THEOREM RevocationTypeCorrect == Spec => []TypeOK
<1>1. Inv => TypeOK
  BY DEF Inv
<1>2. QED
  BY <1>1, RevocationInvariant, PTL

\* For any number of logouts and attempts: tokens issued before an acknowledged
\* logout are refused, unless an older logout's mark raced with its own
\* (auth.service.ts 140-142, users.service.ts 25-32, jwt.strategy.ts 50-55).
THEOREM AckedLogoutsRevoke == Spec => []AckedLogoutRevokes
<1>1. ASSUME Inv PROVE AckedLogoutRevokes
  <2> SUFFICES ASSUME NEW l \in Logout, NEW token \in 0..now, Outlives(token, l)
               PROVE  \E a \in Attempt : OlderMarkRaced(l, a)
    BY DEF AckedLogoutRevokes
  <2>1. PICK a \in Attempt : a[1] = l /\ mark[a].phase = "done"
    BY <1>1 DEF Inv, CallOK, Outlives
  <2>2. Reached(l)
    BY <1>1, <2>1 DEF Inv, MarkOK
  <2>3. ~ (lastLogoutAt # NULL /\ lastLogoutAt >= call[l].from)
    <3> SUFFICES ASSUME lastLogoutAt # NULL, lastLogoutAt >= call[l].from PROVE FALSE
      OBVIOUS
    <3>1. lastLogoutAt \in Nat /\ token \in Nat /\ call[l].from \in Nat /\ token <= call[l].from
      BY <1>1, Fields DEF Inv, TypeOK, Outlives
    <3>2. Iat(token) * Second <= token /\ Iat(token) \in Nat
      BY <3>1, IatBounds
    <3>3. Iat(token) * Second <= lastLogoutAt
      BY <3>1, <3>2, SecondAssumption
    <3>4. QED
      BY <3>3 DEF Outlives, Revoked
  <2>4. QED
    BY <2>2, <2>3 DEF Reached
<1>2. QED
  BY <1>1, RevocationInvariant, PTL

\* A refused token is no younger than the second of a mark that auth-service
\* waited for or had abandoned (users.controller.ts 111-117).
THEOREM RefusalsAreAwaited == Spec => []RefusedByAwaitedMark
<1>1. ASSUME Inv PROVE RefusedByAwaitedMark
  <2> SUFFICES ASSUME NEW token \in 0..now, Revoked(token)
               PROVE  \E a \in Attempt : /\ mark[a].phase = "done"
                                         /\ Iat(token) <= Iat(mark[a].date)
                                         /\ Awaited(a)
    BY DEF RefusedByAwaitedMark
  <2>1. PICK a \in Attempt : mark[a].phase = "done" /\ mark[a].date = lastLogoutAt
    BY <1>1 DEF Inv, LastOK, Revoked
  <2>2. Awaited(a)
    BY <1>1, <2>1 DEF Inv, MarkOK, Followed, Awaited
  <2>3. token \in Nat /\ mark[a].date \in Nat /\ Iat(token) * Second <= mark[a].date
    BY <1>1, <2>1, Fields DEF Inv, Revoked
  <2>4. Iat(token) <= Iat(mark[a].date)
    BY <2>3, IatOrder
  <2>5. QED
    BY <2>1, <2>2, <2>4
<1>2. QED
  BY <1>1, RevocationInvariant, PTL

\* Only a mark's UPDATE writes the column.
LEMMA ColumnWrites ==
    ASSUME [Next]_vars, lastLogoutAt' # lastLogoutAt
    PROVE  \E a \in Attempt : SaveUpdate(a)
BY DEF Next, vars, Call, Respond, Retry, End, Receive, SaveSelect, Tick

\* The column goes back in time only by a mark of the same logout, a retry that
\* came late, or by one that raced with the mark it replaces.
DateMovesBackInRace ==
    [][lastLogoutAt # NULL /\ lastLogoutAt' # NULL /\ lastLogoutAt' < lastLogoutAt =>
          \E a, b \in Attempt :
             /\ SaveUpdate(a) /\ mark[a].date = lastLogoutAt'
             /\ mark[b].phase = "done" /\ mark[b].date = lastLogoutAt
             /\ a[1] = b[1] \/ {a, b} \in raced]_vars

\* The date of the last logout goes back only by a late retry of the same logout
\* or by a mark that raced with the one it replaces: users.service.ts 25-32
\* writes whatever date its handler took, without a comparison.
THEOREM DatesMoveBackInRaces == Spec => DateMovesBackInRace
<1>1. ASSUME Inv, [Next]_vars, lastLogoutAt # NULL, lastLogoutAt' # NULL,
             lastLogoutAt' < lastLogoutAt
      PROVE  \E a, b \in Attempt :
                /\ SaveUpdate(a) /\ mark[a].date = lastLogoutAt'
                /\ mark[b].phase = "done" /\ mark[b].date = lastLogoutAt
                /\ a[1] = b[1] \/ {a, b} \in raced
  <2>1. lastLogoutAt \in Nat
    BY <1>1 DEF Inv, TypeOK
  <2>2. PICK a \in Attempt : SaveUpdate(a)
    BY <1>1, <2>1, ColumnWrites
  <2>3. mark[a].date = lastLogoutAt' /\ InFlight(a)
    BY <1>1, <2>1, <2>2 DEF SaveUpdate, SavedColumn, InFlight
  <2>4. PICK b \in Attempt : mark[b].phase = "done" /\ mark[b].date = lastLogoutAt
    BY <1>1 DEF Inv, LastOK
  <2>5. a[1] = b[1] \/ {a, b} \in raced
    BY <1>1, <2>3, <2>4 DEF Inv, PairOK
  <2>6. QED
    BY <2>2, <2>3, <2>4, <2>5
<1>2. Inv /\ [Next]_vars =>
         [lastLogoutAt # NULL /\ lastLogoutAt' # NULL /\ lastLogoutAt' < lastLogoutAt =>
             \E a, b \in Attempt :
                /\ SaveUpdate(a) /\ mark[a].date = lastLogoutAt'
                /\ mark[b].phase = "done" /\ mark[b].date = lastLogoutAt
                /\ a[1] = b[1] \/ {a, b} \in raced]_vars
  BY <1>1
<1>3. QED
  BY <1>2, RevocationInvariant, PTL DEF Spec, DateMovesBackInRace

\* No two logouts overlap in users-service: none writes while another's mark is
\* being handled there, from its receipt to its UPDATE.
NoRace == raced = {}

\* One at a time, logouts keep the promise of auth.service.ts:141 in full,
\* whatever their retries and timeouts do: the tokens issued before an
\* acknowledged logout are refused.
THEOREM SerialLogoutsRevoke == Spec => [](NoRace => LogoutRevokes)
<1>1. AckedLogoutRevokes /\ NoRace => LogoutRevokes
  BY DEF AckedLogoutRevokes, LogoutRevokes, NoRace, OlderMarkRaced
<1>2. QED
  BY <1>1, AckedLogoutsRevoke, PTL
=============================================================================
