---------------------------- MODULE TimersProofs ----------------------------
(***************************************************************************)
(* The invariants of Timers and its refinement of AbstractTimers, for any  *)
(* number of users, timers and cancels and any clock.                      *)
(***************************************************************************)
EXTENDS Timers, TLAPS

-----------------------------------------------------------------------------
(* The inductive invariant: the invariants that TLC checks and, between    *)
(* them, who has the lock, which ids are in use, and how far a timer got.  *)

LockHeld == \A u, v \in Users : user[u] # Idle /\ user[v] # Idle => u = v

IdsInUse ==
  /\ \A i \in Ids : payload[i].st = "none" <=> i >= nextId
  /\ \A i \in Ids : payload[i].st = "none" => runs[i] = 0
  /\ \A u \in Users : user[u].pc = "scheduled" =>
       payload[user[u].id].st = "live" /\ ~payload[user[u].id].known
  /\ \A i \in Ids : payload[i].st = "live" /\ ~payload[i].known =>
       \E u \in Users : user[u].pc = "scheduled" /\ user[u].id = i

RunsOnce ==
  /\ \A i \in Ids : runs[i] <= 1
  /\ \A i \in Alarmed \cup Held(worker) \cup Fired \cup Queued : runs[i] = 0
  /\ handler.pc \in {"check", "run"} => runs[handler.id] = 0

DueInFlight ==
  \A i \in Held(worker) \cup Fired \cup Queued \cup Held(handler) : at[i] <= now

EndOnce == live => NoTimer \notin In(expired)

IInv == /\ TypeOK /\ OnePlace /\ PayloadsLive /\ CancelledIsGone /\ PromptAlarms
        /\ LockHeld /\ IdsInUse /\ RunsOnce /\ DueInFlight /\ EndOnce

-----------------------------------------------------------------------------
(* Queues *)

\* Putting an element behind a queue adds it to the queue's elements.
LEMMA AppendIn ==
  ASSUME NEW S, NEW s \in Seq(S), NEW x \in S
  PROVE  /\ Append(s, x) \in Seq(S)
         /\ In(Append(s, x)) = In(s) \cup {x}
         /\ OneEach(s) /\ x \notin In(s) => OneEach(Append(s, x))
<1> DEFINE a == Append(s, x)
<1>1. a \in Seq(S) /\ DOMAIN a = 1 .. Len(s) + 1
  OBVIOUS
<1>2. \A k \in 1 .. Len(s) : k \in DOMAIN a /\ a[k] = s[k]
  OBVIOUS
<1>3. a[Len(s) + 1] = x /\ Len(s) + 1 \in DOMAIN a
  OBVIOUS
<1>4. \A k \in DOMAIN a : k \in 1 .. Len(s) \/ k = Len(s) + 1
  BY <1>1
<1>5. DOMAIN s = 1 .. Len(s) /\ Len(s) \in Nat
  OBVIOUS
<1> HIDE DEF a
<1>6. In(a) = In(s) \cup {x}
  BY <1>2, <1>3, <1>4, <1>5 DEF In
<1>7. OneEach(s) /\ x \notin In(s) => OneEach(a)
  BY <1>2, <1>3, <1>4, <1>5 DEF OneEach, In
<1> QED BY <1>1, <1>6, <1>7 DEF a

\* Taking the front of a queue without duplicates removes that element.
LEMMA TailIn ==
  ASSUME NEW S, NEW s \in Seq(S), s # <<>>, OneEach(s)
  PROVE  /\ Head(s) \in In(s) /\ Head(s) \in S
         /\ Tail(s) \in Seq(S) /\ OneEach(Tail(s))
         /\ In(Tail(s)) = In(s) \ {Head(s)}
<1> DEFINE r == Tail(s)
<1>1. r \in Seq(S) /\ DOMAIN r = 1 .. Len(s) - 1 /\ Len(s) \in Nat \ {0}
  OBVIOUS
<1>2. \A k \in DOMAIN r : r[k] = s[k + 1] /\ k + 1 \in DOMAIN s
  OBVIOUS
<1>3. Head(s) = s[1] /\ 1 \in DOMAIN s /\ DOMAIN s = 1 .. Len(s)
  OBVIOUS
<1> HIDE DEF r
<1>4. OneEach(r)
  BY <1>1, <1>2, <1>3 DEF OneEach
<1>5. In(r) = In(s) \ {Head(s)}
  <2>1. ASSUME NEW x \in In(r) PROVE x \in In(s) /\ x # Head(s)
    <3>1. PICK k \in DOMAIN r : x = r[k]
      BY DEF In
    <3>2. k + 1 # 1
      BY <1>1
    <3> QED BY <3>1, <3>2, <1>2, <1>3 DEF In, OneEach
  <2>2. ASSUME NEW x \in In(s), x # Head(s) PROVE x \in In(r)
    <3>1. PICK k \in DOMAIN s : x = s[k]
      BY DEF In
    <3>2. k # 1 /\ k - 1 \in DOMAIN r /\ (k - 1) + 1 = k
      BY <1>1, <1>3, <2>2, <3>1
    <3> QED BY <3>1, <3>2, <1>2 DEF In
  <2> QED BY <2>1, <2>2
<1>6. Head(s) \in In(s) /\ Head(s) \in S
  BY <1>3 DEF In
<1> QED BY <1>1, <1>4, <1>5, <1>6 DEF r

\* The insertion at the position of lower_bound keeps the order of the times.
LEMMA InsertAlarmIn ==
  ASSUME NEW T \in [Ids -> Nat], alarms \in Seq(Ids), OneEach(alarms),
         NEW i \in Ids, i \notin Alarmed, NEW p \in 1 .. Len(alarms) + 1
  PROVE  /\ InsertAlarm(i, p) \in Seq(Ids)
         /\ In(InsertAlarm(i, p)) = Alarmed \cup {i}
         /\ OneEach(InsertAlarm(i, p))
         /\ (/\ \A k, l \in DOMAIN alarms : k < l => T[alarms[k]] <= T[alarms[l]]
             /\ \A k \in 1 .. p - 1 : T[alarms[k]] <= T[i]
             /\ p <= Len(alarms) => T[i] <= T[alarms[p]])
            => \A k, l \in DOMAIN InsertAlarm(i, p) :
                 k < l => T[InsertAlarm(i, p)[k]] <= T[InsertAlarm(i, p)[l]]
<1> DEFINE a == InsertAlarm(i, p)
           o(n) == IF n < p THEN n ELSE n - 1
<1>1. Len(alarms) \in Nat /\ DOMAIN alarms = 1 .. Len(alarms)
      /\ \A k \in 1 .. Len(alarms) : alarms[k] \in Ids
  OBVIOUS
<1>2. DOMAIN a = 1 .. Len(alarms) + 1
      /\ \A k \in 1 .. Len(alarms) + 1 :
           a[k] = IF k < p THEN alarms[k] ELSE IF k = p THEN i ELSE alarms[k - 1]
  BY DEF InsertAlarm
<1>3. a \in Seq(Ids)
  BY <1>1 DEF InsertAlarm
<1>0. /\ \A n \in DOMAIN a : n # p => o(n) \in DOMAIN alarms /\ a[n] = alarms[o(n)]
      /\ \A k, l \in DOMAIN a : k # p /\ l # p /\ k < l => o(k) < o(l)
      /\ a[p] = i
  BY <1>1, <1>2
<1> HIDE DEF a
<1>4. OneEach(a)
  <2> SUFFICES ASSUME NEW k \in DOMAIN a, NEW l \in DOMAIN a, a[k] = a[l] PROVE k = l
    BY DEF OneEach
  <2>1. ASSUME NEW n \in DOMAIN a, n # p
        PROVE o(n) \in DOMAIN alarms /\ a[n] = alarms[o(n)] /\ a[n] \in Alarmed
    BY <1>0, <2>1 DEF In, Alarmed
  <2>2. a[p] = i /\ p \in DOMAIN a
    BY <1>1, <1>2
  <2>3. CASE k # p /\ l # p
    <3>1. o(k) = o(l)
      BY <2>1, <2>3 DEF OneEach
    <3> QED BY <3>1, <2>3, <1>1, <1>2
  <2> QED BY <2>1, <2>2, <2>3
<1>5. In(a) = Alarmed \cup {i}
  <2>1. \A x \in In(a) : x \in Alarmed \/ x = i
    <3> HIDE DEF o
    <3> QED BY <1>0 DEF In, Alarmed
  <2>2. ASSUME NEW x \in Alarmed PROVE x \in In(a)
    <3>1. PICK k \in DOMAIN alarms : x = alarms[k]
      BY DEF In, Alarmed
    <3>2. CASE k < p
      BY <1>1, <1>2, <3>1, <3>2, SMTT(30) DEF In
    <3>3. CASE k >= p
      <4>1. k + 1 \in DOMAIN a /\ a[k + 1] = alarms[k]
        BY <1>1, <1>2, <3>3
      <4> QED BY <3>1, <4>1 DEF In
    <3> QED BY <1>1, <3>2, <3>3
  <2>3. a[p] = i /\ p \in DOMAIN a
    BY <1>1, <1>2
  <2> QED BY <2>1, <2>2, <2>3 DEF In
<1>6. ASSUME \A k, l \in DOMAIN alarms : k < l => T[alarms[k]] <= T[alarms[l]],
             \A k \in 1 .. p - 1 : T[alarms[k]] <= T[i],
             p <= Len(alarms) => T[i] <= T[alarms[p]],
             NEW k \in DOMAIN a, NEW l \in DOMAIN a, k < l
      PROVE T[a[k]] <= T[a[l]]
  <2>4. \A m, n \in DOMAIN alarms : m < n => T[alarms[m]] <= T[alarms[n]]
    BY <1>6
  <2>5. \A n \in DOMAIN alarms : T[alarms[n]] \in Nat
    BY <1>1
  <2>6. T[i] \in Nat
    OBVIOUS
  <2>1. CASE k # p /\ l # p
    <3>1. o(k) \in DOMAIN alarms /\ o(l) \in DOMAIN alarms /\ o(k) < o(l)
          /\ a[k] = alarms[o(k)] /\ a[l] = alarms[o(l)]
      BY <1>0, <1>6, <2>1
    <3> HIDE DEF o
    <3> QED BY <3>1, <2>4
  <2>2. CASE k = p
    <3>1. l - 1 \in DOMAIN alarms /\ a[l] = alarms[l - 1] /\ p <= l - 1 /\ p \in DOMAIN alarms
      BY <1>1, <1>2, <1>6, <2>2
    <3>2. p < l - 1 \/ p = l - 1
      BY <1>1, <3>1
    <3> HIDE DEF o
    <3>3. T[alarms[p]] <= T[alarms[l - 1]]
      <4>1. CASE p < l - 1
        BY <2>4, <3>1, <4>1
      <4>2. CASE p = l - 1
        BY <2>5, <3>1, <4>2
      <4> QED BY <3>2, <4>1, <4>2
    <3>4. T[i] <= T[alarms[p]]
      BY <1>1, <1>6, <3>1
    <3>5. T[i] <= T[alarms[l - 1]]
      BY <2>5, <2>6, <3>1, <3>3, <3>4
    <3> QED BY <1>0, <2>2, <3>1, <3>5
  <2>3. CASE l = p
    <3>1. k \in 1 .. p - 1 /\ a[k] = alarms[k]
      BY <1>1, <1>2, <1>6, <2>3
    <3> HIDE DEF o
    <3> QED BY <1>0, <1>6, <2>3, <3>1
  <2> QED BY <2>1, <2>2, <2>3
<1> QED BY <1>3, <1>4, <1>5, <1>6 DEF a

\* The erasure of an alarm takes that alarm away and keeps the order.
LEMMA EraseAlarmIn ==
  ASSUME NEW T \in [Ids -> Nat], alarms \in Seq(Ids), OneEach(alarms),
         NEW p \in 1 .. Len(alarms)
  PROVE  /\ EraseAlarm(p) \in Seq(Ids)
         /\ In(EraseAlarm(p)) = Alarmed \ {alarms[p]}
         /\ OneEach(EraseAlarm(p))
         /\ (\A k, l \in DOMAIN alarms : k < l => T[alarms[k]] <= T[alarms[l]])
            => \A k, l \in DOMAIN EraseAlarm(p) :
                 k < l => T[EraseAlarm(p)[k]] <= T[EraseAlarm(p)[l]]
<1> DEFINE a == EraseAlarm(p)
           o(n) == IF n < p THEN n ELSE n + 1
<1>1. Len(alarms) \in Nat \ {0} /\ DOMAIN alarms = 1 .. Len(alarms)
      /\ \A k \in 1 .. Len(alarms) : alarms[k] \in Ids
  OBVIOUS
<1>2. DOMAIN a = 1 .. Len(alarms) - 1 /\ \A k \in DOMAIN a : a[k] = alarms[o(k)]
  BY <1>1 DEF EraseAlarm
<1>3. a \in Seq(Ids)
  BY <1>1 DEF EraseAlarm
<1>4. /\ \A k \in DOMAIN a : o(k) \in DOMAIN alarms /\ o(k) # p
      /\ \A k, l \in DOMAIN a : k < l => o(k) < o(l)
      /\ \A k, l \in DOMAIN a : o(k) = o(l) => k = l
  BY <1>1, <1>2, SMTT(30)
<1>5. \A k \in DOMAIN alarms : k # p => \E n \in DOMAIN a : o(n) = k
  <2> SUFFICES ASSUME NEW k \in DOMAIN alarms, k # p PROVE \E n \in DOMAIN a : o(n) = k
    OBVIOUS
  <2>1. CASE k < p
    BY <1>1, <1>2, <2>1
  <2>2. CASE k > p
    <3>1. k - 1 \in DOMAIN a /\ o(k - 1) = k
      BY <1>1, <1>2, <2>2
    <3> QED BY <3>1
  <2> QED BY <1>1, <2>1, <2>2
<1> HIDE DEF a, o
<1>6. OneEach(a)
  BY <1>2, <1>4 DEF OneEach
<1>7. In(a) = Alarmed \ {alarms[p]}
  <2>1. \A x \in In(a) : x \in Alarmed /\ x # alarms[p]
    BY <1>1, <1>2, <1>4 DEF In, Alarmed, OneEach
  <2>2. \A x \in Alarmed : x # alarms[p] => x \in In(a)
    BY <1>2, <1>5 DEF In, Alarmed
  <2> QED BY <2>1, <2>2
<1>8. (\A k, l \in DOMAIN alarms : k < l => T[alarms[k]] <= T[alarms[l]])
        => \A k, l \in DOMAIN a : k < l => T[a[k]] <= T[a[l]]
  BY <1>2, <1>4
<1> QED BY <1>3, <1>6, <1>7, <1>8 DEF a

\* A queue that loses its front keeps the order of the times.
LEMMA TailSorted ==
  ASSUME NEW T \in [Ids -> Nat], NEW s \in Seq(Ids), s # <<>>,
         \A k, l \in DOMAIN s : k < l => T[s[k]] <= T[s[l]]
  PROVE  \A k, l \in DOMAIN Tail(s) : k < l => T[Tail(s)[k]] <= T[Tail(s)[l]]
<1> DEFINE r == Tail(s)
<1>1. \A k \in DOMAIN r : k \in Int /\ k + 1 \in DOMAIN s /\ r[k] = s[k + 1]
  OBVIOUS
<1> HIDE DEF r
<1>2. \A k, l \in DOMAIN r : k < l => k + 1 < l + 1
  BY <1>1
<1>3. \A k, l \in DOMAIN r : k < l => T[r[k]] <= T[r[l]]
  BY <1>1, <1>2
<1> QED BY <1>3 DEF r

-----------------------------------------------------------------------------
(* What each step does to the five places *)

\* A new timer is on no part of the way, and is put among the alarms.
LEMMA ScheduleWay ==
  ASSUME IInv, NEW u \in Users, NEW delay \in Delays, Schedule(u, delay)
  PROVE  /\ nextId \in Ids /\ nextId \notin OnItsWay \cup confirmed
         /\ at' \in [Ids -> Nat] /\ \A i \in Ids : i # nextId => at'[i] = at[i]
         /\ alarms' \in Seq(Ids) /\ OneEach(alarms')
         /\ Alarmed' = Alarmed \cup {nextId}
         /\ Held(worker)' = Held(worker) /\ Fired' = Fired /\ Queued' = Queued
         /\ Held(handler)' = Held(handler)
         /\ \A k, l \in DOMAIN alarms' : k < l => at'[alarms'[k]] <= at'[alarms'[l]]
<1>1. nextId \in Ids /\ nextId \notin OnItsWay \cup confirmed
  BY DEF IInv, Schedule, IdsInUse, PayloadsLive, TypeOK, Payload, Ids
<1>2. at' \in [Ids -> Nat] /\ at'[nextId] = now + delay
      /\ \A i \in Ids : i # nextId => at'[i] = at[i]
  BY <1>1, TimersAssumption DEF IInv, Schedule, TypeOK
<1>3. PICK p \in 1 .. Len(alarms) + 1 :
        Position(p, now + delay) /\ alarms' = InsertAlarm(nextId, p)
  BY DEF Schedule
<1>4. alarms \in Seq(Ids) /\ OneEach(alarms) /\ nextId \notin Alarmed
  BY <1>1 DEF IInv, TypeOK, OnePlace, OnItsWay
<1>5. \A k \in DOMAIN alarms : alarms[k] \in Ids /\ alarms[k] \in Alarmed
  BY <1>4 DEF In, Alarmed
<1>6. \A k \in DOMAIN alarms : at'[alarms[k]] = at[alarms[k]] /\ at[alarms[k]] \in Nat
  BY <1>2, <1>4, <1>5 DEF IInv, TypeOK
<1>7. DOMAIN alarms = 1 .. Len(alarms) /\ Len(alarms) \in Nat
  BY <1>4
<1>8. /\ \A k, l \in DOMAIN alarms : k < l => at'[alarms[k]] <= at'[alarms[l]]
      /\ \A k \in 1 .. p - 1 : at'[alarms[k]] <= at'[nextId]
      /\ p <= Len(alarms) => at'[nextId] <= at'[alarms[p]]
  <2>1. now + delay \in Nat
    BY TimersAssumption DEF IInv, TypeOK
  <2>2. \A k, l \in DOMAIN alarms : k < l => at'[alarms[k]] <= at'[alarms[l]]
    BY <1>6 DEF IInv, PromptAlarms
  <2>3. ASSUME NEW k \in 1 .. p - 1 PROVE at'[alarms[k]] <= at'[nextId]
    <3>1. k \in DOMAIN alarms /\ at[alarms[k]] < now + delay
      BY <1>3, <1>7 DEF Position
    <3> QED BY <2>1, <3>1, <1>2, <1>6
  <2>4. ASSUME p <= Len(alarms) PROVE at'[nextId] <= at'[alarms[p]]
    <3>1. p \in DOMAIN alarms /\ at[alarms[p]] >= now + delay
      BY <1>3, <1>7, <2>4 DEF Position
    <3> QED BY <2>1, <3>1, <1>2, <1>6
  <2> QED BY <2>2, <2>3, <2>4
<1>9. /\ alarms' \in Seq(Ids) /\ OneEach(alarms') /\ Alarmed' = Alarmed \cup {nextId}
      /\ \A k, l \in DOMAIN alarms' : k < l => at'[alarms'[k]] <= at'[alarms'[l]]
  <2> DEFINE T == at'
  <2>1. T \in [Ids -> Nat]
    BY <1>2
  <2> HIDE DEF T
  <2>2. /\ InsertAlarm(nextId, p) \in Seq(Ids)
        /\ In(InsertAlarm(nextId, p)) = Alarmed \cup {nextId}
        /\ OneEach(InsertAlarm(nextId, p))
        /\ (/\ \A k, l \in DOMAIN alarms : k < l => T[alarms[k]] <= T[alarms[l]]
            /\ \A k \in 1 .. p - 1 : T[alarms[k]] <= T[nextId]
            /\ p <= Len(alarms) => T[nextId] <= T[alarms[p]])
           => \A k, l \in DOMAIN InsertAlarm(nextId, p) :
                k < l => T[InsertAlarm(nextId, p)[k]] <= T[InsertAlarm(nextId, p)[l]]
    BY <1>1, <1>4, <2>1, InsertAlarmIn
  <2> QED BY <1>3, <1>8, <2>2 DEF T, Alarmed, In, OneEach
<1>10. Held(worker)' = Held(worker) /\ Fired' = Fired /\ Queued' = Queued
       /\ Held(handler)' = Held(handler)
  BY DEF IInv, TypeOK, Schedule, Notified, Held, Fired, Queued, In
<1> QED BY <1>1, <1>2, <1>9, <1>10

\* The alarms that are left are in order: a cancelled one is taken out ...
LEMMA CancelWay ==
  ASSUME IInv, NEW u \in Users, CancelAlarm(u)
  PROVE  /\ user[u].id \in Ids /\ user[u].id \in registry
         /\ alarms' \in Seq(Ids) /\ OneEach(alarms')
         /\ \A k, l \in DOMAIN alarms' : k < l => at[alarms'[k]] <= at[alarms'[l]]
         /\ \/ /\ user[u].id \in Alarmed
               /\ Alarmed' = Alarmed \ {user[u].id}
               /\ confirmed' = confirmed \cup {user[u].id}
            \/ Alarmed' = Alarmed /\ confirmed' = confirmed
         /\ Held(worker)' = Held(worker) /\ Fired' = Fired /\ Queued' = Queued
         /\ Held(handler)' = Held(handler)
<1>1. user[u].id \in Ids /\ user[u].id \in registry
  BY DEF IInv, CancelAlarm, PayloadsLive, TypeOK
<1>2. at \in [Ids -> Nat] /\ alarms \in Seq(Ids) /\ OneEach(alarms)
      /\ \A k, l \in DOMAIN alarms : k < l => at[alarms[k]] <= at[alarms[l]]
  BY DEF IInv, TypeOK, OnePlace, PromptAlarms
<1>3. Held(worker)' = Held(worker) /\ Fired' = Fired /\ Queued' = Queued
      /\ Held(handler)' = Held(handler)
  BY DEF CancelAlarm, Held, Fired, Queued, In
<1>4. CASE \E p \in 1 .. Len(alarms) : /\ alarms[p] = user[u].id
                                       /\ alarms' = EraseAlarm(p)
                                       /\ confirmed' = confirmed \cup {user[u].id}
  <2>1. PICK p \in 1 .. Len(alarms) : /\ alarms[p] = user[u].id
                                      /\ alarms' = EraseAlarm(p)
                                      /\ confirmed' = confirmed \cup {user[u].id}
    BY <1>4
  <2>2. user[u].id \in Alarmed
    BY <1>2, <2>1 DEF In, Alarmed
  <2>3. /\ EraseAlarm(p) \in Seq(Ids)
        /\ In(EraseAlarm(p)) = Alarmed \ {alarms[p]}
        /\ OneEach(EraseAlarm(p))
        /\ \A k, l \in DOMAIN EraseAlarm(p) :
             k < l => at[EraseAlarm(p)[k]] <= at[EraseAlarm(p)[l]]
    BY <1>2, EraseAlarmIn
  <2> QED BY <1>1, <1>3, <2>1, <2>2, <2>3 DEF Alarmed, In, OneEach
<1>5. CASE UNCHANGED <<alarms, confirmed>>
  BY <1>1, <1>2, <1>3, <1>5 DEF Alarmed, In, OneEach
<1> QED BY <1>4, <1>5 DEF CancelAlarm

\* ... and the worker takes the first one, which is due.
LEMMA PopWay ==
  ASSUME IInv, Pop
  PROVE  /\ Head(alarms) \in Alarmed /\ Head(alarms) \in Ids
         /\ alarms' \in Seq(Ids) /\ OneEach(alarms')
         /\ \A k, l \in DOMAIN alarms' : k < l => at[alarms'[k]] <= at[alarms'[l]]
         /\ Alarmed' = Alarmed \ {Head(alarms)}
         /\ Held(worker) = {} /\ Held(worker)' = {Head(alarms)}
         /\ at[Head(alarms)] <= now
         /\ Fired' = Fired /\ Queued' = Queued /\ Held(handler)' = Held(handler)
<1>1. at \in [Ids -> Nat] /\ alarms \in Seq(Ids) /\ alarms # <<>> /\ OneEach(alarms)
      /\ (\A k, l \in DOMAIN alarms : k < l => at[alarms[k]] <= at[alarms[l]])
      /\ alarms' = Tail(alarms)
  BY DEF IInv, TypeOK, OnePlace, PromptAlarms, Pop
<1>2. /\ Head(alarms) \in In(alarms) /\ Head(alarms) \in Ids
      /\ Tail(alarms) \in Seq(Ids) /\ OneEach(Tail(alarms))
      /\ In(Tail(alarms)) = In(alarms) \ {Head(alarms)}
  BY <1>1, TailIn
<1>3. \A k, l \in DOMAIN Tail(alarms) : k < l => at[Tail(alarms)[k]] <= at[Tail(alarms)[l]]
  BY <1>1, TailSorted
<1>4. Head(alarms) # NoTimer
  BY <1>2 DEF Ids, NoTimer
<1>5. Held(worker) = {} /\ Held(worker)' = {Head(alarms)}
  BY <1>4 DEF IInv, TypeOK, Pop, Held
<1>6. Fired' = Fired /\ Queued' = Queued /\ Held(handler)' = Held(handler)
      /\ at[Head(alarms)] <= now
  BY DEF Pop, Fired, Queued, Held, In
<1> QED BY <1>1, <1>2, <1>3, <1>5, <1>6 DEF Alarmed, In, OneEach

\* The worker puts the alarm behind the external events.
LEMMA FireWay ==
  ASSUME IInv, Fire
  PROVE  /\ worker.id \in Ids /\ Held(worker) = {worker.id} /\ Held(worker)' = {}
         /\ external' \in Seq(Ids \cup {EndEvent}) /\ OneEach(external')
         /\ Fired' = Fired \cup {worker.id}
         /\ Alarmed' = Alarmed /\ Queued' = Queued /\ Held(handler)' = Held(handler)
<1>1. worker.id \in Ids /\ worker.id # EndEvent /\ worker.id # NoTimer
  BY DEF IInv, TypeOK, Fire, Ids, NoTimer, EndEvent
<1>2. Held(worker) = {worker.id} /\ Held(worker)' = {}
  BY <1>1 DEF IInv, TypeOK, Fire, Held
<1>3. worker.id \notin In(external)
  BY <1>1, <1>2 DEF IInv, OnePlace, Fired
<1>4. external \in Seq(Ids \cup {EndEvent}) /\ OneEach(external)
  BY DEF IInv, TypeOK, OnePlace
<1>5. /\ Append(external, worker.id) \in Seq(Ids \cup {EndEvent})
      /\ In(Append(external, worker.id)) = In(external) \cup {worker.id}
      /\ OneEach(Append(external, worker.id))
  BY <1>1, <1>3, <1>4, AppendIn
<1>6. Alarmed' = Alarmed /\ Queued' = Queued /\ Held(handler)' = Held(handler)
  BY DEF Fire, Alarmed, Queued, Held, In
<1> QED BY <1>1, <1>2, <1>5, <1>6 DEF Fire, Fired, In, OneEach

\* The end event is none of the timers.
LEMMA EndArrivesWay ==
  ASSUME IInv, EndArrives
  PROVE  /\ external' \in Seq(Ids \cup {EndEvent}) /\ OneEach(external')
         /\ Fired' = Fired
         /\ Alarmed' = Alarmed /\ Held(worker)' = Held(worker)
         /\ Queued' = Queued /\ Held(handler)' = Held(handler)
<1>1. external \in Seq(Ids \cup {EndEvent}) /\ OneEach(external)
  BY DEF IInv, TypeOK, OnePlace
<1>2. EndEvent \notin In(external)
  BY <1>1 DEF EndArrives, In
<1>3. /\ Append(external, EndEvent) \in Seq(Ids \cup {EndEvent})
      /\ In(Append(external, EndEvent)) = In(external) \cup {EndEvent}
      /\ OneEach(Append(external, EndEvent))
  BY <1>1, <1>2, AppendIn
<1>4. Alarmed' = Alarmed /\ Held(worker)' = Held(worker)
      /\ Queued' = Queued /\ Held(handler)' = Held(handler)
  BY DEF EndArrives, Alarmed, Queued, Held, In
<1> QED BY <1>3, <1>4 DEF EndArrives, Fired, In, OneEach

\* The external event thread passes the alarm on ...
LEMMA DispatchWay ==
  ASSUME IInv, Dispatch
  PROVE  /\ Head(external) \in Ids /\ Head(external) \in Fired
         /\ external' \in Seq(Ids \cup {EndEvent}) /\ OneEach(external')
         /\ expired' \in Seq(Ids \cup {NoTimer}) /\ OneEach(expired')
         /\ In(expired)' = In(expired) \cup {Head(external)}
         /\ Fired' = Fired \ {Head(external)}
         /\ Queued' = Queued \cup {Head(external)}
         /\ Alarmed' = Alarmed /\ Held(worker)' = Held(worker)
         /\ Held(handler)' = Held(handler)
<1>1. external \in Seq(Ids \cup {EndEvent}) /\ OneEach(external) /\ external # <<>>
      /\ Head(external) # EndEvent
      /\ expired \in Seq(Ids \cup {NoTimer}) /\ OneEach(expired)
  BY DEF IInv, TypeOK, OnePlace, Dispatch
<1>2. /\ Head(external) \in In(external) /\ Head(external) \in Ids \cup {EndEvent}
      /\ Tail(external) \in Seq(Ids \cup {EndEvent}) /\ OneEach(Tail(external))
      /\ In(Tail(external)) = In(external) \ {Head(external)}
  BY <1>1, TailIn
<1>3. Head(external) \in Ids /\ Head(external) # NoTimer /\ Head(external) \in Fired
  BY <1>1, <1>2 DEF Ids, NoTimer, Fired
<1>4. Head(external) \notin In(expired)
  BY <1>3 DEF IInv, OnePlace, Queued
<1>5. /\ Append(expired, Head(external)) \in Seq(Ids \cup {NoTimer})
      /\ In(Append(expired, Head(external))) = In(expired) \cup {Head(external)}
      /\ OneEach(Append(expired, Head(external)))
  BY <1>1, <1>3, <1>4, AppendIn
<1>6. Alarmed' = Alarmed /\ Held(worker)' = Held(worker) /\ Held(handler)' = Held(handler)
  BY DEF Dispatch, Alarmed, Held, In
<1>7. external' = Tail(external) /\ expired' = Append(expired, Head(external))
  BY DEF Dispatch
<1>8. In(external)' = In(external) \ {Head(external)} /\ OneEach(external')
  BY <1>2, <1>7 DEF In, OneEach
<1>9. In(expired)' = In(expired) \cup {Head(external)} /\ OneEach(expired')
  BY <1>5, <1>7 DEF In, OneEach
<1> QED BY <1>2, <1>3, <1>5, <1>6, <1>7, <1>8, <1>9 DEF Fired, Queued

\* ... and NULL when the end event comes.
LEMMA DispatchEndWay ==
  ASSUME IInv, DispatchEnd
  PROVE  /\ external' \in Seq(Ids \cup {EndEvent}) /\ OneEach(external')
         /\ expired' \in Seq(Ids \cup {NoTimer}) /\ OneEach(expired')
         /\ Fired' = Fired /\ Queued' = Queued
         /\ Alarmed' = Alarmed /\ Held(worker)' = Held(worker)
         /\ Held(handler)' = Held(handler)
<1>1. external \in Seq(Ids \cup {EndEvent}) /\ OneEach(external) /\ external # <<>>
      /\ Head(external) = EndEvent /\ NoTimer \notin In(expired)
      /\ expired \in Seq(Ids \cup {NoTimer}) /\ OneEach(expired)
  BY DEF IInv, TypeOK, OnePlace, DispatchEnd, EndOnce
<1>2. /\ Tail(external) \in Seq(Ids \cup {EndEvent}) /\ OneEach(Tail(external))
      /\ In(Tail(external)) = In(external) \ {Head(external)}
  BY <1>1, TailIn
<1>3. /\ Append(expired, NoTimer) \in Seq(Ids \cup {NoTimer})
      /\ In(Append(expired, NoTimer)) = In(expired) \cup {NoTimer}
      /\ OneEach(Append(expired, NoTimer))
  BY <1>1, AppendIn
<1>4. Alarmed' = Alarmed /\ Held(worker)' = Held(worker) /\ Held(handler)' = Held(handler)
  BY DEF DispatchEnd, Alarmed, Held, In
<1>5. external' = Tail(external) /\ expired' = Append(expired, NoTimer)
  BY DEF DispatchEnd
<1>6. In(external)' = In(external) \ {EndEvent} /\ OneEach(external')
  BY <1>1, <1>2, <1>5, ZenonT(60) DEF In, OneEach
<1>7. In(expired)' = In(expired) \cup {NoTimer} /\ OneEach(expired')
  BY <1>3, <1>5 DEF In, OneEach
<1> QED BY <1>2, <1>3, <1>4, <1>5, <1>6, <1>7 DEF Fired, Queued

\* The handler thread takes the next payload, or ends.
LEMMA TakeWay ==
  ASSUME IInv, Take
  PROVE  /\ expired' \in Seq(Ids \cup {NoTimer}) /\ OneEach(expired')
         /\ In(expired)' \subseteq In(expired)
         /\ Held(handler) = {} /\ Held(handler)' \subseteq Queued
         /\ Held(handler)' = {Head(expired)} \ {NoTimer}
         /\ Queued' = Queued \ Held(handler)'
         /\ Fired' = Fired /\ Alarmed' = Alarmed /\ Held(worker)' = Held(worker)
         /\ Head(expired) \in Ids \cup {NoTimer}
<1>1. expired \in Seq(Ids \cup {NoTimer}) /\ OneEach(expired) /\ expired # <<>>
  BY DEF IInv, TypeOK, OnePlace, Take
<1>2. /\ Head(expired) \in In(expired) /\ Head(expired) \in Ids \cup {NoTimer}
      /\ Tail(expired) \in Seq(Ids \cup {NoTimer}) /\ OneEach(Tail(expired))
      /\ In(Tail(expired)) = In(expired) \ {Head(expired)}
  BY <1>1, TailIn
<1>3. Held(handler) = {} /\ Held(handler)' = {Head(expired)} \ {NoTimer}
  BY DEF IInv, TypeOK, Take, Held
<1>4. Alarmed' = Alarmed /\ Held(worker)' = Held(worker) /\ Fired' = Fired
      /\ expired' = Tail(expired)
  BY DEF Take, Alarmed, Fired, Held, In
<1>5. In(expired)' = In(expired) \ {Head(expired)} /\ OneEach(expired')
  BY <1>2, <1>4 DEF In, OneEach
<1> QED BY <1>2, <1>3, <1>4, <1>5 DEF Queued

-----------------------------------------------------------------------------
(* Every step keeps the invariant *)

\* A step that moves an alarm on leaves the payloads and the users alone.
LEMMA MovesOn ==
  ASSUME IInv, OnItsWay' = OnItsWay,
         UNCHANGED <<nextId, payload, registry, user, runs, confirmed>>
  PROVE  PayloadsLive' /\ CancelledIsGone' /\ LockHeld' /\ IdsInUse'
<1>1. PayloadsLive'
  BY DEF IInv, PayloadsLive
<1>2. CancelledIsGone'
  BY DEF IInv, CancelledIsGone
<1>3. LockHeld' /\ IdsInUse'
  BY DEF IInv, LockHeld, IdsInUse
<1> QED BY <1>1, <1>2, <1>3

\* The worker's next alarm is due; no later alarm is before it.
LEMMA PopKeeps ==
  ASSUME IInv, Pop
  PROVE  IInv'
<1>1. /\ Head(alarms) \in Alarmed /\ Head(alarms) \in Ids
      /\ alarms' \in Seq(Ids) /\ OneEach(alarms')
      /\ \A k, l \in DOMAIN alarms' : k < l => at[alarms'[k]] <= at[alarms'[l]]
      /\ Alarmed' = Alarmed \ {Head(alarms)}
      /\ Held(worker) = {} /\ Held(worker)' = {Head(alarms)}
      /\ at[Head(alarms)] <= now
      /\ Fired' = Fired /\ Queued' = Queued /\ Held(handler)' = Held(handler)
  BY PopWay
<1>2. UNCHANGED <<now, nextId, at, external, live, expired, handler, payload,
                  registry, user, runs, confirmed, cancels>>
  BY DEF Pop
<1>3. TypeOK'
  <2>1. worker' \in [pc : {"loop", "asleep", "fire"}, until : Nat \cup {NoAlarm},
                     id : Ids \cup {NoTimer}]
        /\ worker'.pc = "fire" /\ worker'.id = Head(alarms)
    BY <1>1 DEF IInv, TypeOK, Pop
  <2>2. Head(alarms) # NoTimer
    BY <1>1 DEF Ids, NoTimer
  <2> QED BY <1>1, <1>2, <2>1, <2>2 DEF IInv, TypeOK
<1>4. OnePlace'
  BY <1>1, <1>2 DEF IInv, OnePlace, OneEach
<1>5. OnItsWay' = OnItsWay
  BY <1>1 DEF OnItsWay
<1>6. PayloadsLive' /\ CancelledIsGone' /\ LockHeld' /\ IdsInUse'
  BY <1>2, <1>5, MovesOn
<1>7. PromptAlarms'
  <2>1. worker'.pc # "asleep"
    BY DEF IInv, TypeOK, Pop
  <2> QED BY <1>1, <1>2, <2>1 DEF PromptAlarms
<1>8. RunsOnce'
  BY <1>1, <1>2 DEF IInv, RunsOnce
<1>9. DueInFlight' /\ EndOnce'
  BY <1>1, <1>2 DEF IInv, DueInFlight, EndOnce, In
<1> QED BY <1>3, <1>4, <1>6, <1>7, <1>8, <1>9 DEF IInv

\* The alarm in the worker's hand becomes an external event.
LEMMA FireKeeps ==
  ASSUME IInv, Fire
  PROVE  IInv'
<1>1. /\ worker.id \in Ids /\ Held(worker) = {worker.id} /\ Held(worker)' = {}
      /\ external' \in Seq(Ids \cup {EndEvent}) /\ OneEach(external')
      /\ Fired' = Fired \cup {worker.id}
      /\ Alarmed' = Alarmed /\ Queued' = Queued /\ Held(handler)' = Held(handler)
  BY FireWay
<1>2. UNCHANGED <<now, nextId, at, alarms, live, expired, handler, payload,
                  registry, user, runs, confirmed, cancels>>
  BY DEF Fire
<1>3. TypeOK'
  BY <1>1, <1>2 DEF IInv, TypeOK, Fire
<1>4. OnePlace'
  BY <1>1, <1>2 DEF IInv, OnePlace, OneEach
<1>5. OnItsWay' = OnItsWay
  BY <1>1 DEF OnItsWay
<1>6. PayloadsLive' /\ CancelledIsGone' /\ LockHeld' /\ IdsInUse'
  BY <1>2, <1>5, MovesOn
<1>7. PromptAlarms'
  <2>1. worker'.pc # "asleep"
    BY DEF IInv, TypeOK, Fire
  <2> QED BY <1>2, <2>1 DEF IInv, PromptAlarms
<1>8. RunsOnce'
  BY <1>1, <1>2 DEF IInv, RunsOnce
<1>9. DueInFlight' /\ EndOnce'
  BY <1>1, <1>2 DEF IInv, DueInFlight, EndOnce, In
<1> QED BY <1>3, <1>4, <1>6, <1>7, <1>8, <1>9 DEF IInv

\* The end event, its dispatch and that of an alarm move no alarm off the way.
LEMMA ExternalKeeps ==
  ASSUME IInv, EndArrives \/ Dispatch \/ DispatchEnd
  PROVE  IInv'
<1>1. UNCHANGED <<now, nextId, at, alarms, worker, handler, payload,
                  registry, user, runs, confirmed, cancels>>
  BY DEF EndArrives, Dispatch, DispatchEnd
<1>2. /\ Alarmed' = Alarmed /\ Held(worker)' = Held(worker)
      /\ Held(handler)' = Held(handler)
      /\ external' \in Seq(Ids \cup {EndEvent}) /\ OneEach(external')
      /\ expired' \in Seq(Ids \cup {NoTimer}) /\ OneEach(expired')
      /\ live' \in BOOLEAN
      /\ \/ Fired' = Fired /\ Queued' = Queued
         \/ \E i \in Fired : Fired' = Fired \ {i} /\ Queued' = Queued \cup {i}
      /\ EndOnce'
  <2>1. CASE EndArrives
    BY <2>1, EndArrivesWay DEF IInv, TypeOK, EndArrives, OnePlace, OneEach, EndOnce, In
  <2>2. CASE Dispatch
    <3>1. Head(external) # NoTimer
      BY <2>2, DispatchWay DEF Ids, NoTimer
    <3> QED BY <2>2, <3>1, DispatchWay DEF IInv, TypeOK, Dispatch, EndOnce
  <2>3. CASE DispatchEnd
    BY <2>3, DispatchEndWay DEF DispatchEnd, EndOnce
  <2> QED BY <2>1, <2>2, <2>3
<1>3. TypeOK'
  BY <1>1, <1>2 DEF IInv, TypeOK
<1>4. OnePlace'
  BY <1>1, <1>2 DEF IInv, OnePlace, OneEach
<1>5. OnItsWay' = OnItsWay
  BY <1>2 DEF OnItsWay
<1>6. PayloadsLive' /\ CancelledIsGone' /\ LockHeld' /\ IdsInUse'
  BY <1>1, <1>5, MovesOn
<1>7. PromptAlarms'
  BY <1>1 DEF IInv, PromptAlarms, Alarmed, In
<1>8. RunsOnce'
  BY <1>1, <1>2 DEF IInv, RunsOnce
<1>9. DueInFlight'
  BY <1>1, <1>2 DEF IInv, DueInFlight
<1> QED BY <1>2, <1>3, <1>4, <1>6, <1>7, <1>8, <1>9 DEF IInv

\* The handler thread gets the payload that was first in its queue.
LEMMA TakeKeeps ==
  ASSUME IInv, Take
  PROVE  IInv'
<1>1. /\ expired' \in Seq(Ids \cup {NoTimer}) /\ OneEach(expired')
      /\ In(expired)' \subseteq In(expired)
      /\ Held(handler) = {} /\ Held(handler)' \subseteq Queued
      /\ Held(handler)' = {Head(expired)} \ {NoTimer}
      /\ Queued' = Queued \ Held(handler)'
      /\ Fired' = Fired /\ Alarmed' = Alarmed /\ Held(worker)' = Held(worker)
      /\ Head(expired) \in Ids \cup {NoTimer}
  BY TakeWay
<1>2. UNCHANGED <<now, nextId, at, alarms, worker, external, live, payload,
                  registry, user, runs, confirmed, cancels>>
  BY DEF Take
<1>3. TypeOK'
  BY <1>1, <1>2 DEF IInv, TypeOK, Take
<1>4. OnePlace'
  BY <1>1, <1>2 DEF IInv, OnePlace, OneEach
<1>5. OnItsWay' = OnItsWay
  BY <1>1 DEF OnItsWay
<1>6. PayloadsLive' /\ CancelledIsGone' /\ LockHeld' /\ IdsInUse'
  BY <1>2, <1>5, MovesOn
<1>7. PromptAlarms'
  BY <1>2 DEF IInv, PromptAlarms, Alarmed, In
<1>8. RunsOnce'
  <2>1. handler'.pc \in {"check", "run"} =>
          Head(expired) # NoTimer /\ handler'.id = Head(expired)
    BY DEF Take
  <2> QED BY <1>1, <1>2, <2>1 DEF IInv, RunsOnce
<1>9. DueInFlight' /\ EndOnce'
  BY <1>1, <1>2 DEF IInv, DueInFlight, EndOnce
<1> QED BY <1>3, <1>4, <1>6, <1>7, <1>8, <1>9 DEF IInv

\* The rounds of the worker and the clock touch no timer.
LEMMA WaitKeeps ==
  ASSUME IInv, Tick \/ Sleep \/ Wake
  PROVE  IInv'
<1>1. UNCHANGED <<nextId, at, alarms, external, live, expired, handler, payload,
                  registry, user, runs, confirmed, cancels>>
  BY DEF Tick, Sleep, Wake
<1>2. worker' \in [pc : {"loop", "asleep", "fire"}, until : Nat \cup {NoAlarm},
                   id : Ids \cup {NoTimer}]
      /\ worker'.id = worker.id /\ (worker'.pc = "fire" <=> worker.pc = "fire")
      /\ now' \in Nat /\ now <= now'
  <2>1. CASE Tick
    BY <2>1 DEF IInv, TypeOK, Tick
  <2>2. CASE Sleep
    <3>1. alarms # <<>> => at[Head(alarms)] \in Nat
      BY DEF IInv, TypeOK
    <3>2. PICK t \in Nat \cup {NoAlarm} : worker' = [worker EXCEPT !.pc = "asleep", !.until = t]
      BY <2>2, <3>1 DEF Sleep
    <3>3. now' = now /\ worker.pc = "loop"
      BY <2>2 DEF Sleep
    <3>4. worker \in [pc : {"loop", "asleep", "fire"}, until : Nat \cup {NoAlarm},
                     id : Ids \cup {NoTimer}] /\ now \in Nat
      BY DEF IInv, TypeOK
    <3>5. worker' \in [pc : {"loop", "asleep", "fire"}, until : Nat \cup {NoAlarm},
                      id : Ids \cup {NoTimer}]
      BY <3>2, <3>4
    <3>6. worker'.id = worker.id /\ worker'.pc = "asleep"
      BY <3>2, <3>4
    <3> QED BY <3>3, <3>4, <3>5, <3>6
  <2>3. CASE Wake
    BY <2>3, SMTT(30) DEF IInv, TypeOK, Wake
  <2> QED BY <2>1, <2>2, <2>3
<1>3. TypeOK'
  BY <1>1, <1>2 DEF IInv, TypeOK
<1>4. /\ Alarmed' = Alarmed /\ Held(worker)' = Held(worker) /\ Fired' = Fired
      /\ Queued' = Queued /\ Held(handler)' = Held(handler)
  BY <1>1, <1>2 DEF Alarmed, Held, Fired, Queued, In
<1>5. OnePlace' /\ OnItsWay' = OnItsWay
  BY <1>1, <1>4 DEF IInv, OnePlace, OneEach, OnItsWay
<1>6. PayloadsLive' /\ CancelledIsGone' /\ LockHeld' /\ IdsInUse'
  BY <1>1, <1>5, MovesOn
<1>7. PromptAlarms'
  <2>1. CASE Sleep
    <3>1. CASE alarms = <<>>
      BY <1>1, <2>1, <3>1 DEF Sleep, PromptAlarms, NoAlarm, IInv, TypeOK
    <3>2. CASE alarms # <<>>
      <4>1. alarms \in Seq(Ids) /\ Head(alarms) = alarms[1] /\ 1 \in DOMAIN alarms
            /\ DOMAIN alarms = 1 .. Len(alarms) /\ at[Head(alarms)] \in Nat
        BY <3>2 DEF IInv, TypeOK
      <4>2. ASSUME NEW i \in Alarmed PROVE at[Head(alarms)] <= at[i]
        <5>1. PICK k \in DOMAIN alarms : i = alarms[k]
          BY DEF Alarmed, In
        <5>2. CASE k = 1
          BY <4>1, <5>1, <5>2
        <5>3. CASE k > 1
          BY <4>1, <5>1, <5>3 DEF IInv, PromptAlarms
        <5> QED BY <4>1, <5>2, <5>3
      <4>3. worker'.until = at[Head(alarms)]
        BY <2>1, <3>2 DEF Sleep, IInv, TypeOK
      <4>4. worker'.until # NoAlarm
        BY <4>1, <4>3 DEF NoAlarm
      <4> QED BY <1>1, <1>4, <4>2, <4>3, <4>4 DEF IInv, PromptAlarms
    <3> QED BY <3>1, <3>2
  <2>2. CASE Tick
    BY <1>1, <1>4, <2>2 DEF Tick, IInv, PromptAlarms
  <2>3. CASE Wake
    <3>1. worker'.pc # "asleep"
      BY <2>3 DEF Wake, IInv, TypeOK
    <3> QED BY <1>1, <3>1 DEF IInv, PromptAlarms
  <2> QED BY <2>1, <2>2, <2>3
<1>8. RunsOnce'
  BY <1>1, <1>4 DEF IInv, RunsOnce
<1>9. DueInFlight'
  <2>1. at \in [Ids -> Nat] /\ now \in Nat
    BY DEF IInv, TypeOK
  <2>2. \A i \in Held(worker) \cup Fired \cup Queued \cup Held(handler) : i \in Ids
    BY DEF IInv, TypeOK, Held, Fired, Queued, In
  <2> QED BY <1>1, <1>2, <1>4, <2>1, <2>2 DEF IInv, DueInFlight
<1>10. EndOnce'
  BY <1>1 DEF IInv, EndOnce, In
<1> QED BY <1>3, <1>5, <1>6, <1>7, <1>8, <1>9, <1>10 DEF IInv


\* Between two calls every payload knows its id.
LEMMA AllKnown ==
  ASSUME IInv, \A u \in Users : user[u] = Idle, NEW i \in Ids, payload[i].st = "live"
  PROVE  payload[i].known
<1>1. \A u \in Users : user[u].pc # "scheduled"
  BY DEF Idle
<1> QED BY <1>1 DEF IInv, IdsInUse

\* A timer that is registered is a new id.
LEMMA ScheduleKeeps ==
  ASSUME IInv, NEW u \in Users, NEW delay \in Delays, Schedule(u, delay)
  PROVE  IInv'
<1>1. /\ nextId \in Ids /\ nextId \notin OnItsWay \cup confirmed
      /\ at' \in [Ids -> Nat] /\ \A i \in Ids : i # nextId => at'[i] = at[i]
      /\ alarms' \in Seq(Ids) /\ OneEach(alarms')
      /\ Alarmed' = Alarmed \cup {nextId}
      /\ Held(worker)' = Held(worker) /\ Fired' = Fired /\ Queued' = Queued
      /\ Held(handler)' = Held(handler)
      /\ \A k, l \in DOMAIN alarms' : k < l => at'[alarms'[k]] <= at'[alarms'[l]]
  BY ScheduleWay
<1>2. UNCHANGED <<now, external, live, expired, handler, registry, runs, confirmed, cancels>>
  BY DEF Schedule
<1>3. nextId' = nextId + 1 /\ nextId \in Nat /\ nextId < MaxTimers
      /\ payload[nextId].st = "none" /\ runs[nextId] = 0
  BY <1>1, TimersAssumption DEF Schedule, Ids, IInv, TypeOK, IdsInUse
<1>4. /\ payload' \in [Ids -> Payload]
      /\ payload'[nextId] = [st |-> "live", known |-> FALSE, cancelled |-> FALSE]
      /\ \A i \in Ids : i # nextId => payload'[i] = payload[i]
  BY <1>1 DEF Schedule, IInv, TypeOK, Payload
<1>5. /\ user' \in [Users -> [pc : {"idle", "scheduled", "marked"}, id : Ids \cup {NoTimer}]]
      /\ user'[u] = [pc |-> "scheduled", id |-> nextId]
      /\ \A v \in Users : user[v] = Idle /\ (v # u => user'[v] = Idle)
  BY <1>1 DEF Schedule, TimersLockFree, IInv, TypeOK
<1>6. nextId # NoTimer
  BY <1>1 DEF Ids, NoTimer
<1>7. worker' \in [pc : {"loop", "asleep", "fire"}, until : Nat \cup {NoAlarm},
                   id : Ids \cup {NoTimer}]
      /\ worker'.id = worker.id /\ (worker'.pc = "fire" <=> worker.pc = "fire")
      /\ worker'.pc # "asleep"
  <2>1. worker \in [pc : {"loop", "asleep", "fire"}, until : Nat \cup {NoAlarm},
                    id : Ids \cup {NoTimer}]
    BY DEF IInv, TypeOK
  <2> QED BY <2>1 DEF Schedule, Notified
<1>8. TypeOK'
  <2>1. nextId' \in 0 .. MaxTimers
    BY <1>3, TimersAssumption
  <2>2. \A v \in Users : user'[v].pc = "idle" <=> user'[v].id = NoTimer
    BY <1>5, <1>6 DEF Idle
  <2> QED BY <1>1, <1>2, <1>4, <1>5, <1>7, <2>1, <2>2 DEF IInv, TypeOK
<1>9. OnePlace'
  BY <1>1, <1>2 DEF IInv, OnePlace, OneEach, OnItsWay
<1>10. OnItsWay' = OnItsWay \cup {nextId}
  BY <1>1 DEF OnItsWay
<1>11. PayloadsLive'
  <2>1. registry = {i \in Ids : payload'[i].st = "live" /\ payload'[i].known}
    <3>1. registry = {i \in Ids : payload[i].st = "live" /\ payload[i].known}
      BY DEF IInv, PayloadsLive
    <3>2. \A i \in Ids : i # nextId => payload'[i] = payload[i]
      BY <1>4
    <3>3. ~payload'[nextId].known /\ payload[nextId].st # "live"
      BY <1>3, <1>4
    <3> QED BY <3>1, <3>2, <3>3
  <2>2. \A v \in Users : user'[v].pc # "marked"
    BY <1>5 DEF Idle
  <2>3. {i \in Ids : payload'[i].st = "live"} = OnItsWay \cup {nextId} \cup confirmed
    BY <1>1, <1>4 DEF IInv, PayloadsLive
  <2> QED BY <1>2, <1>10, <2>1, <2>2, <2>3 DEF PayloadsLive
<1>12. CancelledIsGone'
  BY <1>1, <1>2, <1>10 DEF IInv, CancelledIsGone
<1>13. PromptAlarms'
  BY <1>1, <1>7 DEF PromptAlarms
<1>14. LockHeld'
  BY <1>5 DEF LockHeld
<1>15. IdsInUse'
  <2>1. \A i \in Ids : payload'[i].st = "none" <=> i >= nextId'
    BY <1>3, <1>4 DEF IInv, IdsInUse, Ids
  <2>2. \A i \in Ids : payload'[i].st = "none" => runs[i] = 0
    BY <1>4 DEF IInv, IdsInUse
  <2>3. \A v \in Users : user'[v].pc = "scheduled" => v = u
    BY <1>5 DEF Idle
  <2>4. \A i \in Ids : payload[i].st = "live" => payload[i].known
    BY <1>5, AllKnown
  <2> QED BY <1>2, <1>4, <1>5, <2>1, <2>2, <2>3, <2>4 DEF IdsInUse
<1>16. RunsOnce'
  BY <1>1, <1>2, <1>3 DEF IInv, RunsOnce
<1>17. DueInFlight'
  <2>1. \A i \in Held(worker) \cup Fired \cup Queued \cup Held(handler) :
          i \in Ids /\ i # nextId
    BY <1>1 DEF IInv, PayloadsLive, OnItsWay
  <2> QED BY <1>1, <1>2, <2>1 DEF IInv, DueInFlight
<1>18. EndOnce'
  BY <1>2 DEF IInv, EndOnce, In
<1> QED BY <1>8, <1>9, <1>11, <1>12, <1>13, <1>14, <1>15, <1>16, <1>17, <1>18 DEF IInv

\* Where every timer is does not change when only the users and the payloads do.
LEMMA StaysPut ==
  ASSUME IInv, UNCHANGED <<now, at, alarms, worker, external, live, expired, handler, runs>>
  PROVE  /\ OnePlace' /\ PromptAlarms' /\ RunsOnce' /\ DueInFlight' /\ EndOnce'
         /\ OnItsWay' = OnItsWay
<1>1. /\ Alarmed' = Alarmed /\ Held(worker)' = Held(worker) /\ Fired' = Fired
      /\ Queued' = Queued /\ Held(handler)' = Held(handler)
  BY DEF Alarmed, Held, Fired, Queued, In
<1>2. OnePlace' /\ OnItsWay' = OnItsWay
  BY <1>1 DEF IInv, OnePlace, OneEach, OnItsWay
<1>3. PromptAlarms' /\ RunsOnce'
  BY <1>1 DEF IInv, PromptAlarms, RunsOnce
<1>4. DueInFlight' /\ EndOnce'
  BY <1>1 DEF IInv, DueInFlight, EndOnce, In
<1> QED BY <1>2, <1>3, <1>4

\* The registered timer's payload gets its id under the lock.
LEMMA RegisterKeeps ==
  ASSUME IInv, NEW u \in Users, Register(u)
  PROVE  IInv'
<1> DEFINE i == user[u].id
<1>1. UNCHANGED <<now, nextId, at, alarms, worker, external, live, expired, handler,
                  runs, confirmed, cancels>>
  BY DEF Register
<1>2. i \in Ids /\ payload[i].st = "live" /\ ~payload[i].known
  BY DEF Register, IInv, TypeOK, IdsInUse
<1>3. /\ payload' \in [Ids -> Payload] /\ payload'[i].st = "live" /\ payload'[i].known
      /\ \A j \in Ids : payload'[j].st = payload[j].st /\ (j # i => payload'[j] = payload[j])
  BY <1>2, ZenonT(60) DEF Register, IInv, TypeOK, Payload
<1>4. user' \in [Users -> [pc : {"idle", "scheduled", "marked"}, id : Ids \cup {NoTimer}]]
      /\ \A v \in Users : user'[v] = Idle
  BY DEF Register, IInv, TypeOK, LockHeld, Idle
<1>5. registry' = registry \cup {i}
  BY DEF Register
<1> HIDE DEF i
<1>6. TypeOK'
  BY <1>1, <1>2, <1>3, <1>4, <1>5 DEF IInv, TypeOK, Idle
<1>7. /\ OnePlace' /\ PromptAlarms' /\ RunsOnce' /\ DueInFlight' /\ EndOnce'
      /\ OnItsWay' = OnItsWay
  BY <1>1, StaysPut
<1>8. PayloadsLive'
  BY <1>1, <1>2, <1>3, <1>4, <1>5, <1>7 DEF IInv, PayloadsLive, Idle
<1>9. CancelledIsGone' /\ LockHeld'
  BY <1>1, <1>4, <1>7 DEF IInv, CancelledIsGone, LockHeld
<1>10. IdsInUse'
  <2>1. \A j \in Ids : payload[j].st = "live" /\ ~payload[j].known => j = i
    <3> SUFFICES ASSUME NEW j \in Ids, payload[j].st = "live", ~payload[j].known PROVE j = i
      OBVIOUS
    <3>1. PICK v \in Users : user[v].pc = "scheduled" /\ user[v].id = j
      BY DEF IInv, IdsInUse
    <3>2. v = u
      BY <3>1 DEF Register, IInv, LockHeld, Idle
    <3> QED BY <3>1, <3>2 DEF i
  <2> QED BY <1>1, <1>2, <1>3, <1>4, <2>1 DEF IInv, IdsInUse, Idle
<1> QED BY <1>6, <1>7, <1>8, <1>9, <1>10 DEF IInv

\* A cancel marks a payload that the registry knows, so one that is still there.
LEMMA MarkKeeps ==
  ASSUME IInv, NEW u \in Users, NEW i \in 0 .. nextId - 1, Mark(u, i)
  PROVE  IInv'
<1>1. UNCHANGED <<now, nextId, at, alarms, worker, external, live, expired, handler,
                  registry, runs, confirmed>> /\ cancels' \in Nat
  BY DEF Mark, IInv, TypeOK
<1>2. \A v \in Users : user[v] = Idle
  BY DEF Mark, TimersLockFree
<1>3. i \in Ids /\ i # NoTimer
  BY TimersAssumption DEF IInv, TypeOK, Ids, NoTimer
<1>4. /\ payload' \in [Ids -> Payload]
      /\ \A j \in Ids : payload'[j].st = payload[j].st /\ payload'[j].known = payload[j].known
  <2>1. payload \in [Ids -> Payload]
    BY DEF IInv, TypeOK
  <2>2. payload' = payload \/ payload' = [payload EXCEPT ![i].cancelled = TRUE]
    BY DEF Mark
  <2>3. CASE payload' = payload
    BY <2>1, <2>3
  <2>4. CASE payload' = [payload EXCEPT ![i].cancelled = TRUE]
    <3>1. payload' \in [Ids -> Payload]
      BY <1>3, <2>1, <2>4 DEF Payload
    <3>2. ASSUME NEW j \in Ids
          PROVE payload'[j].st = payload[j].st /\ payload'[j].known = payload[j].known
      <4>1. payload'[j] = IF j = i THEN [payload[j] EXCEPT !.cancelled = TRUE] ELSE payload[j]
        BY <1>3, <2>1, <2>4
      <4>2. payload[j] \in Payload
        BY <2>1
      <4> QED BY <4>1, <4>2 DEF Payload
    <3> QED BY <3>1, <3>2
  <2> QED BY <2>2, <2>3, <2>4
<1>5. user' \in [Users -> [pc : {"idle", "scheduled", "marked"}, id : Ids \cup {NoTimer}]]
      /\ \A v \in Users : user'[v] = Idle \/
           (v = u /\ i \in registry /\ user'[v] = [pc |-> "marked", id |-> i])
  <2>1. user \in [Users -> [pc : {"idle", "scheduled", "marked"}, id : Ids \cup {NoTimer}]]
    BY DEF IInv, TypeOK
  <2>2. user' = user \/ (i \in registry /\ user' = [user EXCEPT ![u] = [pc |-> "marked", id |-> i]])
    BY DEF Mark
  <2> QED BY <1>2, <1>3, <2>1, <2>2
<1>6. TypeOK'
  BY <1>1, <1>3, <1>4, <1>5, SMTT(30) DEF IInv, TypeOK, Idle
<1>7. /\ OnePlace' /\ PromptAlarms' /\ RunsOnce' /\ DueInFlight' /\ EndOnce'
      /\ OnItsWay' = OnItsWay
  BY <1>1, StaysPut
<1>8. PayloadsLive'
  BY <1>1, <1>4, <1>5, <1>7 DEF IInv, PayloadsLive, Idle
<1>9. CancelledIsGone' /\ LockHeld'
  BY <1>1, <1>5, <1>7 DEF IInv, CancelledIsGone, LockHeld
<1>10. IdsInUse'
  BY <1>1, <1>2, <1>4, <1>5 DEF IInv, IdsInUse, Idle
<1> QED BY <1>6, <1>7, <1>8, <1>9, <1>10 DEF IInv

\* True is returned for an alarm that was still in the worker's queue, and for no other.
LEMMA CancelAlarmKeeps ==
  ASSUME IInv, NEW u \in Users, CancelAlarm(u)
  PROVE  IInv'
<1> DEFINE i == user[u].id
<1>1. /\ i \in Ids /\ i \in registry
      /\ alarms' \in Seq(Ids) /\ OneEach(alarms')
      /\ \A k, l \in DOMAIN alarms' : k < l => at[alarms'[k]] <= at[alarms'[l]]
      /\ \/ /\ i \in Alarmed /\ Alarmed' = Alarmed \ {i}
            /\ confirmed' = confirmed \cup {i}
         \/ Alarmed' = Alarmed /\ confirmed' = confirmed
      /\ Held(worker)' = Held(worker) /\ Fired' = Fired /\ Queued' = Queued
      /\ Held(handler)' = Held(handler)
  BY CancelWay
<1>2. UNCHANGED <<now, nextId, at, worker, external, live, expired, handler, payload,
                  registry, runs, cancels>>
  BY DEF CancelAlarm
<1>3. user' \in [Users -> [pc : {"idle", "scheduled", "marked"}, id : Ids \cup {NoTimer}]]
      /\ \A v \in Users : user'[v] = Idle
  <2>1. user \in [Users -> [pc : {"idle", "scheduled", "marked"}, id : Ids \cup {NoTimer}]]
    BY DEF IInv, TypeOK
  <2>2. user' = [user EXCEPT ![u] = Idle] /\ user[u].pc = "marked"
    BY DEF CancelAlarm
  <2>3. \A v \in Users : v # u => user[v] = Idle
    BY <2>2 DEF IInv, LockHeld, Idle
  <2> QED BY <2>1, <2>2, <2>3 DEF Idle
<1>4. \A v \in Users : user[v].pc # "scheduled"
  BY DEF CancelAlarm, IInv, LockHeld, Idle
<1> HIDE DEF i
<1>5. TypeOK'
  BY <1>1, <1>2, <1>3 DEF IInv, TypeOK, Idle
<1>6. OnePlace'
  BY <1>1, <1>2 DEF IInv, OnePlace, OneEach
<1>7. OnItsWay' \cup confirmed' = OnItsWay \cup confirmed /\ OnItsWay' \subseteq OnItsWay
  BY <1>1 DEF OnItsWay
<1>8. PayloadsLive'
  <2>1. \A j \in OnItsWay' : payload'[j].st = "live"
    BY <1>2, <1>7 DEF IInv, PayloadsLive
  <2>2. {j \in Ids : payload'[j].st = "live"} = OnItsWay' \cup confirmed'
    BY <1>2, <1>7 DEF IInv, PayloadsLive
  <2> QED BY <1>2, <1>3, <2>1, <2>2 DEF IInv, PayloadsLive, Idle
<1>9. CancelledIsGone'
  BY <1>1, <1>2 DEF IInv, CancelledIsGone, OnItsWay, OnePlace, RunsOnce
<1>10. PromptAlarms'
  <2>1. worker.pc = "asleep" /\ worker.until = NoAlarm => alarms' = <<>>
    <3> SUFFICES ASSUME worker.pc = "asleep", worker.until = NoAlarm PROVE alarms' = <<>>
      OBVIOUS
    <3>1. alarms = <<>>
      BY DEF IInv, PromptAlarms
    <3> QED BY <3>1 DEF CancelAlarm
  <2> QED BY <1>1, <1>2, <2>1 DEF IInv, PromptAlarms
<1>11. LockHeld' /\ IdsInUse'
  BY <1>2, <1>3, <1>4 DEF IInv, LockHeld, IdsInUse, Idle
<1>12. RunsOnce' /\ DueInFlight'
  BY <1>1, <1>2 DEF IInv, RunsOnce, DueInFlight
<1>13. EndOnce'
  BY <1>2 DEF IInv, EndOnce, In
<1> QED BY <1>5, <1>6, <1>8, <1>9, <1>10, <1>11, <1>12, <1>13 DEF IInv

\* The flag is read, and the handler called, for a timer that has not run yet.
LEMMA CheckKeeps ==
  ASSUME IInv, Check
  PROVE  IInv'
<1>1. UNCHANGED <<now, nextId, at, alarms, worker, external, live, expired, payload,
                  registry, user, runs, confirmed, cancels>>
  BY DEF Check
<1>2. /\ handler.pc = "check" /\ handler'.pc \in {"free", "run"} /\ handler'.id = handler.id
      /\ handler' \in [pc : {"take", "check", "run", "free", "ended"}, id : Ids \cup {NoTimer}]
  <2>1. handler \in [pc : {"take", "check", "run", "free", "ended"}, id : Ids \cup {NoTimer}]
    BY DEF IInv, TypeOK
  <2> QED BY <2>1 DEF Check
<1>3. TypeOK'
  BY <1>1, <1>2 DEF IInv, TypeOK
<1>4. /\ Alarmed' = Alarmed /\ Held(worker)' = Held(worker) /\ Fired' = Fired
      /\ Queued' = Queued /\ Held(handler)' = Held(handler)
  BY <1>1, <1>2 DEF Alarmed, Held, Fired, Queued, In
<1>5. OnePlace' /\ OnItsWay' = OnItsWay
  BY <1>1, <1>4 DEF IInv, OnePlace, OneEach, OnItsWay
<1>6. PayloadsLive' /\ CancelledIsGone' /\ LockHeld' /\ IdsInUse'
  BY <1>1, <1>5, MovesOn
<1>7. PromptAlarms' /\ DueInFlight' /\ RunsOnce'
  BY <1>1, <1>2, <1>4 DEF IInv, PromptAlarms, DueInFlight, RunsOnce
<1>8. EndOnce'
  BY <1>1 DEF IInv, EndOnce, In
<1> QED BY <1>3, <1>5, <1>6, <1>7, <1>8 DEF IInv

LEMMA RunKeeps ==
  ASSUME IInv, Run
  PROVE  IInv'
<1>1. UNCHANGED <<now, nextId, at, alarms, worker, external, live, expired, payload,
                  registry, user, confirmed, cancels>>
  BY DEF Run
<1>2. /\ handler.pc = "run" /\ handler'.pc = "free" /\ handler'.id = handler.id
      /\ handler' \in [pc : {"take", "check", "run", "free", "ended"}, id : Ids \cup {NoTimer}]
  <2>1. handler \in [pc : {"take", "check", "run", "free", "ended"}, id : Ids \cup {NoTimer}]
    BY DEF IInv, TypeOK
  <2> QED BY <2>1 DEF Run
<1>3. handler.id \in Ids /\ handler.id \in Held(handler) /\ runs[handler.id] = 0
  BY <1>2 DEF IInv, TypeOK, RunsOnce, Held
<1>4. /\ runs' \in [Ids -> Nat] /\ runs'[handler.id] = 1
      /\ \A i \in Ids : i # handler.id => runs'[i] = runs[i]
  BY <1>3 DEF Run, IInv, TypeOK
<1>5. TypeOK'
  BY <1>1, <1>2, <1>4 DEF IInv, TypeOK
<1>6. /\ Alarmed' = Alarmed /\ Held(worker)' = Held(worker) /\ Fired' = Fired
      /\ Queued' = Queued /\ Held(handler)' = Held(handler)
  BY <1>1, <1>2 DEF Alarmed, Held, Fired, Queued, In
<1>7. OnePlace' /\ OnItsWay' = OnItsWay
  BY <1>1, <1>6 DEF IInv, OnePlace, OneEach, OnItsWay
<1>8. PayloadsLive'
  BY <1>1, <1>7 DEF IInv, PayloadsLive
<1>9. CancelledIsGone'
  BY <1>1, <1>3, <1>4, <1>7 DEF IInv, CancelledIsGone, OnItsWay, TypeOK
<1>10. LockHeld' /\ IdsInUse'
  <2>1. payload[handler.id].st = "live"
    BY <1>3 DEF IInv, PayloadsLive, OnItsWay
  <2> QED BY <1>1, <1>3, <1>4, <2>1 DEF IInv, LockHeld, IdsInUse
<1>11. PromptAlarms' /\ DueInFlight'
  BY <1>1, <1>6 DEF IInv, PromptAlarms, DueInFlight
<1>12. RunsOnce'
  <2>1. \A i \in Alarmed \cup Held(worker) \cup Fired \cup Queued : i \in Ids /\ i # handler.id
    BY <1>3 DEF IInv, OnePlace, PayloadsLive, OnItsWay
  <2> QED BY <1>2, <1>3, <1>4, <1>6, <2>1 DEF IInv, RunsOnce
<1>13. EndOnce'
  BY <1>1 DEF IInv, EndOnce, In
<1> QED BY <1>5, <1>7, <1>8, <1>9, <1>10, <1>11, <1>12, <1>13 DEF IInv

\* Under the lock the payload knows its id, so it is the right entry that goes with it.
LEMMA FreeKeeps ==
  ASSUME IInv, Free
  PROVE  IInv'
<1> DEFINE i == handler.id
<1>1. UNCHANGED <<now, nextId, at, alarms, worker, external, live, expired,
                  user, runs, confirmed, cancels>>
  BY DEF Free
<1>2. i \in Ids /\ Held(handler) = {i} /\ payload[i].st = "live"
  <2>1. i \in Ids /\ Held(handler) = {i}
    BY DEF Free, IInv, TypeOK, Held
  <2> QED BY <2>1 DEF IInv, PayloadsLive, OnItsWay
<1>3. \A v \in Users : user[v] = Idle
  BY DEF Free, TimersLockFree
<1>4. payload[i].known
  BY <1>2, <1>3, AllKnown
<1>5. registry' = registry \ {i}
  BY <1>4 DEF Free, IdOf
<1>6. /\ payload' \in [Ids -> Payload] /\ payload'[i].st = "freed"
      /\ payload'[i].known = payload[i].known
      /\ \A j \in Ids : j # i => payload'[j] = payload[j]
  BY <1>2 DEF Free, IInv, TypeOK, Payload
<1>7. handler' = [pc |-> "take", id |-> NoTimer]
  BY DEF Free
<1> HIDE DEF i
<1>8. TypeOK'
  BY <1>1, <1>5, <1>6, <1>7 DEF IInv, TypeOK
<1>9. /\ Alarmed' = Alarmed /\ Held(worker)' = Held(worker) /\ Fired' = Fired
      /\ Queued' = Queued /\ Held(handler)' = {}
  BY <1>1, <1>7 DEF Alarmed, Held, Fired, Queued, In
<1>10. OnePlace' /\ OnItsWay' = OnItsWay \ {i} /\ i \in OnItsWay
  <2>1. OnePlace'
    BY <1>1, <1>9 DEF IInv, OnePlace, OneEach
  <2> QED BY <2>1, <1>2, <1>9 DEF IInv, OnePlace, OnItsWay
<1>11. PayloadsLive'
  <2>1. i \notin confirmed
    BY <1>10 DEF IInv, CancelledIsGone
  <2>2. {j \in Ids : payload'[j].st = "live"} = OnItsWay' \cup confirmed'
    BY <1>1, <1>2, <1>6, <1>10, <2>1 DEF IInv, PayloadsLive
  <2>3. registry' = {j \in Ids : payload'[j].st = "live" /\ payload'[j].known}
    BY <1>2, <1>5, <1>6 DEF IInv, PayloadsLive
  <2>4. \A j \in OnItsWay' : payload'[j].st = "live"
    BY <2>2
  <2> QED BY <1>1, <1>3, <2>2, <2>3, <2>4 DEF PayloadsLive, Idle
<1>12. CancelledIsGone'
  BY <1>1, <1>10 DEF IInv, CancelledIsGone
<1>13. LockHeld' /\ IdsInUse'
  <2>1. \A j \in Ids : payload'[j].st = "none" <=> payload[j].st = "none"
    BY <1>2, <1>6
  <2> QED BY <1>1, <1>3, <1>4, <1>6, <2>1 DEF IInv, LockHeld, IdsInUse, Idle
<1>14. PromptAlarms' /\ DueInFlight'
  BY <1>1, <1>9 DEF IInv, PromptAlarms, DueInFlight
<1>15. RunsOnce'
  BY <1>1, <1>7, <1>9 DEF IInv, RunsOnce
<1>16. EndOnce'
  BY <1>1 DEF IInv, EndOnce, In
<1> QED BY <1>8, <1>10, <1>11, <1>12, <1>13, <1>14, <1>15, <1>16 DEF IInv

-----------------------------------------------------------------------------
(* The theorems *)

\* A Factory starts without timers.
LEMMA InitInv == Init => IInv
<1> SUFFICES ASSUME Init PROVE IInv
  OBVIOUS
<1>1. TypeOK
  BY TimersAssumption DEF Init, TypeOK, Idle, Ids, Payload, NoTimer, NoAlarm
<1>2. Alarmed = {} /\ Held(worker) = {} /\ Fired = {} /\ Queued = {} /\ Held(handler) = {}
      /\ In(expired) = {}
  BY DEF Init, Alarmed, Held, Fired, Queued, In
<1>3. OnePlace /\ PromptAlarms
  BY <1>2 DEF Init, OnePlace, OneEach, PromptAlarms
<1>4. PayloadsLive
  BY <1>2 DEF Init, PayloadsLive, OnItsWay, Idle
<1>5. CancelledIsGone /\ LockHeld /\ DueInFlight /\ EndOnce /\ RunsOnce
  BY <1>2 DEF Init, CancelledIsGone, LockHeld, DueInFlight, EndOnce, RunsOnce, Idle
<1>6. IdsInUse
  BY TimersAssumption DEF Init, IdsInUse, Idle, Ids
<1> QED BY <1>1, <1>3, <1>4, <1>5, <1>6 DEF IInv

LEMMA StepInv == IInv /\ [Next]_vars => IInv'
<1> SUFFICES ASSUME IInv, [Next]_vars PROVE IInv'
  OBVIOUS
<1>1. CASE Tick \/ Sleep \/ Wake
  BY <1>1, WaitKeeps
<1>2. ASSUME NEW u \in Users, \E delay \in Delays : Schedule(u, delay) PROVE IInv'
  BY <1>2, ScheduleKeeps
<1>3. ASSUME NEW u \in Users, Register(u) PROVE IInv'
  BY <1>3, RegisterKeeps
<1>4. ASSUME NEW u \in Users, \E i \in 0 .. nextId - 1 : Mark(u, i) PROVE IInv'
  BY <1>4, MarkKeeps
<1>5. ASSUME NEW u \in Users, CancelAlarm(u) PROVE IInv'
  BY <1>5, CancelAlarmKeeps
<1>6. CASE Pop
  BY <1>6, PopKeeps
<1>7. CASE Fire
  BY <1>7, FireKeeps
<1>8. CASE EndArrives \/ Dispatch \/ DispatchEnd
  BY <1>8, ExternalKeeps
<1>9. CASE Take
  BY <1>9, TakeKeeps
<1>10. CASE Check
  BY <1>10, CheckKeeps
<1>11. CASE Run
  BY <1>11, RunKeeps
<1>12. CASE Free
  BY <1>12, FreeKeeps
<1>13. CASE UNCHANGED vars
  <2>1. /\ OnePlace' /\ PromptAlarms' /\ RunsOnce' /\ DueInFlight' /\ EndOnce'
        /\ OnItsWay' = OnItsWay
    BY <1>13, StaysPut DEF vars
  <2>2. PayloadsLive' /\ CancelledIsGone' /\ LockHeld' /\ IdsInUse'
    BY <1>13, <2>1, MovesOn DEF vars
  <2>3. TypeOK'
    BY <1>13 DEF vars, IInv, TypeOK
  <2> QED BY <2>1, <2>2, <2>3 DEF IInv
<1> QED BY <1>1, <1>2, <1>3, <1>4, <1>5, <1>6, <1>7, <1>8, <1>9, <1>10, <1>11, <1>12, <1>13
        DEF Next

LEMMA AlwaysIInv == Spec => []IInv
BY InitInv, StepInv, PTL DEF Spec

\* The types of the state: no thread works on a NULL payload.
THEOREM TypeCorrect == Spec => []TypeOK
<1>1. IInv => TypeOK
  BY DEF IInv
<1> QED BY <1>1, AlwaysIInv, PTL

\* However the threads interleave, an alarm is in one place of its way, nothing points to
\* a deallocated payload, and a timer whose cancel returned true does not run.
THEOREM TimersAccountedFor == Spec => []TimersAccounted
<1>1. IInv => TimersAccounted
  BY DEF IInv, TimersAccounted
<1> QED BY <1>1, AlwaysIInv, PTL

\* The alarms are sorted and the worker never oversleeps one.
THEOREM NoOversleeping == Spec => []PromptAlarms
<1>1. IInv => PromptAlarms
  BY DEF IInv
<1> QED BY <1>1, AlwaysIInv, PTL

\* The timers of the Factory are the timers of client.h.
THEOREM TimersRefine == Spec => ImplementsAbstractTimers
<1> DEFINE timer == [i \in Ids |-> TimerState(i)]
<1>1. Init => Abstract!Init
  <2> SUFFICES ASSUME Init PROVE Abstract!Init
    OBVIOUS
  <2>1. \A i \in Ids : TimerState(i) = "unset"
    BY TimersAssumption DEF Init, TimerState, Ids
  <2> QED BY <2>1 DEF Init, Abstract!Init
<1>2. IInv /\ [Next]_vars => [Abstract!Next]_(Abstract!vars)
  <2> SUFFICES ASSUME IInv, [Next]_vars PROVE [Abstract!Next]_(Abstract!vars)
    OBVIOUS
  <2>0. \A i \in Ids : i \in Int /\ runs[i] \in Nat
    <3>1. runs \in [Ids -> Nat]
      BY DEF IInv, TypeOK
    <3>2. \A i \in Ids : i \in Int
      BY DEF Ids
    <3> QED BY <3>1, <3>2
  <2>1. CASE Tick
    <3>1. now' > now
      BY <2>1 DEF Tick, IInv, TypeOK
    <3>2. UNCHANGED <<at, runs, confirmed, nextId>>
      BY <2>1 DEF Tick
    <3>3. timer' = timer
      BY <3>2 DEF TimerState
    <3> QED BY <3>1, <3>2, <3>3 DEF Abstract!Next, Abstract!Pass
  <2>2. ASSUME NEW u \in Users, NEW delay \in Delays, Schedule(u, delay)
        PROVE Abstract!Next
    <3>1. nextId \in Ids /\ nextId \notin confirmed /\ at' \in [Ids -> Nat]
      BY <2>2, ScheduleWay
    <3>2. at' = [at EXCEPT ![nextId] = at'[nextId]] /\ at'[nextId] \in Nat
      BY <2>2, <3>1 DEF Schedule, IInv, TypeOK
    <3>3. UNCHANGED <<now, runs, confirmed>> /\ nextId' = nextId + 1
      BY <2>2 DEF Schedule
    <3>4. runs[nextId] = 0
      BY <3>1, TimersAssumption DEF IInv, IdsInUse, Ids
    <3>5. \A i \in Ids : TimerState(i)' = IF i = nextId THEN "set" ELSE TimerState(i)
      <4>1. nextId \in Int
        BY <2>0, <3>1
      <4>2. \A i \in Ids : (i < nextId + 1 <=> (i < nextId \/ i = nextId)) /\ ~(nextId < nextId)
        BY <2>0, <4>1
      <4> QED BY <2>0, <3>1, <3>3, <3>4, <4>2 DEF TimerState
    <3>6. timer[nextId] = "unset" /\ timer' = [timer EXCEPT ![nextId] = "set"]
      <4>1. TimerState(nextId) = "unset"
        BY <3>1, <3>4, TimersAssumption DEF TimerState, Ids
      <4> QED BY <3>1, <3>5, <4>1
    <3>7. Abstract!Set(nextId)
      BY <3>2, <3>3, <3>6 DEF Abstract!Set
    <3> QED BY <3>1, <3>7 DEF Abstract!Next
  <2>3. ASSUME NEW u \in Users, CancelAlarm(u)
        PROVE [Abstract!Next]_(Abstract!vars)
    <3> DEFINE i == user[u].id
    <3>1. /\ i \in Ids
          /\ (i \in Alarmed /\ confirmed' = confirmed \cup {i}) \/ confirmed' = confirmed
      BY <2>3, CancelWay
    <3>2. UNCHANGED <<now, at, runs, nextId>>
      BY <2>3 DEF CancelAlarm
    <3> HIDE DEF i
    <3>3. CASE i \in Alarmed /\ confirmed' = confirmed \cup {i}
      <4>1. runs[i] = 0 /\ i \notin confirmed /\ i < nextId
        <5>1. runs[i] = 0 /\ i \notin confirmed /\ payload[i].st = "live"
          BY <3>3 DEF IInv, RunsOnce, CancelledIsGone, OnItsWay, PayloadsLive
        <5> QED BY <3>1, <5>1, TimersAssumption DEF IInv, IdsInUse, TypeOK, Ids
      <4>2. \A j \in Ids : TimerState(j)' = IF j = i THEN "cancelled" ELSE TimerState(j)
        BY <2>0, <3>2, <3>3, <4>1 DEF TimerState
      <4>3. timer[i] = "set" /\ timer' = [timer EXCEPT ![i] = "cancelled"]
        <5>1. TimerState(i) = "set"
          BY <4>1 DEF TimerState
        <5> QED BY <3>1, <4>2, <5>1
      <4>4. Abstract!Cancel(i)
        BY <3>2, <4>3 DEF Abstract!Cancel
      <4> QED BY <3>1, <4>4 DEF Abstract!Next
    <3>4. CASE confirmed' = confirmed
      <4>1. timer' = timer
        BY <3>2, <3>4 DEF TimerState
      <4> QED BY <3>2, <4>1 DEF Abstract!vars
    <3> QED BY <3>1, <3>3, <3>4
  <2>4. CASE Run
    <3> DEFINE i == handler.id
    <3>1. i \in Ids /\ i \in Held(handler) /\ runs[i] = 0
      BY <2>4 DEF Run, IInv, TypeOK, RunsOnce, Held
    <3>2. UNCHANGED <<now, at, confirmed, nextId>> /\ runs' = [runs EXCEPT ![i] = @ + 1]
      BY <2>4 DEF Run
    <3> HIDE DEF i
    <3>3. i \notin confirmed /\ payload[i].st = "live" /\ at[i] <= now
      BY <3>1 DEF IInv, CancelledIsGone, OnItsWay, PayloadsLive, DueInFlight
    <3>4. i < nextId
      BY <3>1, <3>3, TimersAssumption DEF IInv, IdsInUse, TypeOK, Ids
    <3>5. \A j \in Ids : runs'[j] = IF j = i THEN 1 ELSE runs[j]
      BY <3>1, <3>2 DEF IInv, TypeOK
    <3>6. \A j \in Ids : TimerState(j)' = IF j = i THEN "run" ELSE TimerState(j)
      BY <2>0, <3>2, <3>5 DEF TimerState
    <3>7. timer[i] = "set" /\ timer' = [timer EXCEPT ![i] = "run"]
      <4>1. TimerState(i) = "set"
        BY <3>1, <3>3, <3>4 DEF TimerState
      <4> QED BY <3>1, <3>6, <4>1
    <3>8. Abstract!Run(i)
      BY <3>2, <3>3, <3>7 DEF Abstract!Run
    <3> QED BY <3>1, <3>8 DEF Abstract!Next
  <2>5. CASE UNCHANGED <<now, at, runs, confirmed, nextId>>
    <3>1. timer' = timer
      BY <2>5 DEF TimerState
    <3> QED BY <2>5, <3>1 DEF Abstract!vars
  <2>6. Sleep \/ Wake \/ Pop \/ Fire \/ EndArrives \/ Dispatch \/ DispatchEnd \/ Take
          \/ Check \/ Free \/ UNCHANGED vars
          \/ (\E u \in Users : Register(u) \/ \E i \in 0 .. nextId - 1 : Mark(u, i))
        => UNCHANGED <<now, at, runs, confirmed, nextId>>
    BY DEF Sleep, Wake, Pop, Fire, EndArrives, Dispatch, DispatchEnd, Take, Check, Free,
           vars, Register, Mark
  <2> QED BY <2>1, <2>2, <2>3, <2>4, <2>5, <2>6 DEF Next
<1> QED BY <1>1, <1>2, AlwaysIInv, PTL DEF Spec, ImplementsAbstractTimers, Abstract!Spec
=============================================================================
