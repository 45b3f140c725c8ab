-------------------------- MODULE CachedStateProofs --------------------------
(***************************************************************************)
(* The invariants of CachedState, what its steps may do to the log and the *)
(* caches, and that its owner is that of a lock of AbstractLock, for any   *)
(* threads, processes, programs and bounds.                                *)
(***************************************************************************)
EXTENDS CachedState, SequenceTheorems, TLAPS

-----------------------------------------------------------------------------
(* The inductive invariant *)

SeenIsWritten == \A p \in Procs : view[p] <= Latest

\* A process whose watch is set has cached what its server has.
WatchedIsCached == \A p \in Procs : watch[p] => cache[p].ver = view[p]

\* Only the event thread at work leaves the flag unset.
UnreadyIsHandled == \A p \in Procs : ~ready[p] => handling[p]

\* The markers in a queue: whose they are, and how many.
MarkersOf(p, q, c) ==
  \A i \in DOMAIN q : q[i] \in Threads =>
    /\ ProcOf[q[i]] = p
    /\ c[q[i]] = "await"
    /\ \A j \in DOMAIN q : q[j] = q[i] => j = i

Markers == \A p \in Procs : MarkersOf(p, queue[p], pc)

\* Every thread takes the lock before it goes on.
OwnerOnly == \A t \in Threads : pc[t] # "idle" => owner = t

\* The server has shown the owner everything, and nobody else writes.
OwnerSynced ==
  \A t \in Threads : pc[t] \in {"inject", "await", "edit"} => view[ProcOf[t]] = Latest

\* The change events are before the marker.
LastMarker(q, t) ==
  \E k \in DOMAIN q :
    /\ q[k] = t
    /\ \A i \in DOMAIN q : q[i] = "change" => i < k

MarkerLast == \A t \in Threads : pc[t] = "await" => LastMarker(queue[ProcOf[t]], t)

EditsLatest == \A t \in Threads : pc[t] = "edit" => cache[ProcOf[t]].ver = Latest

\* What a cache adds to its version is what the owner has set.
CachedIsLogged ==
  faults = 0 =>
    /\ \A t \in Threads : pc[t] = "edit" =>
         cache[ProcOf[t]].state = At(cache[ProcOf[t]].ver).state \cup mine[t]
    /\ \A p \in Procs : (\A t \in Threads : ProcOf[t] = p => pc[t] # "edit") =>
         cache[p].state = At(cache[p].ver).state
    /\ \A t \in Threads : pc[t] \notin {"edit", "finish"} => mine[t] = {}

Locked == program.locking = Threads =>
  OwnerOnly /\ OwnerSynced /\ MarkerLast /\ EditsLatest /\ CachedIsLogged

IInv == ReadyTracksWatch /\ SeenIsWritten /\ NoLostUpdate
LInv == IInv /\ WatchedIsCached /\ UnreadyIsHandled /\ Markers /\ Locked /\ badSyncs = 0

-----------------------------------------------------------------------------
(* Queues, logs and histories *)

Item == {"change"} \cup Threads
Changes(q) == {i \in DOMAIN q : q[i] = "change"}

\* What ReadyTracksWatch says of one process.
FlagRight(q, w, r) ==
  /\ r <=> (w \/ Changes(q) # {})
  /\ w => Changes(q) = {}
  /\ \A i, j \in Changes(q) : i = j

\* A change event at the end of a queue without one.
LEMMA AppendChange ==
  ASSUME NEW q \in Seq(Item)
  PROVE  /\ Append(q, "change") \in Seq(Item)
         /\ FlagRight(q, TRUE, TRUE) => FlagRight(Append(q, "change"), FALSE, TRUE)
<1> DEFINE a == Append(q, "change")
<1>1. /\ a \in Seq(Item) /\ DOMAIN a = 1 .. Len(q) + 1
      /\ Len(q) \in Nat /\ DOMAIN q = 1 .. Len(q)
  BY DEF Item
<1>2. \A i \in 1 .. Len(q) : a[i] = q[i]
  OBVIOUS
<1>3. a[Len(q) + 1] = "change"
  OBVIOUS
<1> HIDE DEF a
<1>4. FlagRight(q, TRUE, TRUE) => FlagRight(a, FALSE, TRUE)
  <2> SUFFICES ASSUME Changes(q) = {} PROVE Changes(a) = {Len(q) + 1}
    BY DEF FlagRight
  <2>1. \A i \in DOMAIN a : i \in DOMAIN q \/ i = Len(q) + 1
    BY <1>1
  <2>2. Len(q) + 1 \in DOMAIN a
    BY <1>1
  <2> QED BY <1>1, <1>2, <1>3, <2>1, <2>2 DEF Changes
<1> QED BY <1>1, <1>4 DEF a

\* A marker at the end of a queue.
LEMMA AppendMarker ==
  ASSUME NEW q \in Seq(Item), NEW t \in Threads
  PROVE  /\ Append(q, t) \in Seq(Item)
         /\ Changes(Append(q, t)) = Changes(q)
<1> DEFINE a == Append(q, t)
<1>1. /\ a \in Seq(Item) /\ DOMAIN a = 1 .. Len(q) + 1
      /\ Len(q) \in Nat /\ DOMAIN q = 1 .. Len(q)
  BY DEF Item
<1>2. \A i \in 1 .. Len(q) : a[i] = q[i]
  OBVIOUS
<1>3. a[Len(q) + 1] # "change"
  BY CachedStateAssumption
<1> HIDE DEF a
<1>4. \A i \in DOMAIN a : i \in DOMAIN q \/ i = Len(q) + 1
  BY <1>1
<1>5. \A i \in DOMAIN q : i \in DOMAIN a
  BY <1>1
<1>6. Changes(a) = Changes(q)
  BY <1>1, <1>2, <1>3, <1>4, <1>5 DEF Changes
<1> QED BY <1>1, <1>6 DEF a

\* The front of a queue taken away.
LEMMA TailShifts ==
  ASSUME NEW q \in Seq(Item), q # <<>>
  PROVE  /\ Tail(q) \in Seq(Item) /\ Head(q) \in Item /\ Head(q) = q[1]
         /\ Len(q) \in Nat \ {0} /\ DOMAIN q = 1 .. Len(q)
         /\ DOMAIN Tail(q) = 1 .. Len(q) - 1
         /\ \A i \in DOMAIN Tail(q) : Tail(q)[i] = q[i + 1]
  OBVIOUS

\* The event thread takes a marker from the queue.
LEMMA TailMarker ==
  ASSUME NEW q \in Seq(Item), q # <<>>, Head(q) \in Threads,
         NEW w \in BOOLEAN, NEW r \in BOOLEAN, FlagRight(q, w, r)
  PROVE  FlagRight(Tail(q), w, r)
<1> DEFINE b == Tail(q)
<1>1. /\ b \in Seq(Item) /\ Head(q) = q[1]
      /\ Len(q) \in Nat \ {0} /\ DOMAIN q = 1 .. Len(q) /\ DOMAIN b = 1 .. Len(q) - 1
      /\ \A i \in DOMAIN b : b[i] = q[i + 1]
  BY TailShifts
<1> HIDE DEF b
<1>2. 1 \notin Changes(q)
  BY <1>1, CachedStateAssumption DEF Changes
<1>3. ASSUME NEW i \in Changes(b) PROVE i + 1 \in Changes(q) /\ i \in Nat
  BY <1>1 DEF Changes
<1>4. ASSUME NEW i \in Changes(q) PROVE i - 1 \in Changes(b)
  <2>1. i \in 2 .. Len(q)
    BY <1>1, <1>2 DEF Changes
  <2>2. i - 1 \in DOMAIN b /\ (i - 1) + 1 = i
    BY <1>1, <2>1
  <2> QED BY <1>1, <2>2 DEF Changes
<1>5. Changes(q) = {} <=> Changes(b) = {}
  BY <1>3, <1>4
<1>6. ASSUME NEW i \in Changes(b), NEW j \in Changes(b) PROVE i = j
  <2>1. i + 1 = j + 1
    BY <1>3 DEF FlagRight
  <2> QED BY <1>3, <2>1
<1> QED BY <1>5, <1>6 DEF FlagRight, b

\* The event thread takes the change event from the queue.
LEMMA TailChange ==
  ASSUME NEW q \in Seq(Item), q # <<>>, Head(q) = "change",
         NEW w \in BOOLEAN, NEW r \in BOOLEAN, FlagRight(q, w, r)
  PROVE  ~w /\ FlagRight(Tail(q), w, FALSE)
<1> DEFINE b == Tail(q)
<1>1. /\ b \in Seq(Item) /\ Head(q) = q[1]
      /\ Len(q) \in Nat \ {0} /\ DOMAIN q = 1 .. Len(q) /\ DOMAIN b = 1 .. Len(q) - 1
      /\ \A i \in DOMAIN b : b[i] = q[i + 1]
  BY TailShifts
<1> HIDE DEF b
<1>2. 1 \in Changes(q)
  BY <1>1 DEF Changes
<1>3. ASSUME NEW i \in Changes(b) PROVE FALSE
  <2>1. i + 1 \in Changes(q) /\ i \in Nat \ {0}
    BY <1>1, <1>3 DEF Changes
  <2>2. i + 1 = 1
    BY <1>2, <2>1 DEF FlagRight
  <2> QED BY <2>1, <2>2
<1>4. ~w
  BY <1>2 DEF FlagRight
<1> QED BY <1>3, <1>4 DEF FlagRight, b

\* ZooKeeper's log after one write, or one that was repeated.
LEMMA LogGrows ==
  ASSUME NEW s \in Seq(Record), NEW r \in Record, NEW n \in 1 .. 2
  PROVE  LET g == s \o [i \in 1 .. n |-> r]
         IN /\ g \in Seq(Record) /\ Len(g) = Len(s) + n
            /\ \A i \in 1 .. Len(s) : g[i] = s[i]
            /\ \A i \in Len(s) + 1 .. Len(s) + n : g[i] = r
<1> DEFINE e == [i \in 1 .. n |-> r]
           g == s \o e
<1>1. e \in Seq(Record) /\ Len(e) = n
  BY n \in Nat
<1>2. \A i \in 1 .. n : e[i] = r
  OBVIOUS
<1> HIDE DEF e
<1>3. /\ g \in Seq(Record) /\ Len(g) = Len(s) + n
      /\ \A i \in 1 .. Len(s) + n : g[i] = IF i <= Len(s) THEN s[i] ELSE e[i - Len(s)]
  BY ConcatProperties, <1>1
<1>4. Len(s) \in Nat
  OBVIOUS
<1> HIDE DEF g
<1>5. \A i \in 1 .. Len(s) : g[i] = s[i]
  BY <1>3, <1>4
<1>6. ASSUME NEW i \in Len(s) + 1 .. Len(s) + n PROVE g[i] = r
  <2>1. i - Len(s) \in 1 .. n /\ ~(i <= Len(s)) /\ i \in 1 .. Len(s) + n
    BY <1>4
  <2> QED BY <1>2, <1>3, <2>1
<1> QED BY <1>3, <1>5, <1>6 DEF g, e

\* The history that publish makes is a sequence of states.
LEMMA PushedType ==
  ASSUME NEW c \in Cache
  PROVE  Pushed(c) \in Seq(State)
<1> DEFINE h == <<c.state>> \o c.hist
           n == IF Len(h) > MaxHistory THEN MaxHistory ELSE Len(h)
<1>1. c.state \in State /\ c.hist \in Seq(State)
  BY DEF Cache
<1>2. <<c.state>> \in Seq(State)
  BY <1>1
<1>3. h \in Seq(State)
  BY <1>1, <1>2, ConcatProperties
<1> HIDE DEF h
<1>4. n \in Int /\ n <= Len(h) /\ Len(h) \in Nat
  BY <1>3, CachedStateAssumption
<1>5. \A i \in 1 .. n : h[i] \in State
  BY <1>3, <1>4
<1> HIDE DEF n
<1>6. SubSeq(h, 1, n) \in Seq(State)
  BY <1>4, <1>5, SubSeqProperties
<1> QED BY <1>6 DEF Pushed, h, n

-----------------------------------------------------------------------------
(* What the parts of the steps do *)

FlagsRight == \A p \in Procs : FlagRight(queue[p], watch[p], ready[p])

\* ReadyTracksWatch in terms of FlagRight.
LEMMA FlagsOfReady == ReadyTracksWatch <=> TypeOK /\ FlagsRight
  BY DEF ReadyTracksWatch, FlagsRight, FlagRight, Changes

\* A version that has been written is a record.
LEMMA AtType ==
  ASSUME log \in Seq(Record), NEW v \in 0 .. Latest
  PROVE  At(v) \in Record
<1>1. CASE v = 0
  BY <1>1 DEF At, Empty, Record, State
<1>2. CASE v # 0
  <2>1. v \in 1 .. Len(log)
    BY <1>2 DEF Latest
  <2> QED BY <1>2, <2>1 DEF At
<1> QED BY <1>1, <1>2

\* The server of p applies writes: its watch becomes a change event.
LEMMA ApplyEffect ==
  ASSUME TypeOK, FlagsRight, NEW p \in Procs, NEW v \in Nat, Apply(p, v)
  PROVE  /\ view' = [view EXCEPT ![p] = v]
         /\ view' \in [Procs -> Nat]
         /\ watch' \in [Procs -> BOOLEAN]
         /\ queue' \in [Procs -> Seq(Item)]
         /\ \A o \in Procs : FlagRight(queue'[o], watch'[o], ready[o])
<1>1. /\ view \in [Procs -> Nat] /\ watch \in [Procs -> BOOLEAN]
      /\ queue \in [Procs -> Seq(Item)] /\ ready \in [Procs -> BOOLEAN]
  BY DEF TypeOK, Item
<1>2. view' = [view EXCEPT ![p] = v] /\ view' \in [Procs -> Nat]
  BY <1>1 DEF Apply
<1>3. CASE watch[p] /\ v > view[p]
  <2>1. /\ watch' = [watch EXCEPT ![p] = FALSE]
        /\ queue' = [queue EXCEPT ![p] = Append(queue[p], "change")]
    BY <1>3 DEF Apply
  <2>2. watch[p] = TRUE
    BY <1>1, <1>3
  <2>3. FlagRight(queue[p], watch[p], ready[p])
    BY DEF FlagsRight
  <2>4. ready[p] = TRUE
    BY <1>1, <2>2, <2>3 DEF FlagRight
  <2>5. Append(queue[p], "change") \in Seq(Item)
        /\ FlagRight(Append(queue[p], "change"), FALSE, TRUE)
    BY <1>1, <2>2, <2>3, <2>4, AppendChange
  <2>6. watch' \in [Procs -> BOOLEAN] /\ queue' \in [Procs -> Seq(Item)]
    BY <1>1, <2>1, <2>5
  <2>7. ASSUME NEW o \in Procs PROVE FlagRight(queue'[o], watch'[o], ready[o])
    <3>1. CASE o = p
      <4>1. queue'[o] = Append(queue[p], "change") /\ watch'[o] = FALSE /\ ready[o] = TRUE
        BY <1>1, <2>1, <2>4, <3>1
      <4> QED BY <2>5, <4>1
    <3>2. CASE o # p
      <4>1. queue'[o] = queue[o] /\ watch'[o] = watch[o]
        BY <1>1, <2>1, <3>2
      <4> QED BY <4>1 DEF FlagsRight
    <3> QED BY <3>1, <3>2
  <2> QED BY <1>2, <2>6, <2>7
<1>4. CASE ~(watch[p] /\ v > view[p])
  <2>1. watch' = watch /\ queue' = queue
    BY <1>4 DEF Apply
  <2> QED BY <1>1, <1>2, <2>1 DEF FlagsRight
<1> QED BY <1>3, <1>4

\* A read sets the watch when nobody else has, and takes a newer version.
LEMMA LoadEffect ==
  ASSUME TypeOK, FlagsRight, SeenIsWritten, NEW p \in Procs, Load(p)
  PROVE  /\ watch' \in [Procs -> BOOLEAN] /\ ready' \in [Procs -> BOOLEAN]
         /\ cache' \in [Procs -> Cache]
         /\ \A o \in Procs : FlagRight(queue[o], watch'[o], ready'[o])
         /\ \A o \in Procs : o # p => cache'[o] = cache[o]
         /\ cache[p].ver < view[p] =>
              cache'[p].ver = view[p] /\ cache'[p].state = At(view[p]).state
         /\ ~(cache[p].ver < view[p]) => cache'[p] = cache[p]
<1>1. /\ watch \in [Procs -> BOOLEAN] /\ ready \in [Procs -> BOOLEAN]
      /\ cache \in [Procs -> Cache] /\ view \in [Procs -> Nat] /\ log \in Seq(Record)
  BY DEF TypeOK
<1>2. watch' \in [Procs -> BOOLEAN] /\ ready' \in [Procs -> BOOLEAN]
      /\ \A o \in Procs : FlagRight(queue[o], watch'[o], ready'[o])
  <2>1. CASE ready[p]
    <3>1. watch' = watch /\ ready' = ready
      BY <2>1 DEF Load
    <3> QED BY <1>1, <3>1 DEF FlagsRight
  <2>2. CASE ~ready[p]
    <3>1. watch' = [watch EXCEPT ![p] = TRUE] /\ ready' = [ready EXCEPT ![p] = TRUE]
      BY <2>2 DEF Load
    <3>2. FlagRight(queue[p], TRUE, TRUE)
      BY <2>2 DEF FlagsRight, FlagRight
    <3>3. ASSUME NEW o \in Procs PROVE FlagRight(queue[o], watch'[o], ready'[o])
      <4>1. CASE o = p
        <5>1. watch'[o] = TRUE /\ ready'[o] = TRUE
          BY <1>1, <3>1, <4>1
        <5> QED BY <3>2, <4>1, <5>1
      <4>2. CASE o # p
        <5>1. watch'[o] = watch[o] /\ ready'[o] = ready[o]
          BY <1>1, <3>1, <4>2
        <5> QED BY <5>1 DEF FlagsRight
      <4> QED BY <4>1, <4>2
    <3> QED BY <1>1, <3>1, <3>3
  <2> QED BY <2>1, <2>2
<1> DEFINE c == [ver |-> view[p], state |-> At(view[p]).state, hist |-> At(view[p]).hist]
<1>3. At(view[p]) \in Record
  BY <1>1, AtType DEF SeenIsWritten
<1>4. c \in Cache
  BY <1>1, <1>3 DEF Cache, Record
<1>5. cache' = IF cache[p].ver < view[p] THEN [cache EXCEPT ![p] = c] ELSE cache
  BY DEF Load
<1>6. c.ver = view[p] /\ c.state = At(view[p]).state
  OBVIOUS
<1> HIDE DEF c
<1>7. /\ cache' \in [Procs -> Cache]
      /\ \A o \in Procs : o # p => cache'[o] = cache[o]
      /\ cache[p].ver < view[p] => cache'[p] = c
      /\ ~(cache[p].ver < view[p]) => cache'[p] = cache[p]
  BY <1>1, <1>4, <1>5
<1> QED BY <1>2, <1>6, <1>7

\* What publish leaves in the cache.
LEMMA CachedEffect ==
  ASSUME TypeOK, NEW p \in Procs, NEW hist \in Seq(State), NEW ver \in Nat,
         Cached(p, hist, ver)
  PROVE  /\ cache' \in [Procs -> Cache]
         /\ \A o \in Procs : o # p => cache'[o] = cache[o]
         /\ cache'[p].ver = ver /\ cache'[p].state = cache[p].state
<1>1. cache \in [Procs -> Cache] /\ cache[p] \in Cache
  BY DEF TypeOK
<1> DEFINE c == [[cache[p] EXCEPT !.hist = hist] EXCEPT !.ver = ver]
<1>2. cache' = [cache EXCEPT ![p] = c]
  BY <1>1 DEF Cached
<1>3. c \in Cache /\ c.ver = ver /\ c.state = cache[p].state
  BY <1>1 DEF Cache
<1> HIDE DEF c
<1> QED BY <1>1, <1>2, <1>3

\* publish writes the cached state on top of the version it has cached, or on
\* top of any when it is unconditional, or it writes nothing.
Wrote(p, u, hist, ver) ==
  \E n \in 1 .. 2 :
    /\ Write(p, hist, n)
    /\ ver = Latest + n \/ (ver = cache[p].ver /\ faults' = faults + 1)
    /\ u \/ (n = 1 /\ cache[p].ver = Latest)

WroteNothing(p, ver) ==
  /\ UNCHANGED zkVars
  /\ ver = cache[p].ver
  /\ cache[p].ver # Latest \/ faults' = faults + 1

LEMMA PublishEffect ==
  ASSUME TypeOK, NEW t \in Threads, NEW u \in BOOLEAN, Publish(t, u)
  PROVE  /\ \E hist \in Seq(State), ver \in Nat :
              /\ Cached(ProcOf[t], hist, ver)
              /\ Wrote(ProcOf[t], u, hist, ver) \/ WroteNothing(ProcOf[t], ver)
         /\ PublishFrame(t)
         /\ faults' = faults \/ faults' = faults + 1
<1> DEFINE p == ProcOf[t]
           hist == Pushed(cache[p])
           matches == u \/ cache[p].ver = Latest
<1>1. p \in Procs
  BY CachedStateAssumption
<1>2. cache[p] \in Cache /\ Latest \in Nat
  BY <1>1 DEF TypeOK, Latest
<1>3. hist \in Seq(State)
  BY <1>2, PushedType
<1>4. cache[p].ver \in Nat /\ Latest + 1 \in Nat /\ Latest + 2 \in Nat
  BY <1>2 DEF Cache
<1>5. PublishFrame(t) /\ (faults' = faults \/ faults' = faults + 1)
  BY DEF Publish
<1>6. \/ /\ matches
         /\ Write(p, hist, 1)
         /\ Cached(p, hist, Latest + 1)
      \/ /\ ~matches
         /\ UNCHANGED zkVars
         /\ Cached(p, hist, cache[p].ver)
      \/ /\ faults' = faults + 1
         /\ \/ UNCHANGED zkVars /\ Cached(p, hist, cache[p].ver)
            \/ matches /\ Write(p, hist, 1) /\ Cached(p, hist, cache[p].ver)
            \/ u /\ Write(p, hist, 2) /\ Cached(p, hist, Latest + 2)
  BY DEF Publish
<1> HIDE DEF hist, p
<1>7. \E ver \in Nat :
        /\ Cached(p, hist, ver)
        /\ Wrote(p, u, hist, ver) \/ WroteNothing(p, ver)
  <2>1. CASE matches /\ Write(p, hist, 1) /\ Cached(p, hist, Latest + 1)
    <3>1. Wrote(p, u, hist, Latest + 1)
      BY <2>1 DEF Wrote
    <3> QED BY <1>4, <2>1, <3>1
  <2>2. CASE ~matches /\ UNCHANGED zkVars /\ Cached(p, hist, cache[p].ver)
    <3>1. WroteNothing(p, cache[p].ver)
      BY <2>2 DEF WroteNothing
    <3> QED BY <1>4, <2>2, <3>1
  <2>3. CASE faults' = faults + 1 /\ UNCHANGED zkVars /\ Cached(p, hist, cache[p].ver)
    <3>1. WroteNothing(p, cache[p].ver)
      BY <2>3 DEF WroteNothing
    <3> QED BY <1>4, <2>3, <3>1
  <2>4. CASE /\ faults' = faults + 1 /\ matches
             /\ Write(p, hist, 1) /\ Cached(p, hist, cache[p].ver)
    <3>1. Wrote(p, u, hist, cache[p].ver)
      BY <2>4 DEF Wrote
    <3> QED BY <1>4, <2>4, <3>1
  <2>5. CASE /\ faults' = faults + 1 /\ u
             /\ Write(p, hist, 2) /\ Cached(p, hist, Latest + 2)
    <3>1. Wrote(p, u, hist, Latest + 2)
      BY <2>5 DEF Wrote
    <3> QED BY <1>4, <2>5, <3>1
  <2> QED BY <1>6, <2>1, <2>2, <2>3, <2>4, <2>5
<1> QED BY <1>3, <1>5, <1>7 DEF p

\* A write appends the cached state to the log, for p's server to apply.
LEMMA WriteEffect ==
  ASSUME TypeOK, FlagsRight, SeenIsWritten,
         NEW p \in Procs, NEW hist \in Seq(State), NEW n \in 1 .. 2,
         Write(p, hist, n)
  PROVE  /\ log' \in Seq(Record) /\ Latest' = Latest + n /\ Latest \in Nat
         /\ \A v \in 0 .. Latest : At(v)' = At(v)
         /\ \A v \in Latest + 1 .. Latest + n : At(v)'.state = cache[p].state
         /\ \A v \in 1 .. Latest : log'[v] = log[v]
         /\ \A v \in Latest + 1 .. Latest + n : log'[v].state = cache[p].state
         /\ view' = [view EXCEPT ![p] = Latest + n]
         /\ view' \in [Procs -> Nat]
         /\ watch' \in [Procs -> BOOLEAN]
         /\ queue' \in [Procs -> Seq(Item)]
         /\ \A o \in Procs : FlagRight(queue'[o], watch'[o], ready[o])
<1> DEFINE r == [state |-> cache[p].state, hist |-> hist]
<1>1. cache[p] \in Cache /\ log \in Seq(Record) /\ Latest \in Nat
  BY DEF TypeOK, Latest
<1>2. r \in Record /\ r.state = cache[p].state
  BY <1>1 DEF Cache, Record
<1>3. log' = log \o [i \in 1 .. n |-> r]
  BY DEF Write
<1> HIDE DEF r
<1>4. /\ log' \in Seq(Record) /\ Len(log') = Latest + n
      /\ \A i \in 1 .. Latest : log'[i] = log[i]
      /\ \A i \in Latest + 1 .. Latest + n : log'[i] = r
  BY <1>1, <1>2, <1>3, LogGrows DEF Latest
<1>5. Apply(p, Latest + n) /\ Latest + n \in Nat
  BY <1>1 DEF Write
<1>6. /\ view' = [view EXCEPT ![p] = Latest + n]
      /\ view' \in [Procs -> Nat]
      /\ watch' \in [Procs -> BOOLEAN]
      /\ queue' \in [Procs -> Seq(Item)]
      /\ \A o \in Procs : FlagRight(queue'[o], watch'[o], ready[o])
  BY <1>5, ApplyEffect
<1>7. \A v \in 0 .. Latest : At(v)' = At(v)
  BY <1>1, <1>4 DEF At
<1>8. \A v \in Latest + 1 .. Latest + n : v # 0 /\ At(v)' = r
  BY <1>1, <1>4 DEF At
<1>9. Latest' = Latest + n
  BY <1>4 DEF Latest
<1> QED BY <1>1, <1>2, <1>4, <1>6, <1>7, <1>8, <1>9

-----------------------------------------------------------------------------
(* The steps *)

\* The actions of Next.
LEMMA NextCases ==
  ASSUME Next
  PROVE  /\ program' = program
         /\ \/ \E t \in Threads :
                 \/ Acquire(t) \/ SyncCompletes(t) \/ Inject(t) \/ BeginUnlocked(t)
                 \/ SetKey(t) \/ Reset(t) \/ Finish(t)
                 \/ \E u \in program.unconditional : Publish(t, u)
            \/ \E p \in Procs :
                 CatchUp(p) \/ HandleSync(p) \/ HandleChange(p) \/ FinishChange(p)
  BY DEF Next, EventStep

\* Every step keeps the types and the flags right.
LEMMA FlagStep ==
  ASSUME IInv, Next
  PROVE  TypeOK' /\ FlagsRight'
<1>1. TypeOK /\ FlagsRight /\ SeenIsWritten /\ program' = program
  BY FlagsOfReady, NextCases DEF IInv
<1>2. /\ log \in Seq(Record) /\ view \in [Procs -> Nat]
      /\ watch \in [Procs -> BOOLEAN] /\ queue \in [Procs -> Seq(Item)]
      /\ ready \in [Procs -> BOOLEAN] /\ handling \in [Procs -> BOOLEAN]
      /\ cache \in [Procs -> Cache] /\ owner \in Threads \cup {NoThread}
      /\ pc \in [Threads -> PC] /\ mine \in [Threads -> State]
      /\ turns \in Nat /\ sets \in Nat /\ resets \in Nat /\ faults \in Nat
      /\ badSyncs \in Nat /\ program \in Programs
  BY <1>1 DEF TypeOK, Item
<1>3. ProcOf \in [Threads -> Procs] /\ \A x \in program.unconditional : x \in BOOLEAN
  BY <1>2, CachedStateAssumption
<1>4. Latest \in Nat /\ \A p \in Procs : view[p] \in Nat /\ view[p] <= Latest
  BY <1>1, <1>2 DEF Latest, SeenIsWritten
\* The part of TypeOK that the step of a thread or of an event leaves to show.
<1> DEFINE ZkTyped == /\ log' \in Seq(Record) /\ view' \in [Procs -> Nat]
                      /\ watch' \in [Procs -> BOOLEAN] /\ queue' \in [Procs -> Seq(Item)]
                      /\ ready' \in [Procs -> BOOLEAN] /\ cache' \in [Procs -> Cache]
           ThreadsTyped == /\ handling' \in [Procs -> BOOLEAN]
                           /\ owner' \in Threads \cup {NoThread}
                           /\ pc' \in [Threads -> PC] /\ mine' \in [Threads -> State]
                           /\ turns' \in Nat /\ sets' \in Nat /\ resets' \in Nat
                           /\ faults' \in Nat /\ badSyncs' \in Nat
           StepGoal ==
             /\ ZkTyped /\ ThreadsTyped
             /\ \A o \in Procs : FlagRight(queue'[o], watch'[o], ready'[o])
<1>5. ZkTyped /\ ThreadsTyped => TypeOK'
  BY <1>1, <1>2 DEF TypeOK, Item
<1>6. SUFFICES StepGoal
  BY <1>5 DEF FlagsRight
<1>7. ASSUME UNCHANGED <<queue, watch, ready>>
      PROVE  \A o \in Procs : FlagRight(queue'[o], watch'[o], ready'[o])
  BY <1>1, <1>7 DEF FlagsRight
<1>8. ASSUME NEW t \in Threads, Acquire(t) PROVE StepGoal
  BY <1>2, <1>7, <1>8 DEF Acquire, zkVars, PC
<1>9. ASSUME NEW t \in Threads, SyncCompletes(t) PROVE StepGoal
  <2>1. ThreadsTyped /\ UNCHANGED <<log, ready, cache>>
    BY <1>2, <1>9 DEF SyncCompletes, PC
  <2>2. CASE Apply(ProcOf[t], Latest)
    <3>1. ProcOf[t] \in Procs
      BY <1>3
    <3>2. /\ view' \in [Procs -> Nat] /\ watch' \in [Procs -> BOOLEAN]
          /\ queue' \in [Procs -> Seq(Item)]
          /\ \A o \in Procs : FlagRight(queue'[o], watch'[o], ready[o])
      BY <1>1, <1>4, <2>2, <3>1, ApplyEffect
    <3> QED BY <1>2, <2>1, <3>2
  <2>3. CASE UNCHANGED <<view, watch, queue>>
    BY <1>2, <1>7, <2>1, <2>3
  <2> QED BY <1>9, <2>2, <2>3 DEF SyncCompletes
<1>10. ASSUME NEW t \in Threads, Inject(t) PROVE StepGoal
  <2>1. ThreadsTyped /\ UNCHANGED <<log, view, watch, ready, cache>>
    BY <1>2, <1>10 DEF Inject, counters, PC
  <2> DEFINE q == ProcOf[t]
  <2>2. q \in Procs /\ queue' = [queue EXCEPT ![q] = Append(queue[q], t)]
    BY <1>3, <1>10 DEF Inject
  <2> HIDE DEF q
  <2>3. Append(queue[q], t) \in Seq(Item) /\ Changes(Append(queue[q], t)) = Changes(queue[q])
    BY <1>2, <2>2, AppendMarker
  <2>4. ASSUME NEW o \in Procs PROVE FlagRight(queue'[o], watch'[o], ready'[o])
    <3>1. Changes(queue'[o]) = Changes(queue[o])
      BY <1>2, <2>2, <2>3
    <3>2. FlagRight(queue[o], watch[o], ready[o])
      BY <1>1 DEF FlagsRight
    <3> QED BY <2>1, <3>1, <3>2 DEF FlagRight
  <2>5. queue' \in [Procs -> Seq(Item)]
    BY <1>2, <2>2, <2>3
  <2> QED BY <1>2, <2>1, <2>4, <2>5
<1>11. ASSUME NEW t \in Threads, BeginUnlocked(t) PROVE StepGoal
  BY <1>2, <1>7, <1>11 DEF BeginUnlocked, zkVars, PC
<1>12. ASSUME NEW t \in Threads, SetKey(t) PROVE StepGoal
  <2>1. UNCHANGED <<log, view, watch, queue, ready, handling, owner, pc>>
        /\ turns' \in Nat /\ sets' \in Nat /\ resets' \in Nat /\ faults' \in Nat
        /\ badSyncs' \in Nat
    BY <1>2, <1>12 DEF SetKey, zkVars
  <2>2. mine' \in [Threads -> State]
    BY <1>2, <1>12 DEF SetKey, State
  <2>3. cache' \in [Procs -> Cache]
    <3> DEFINE q == ProcOf[t]
               c == [cache[q] EXCEPT !.state = cache[q].state \cup {sets}]
    <3>1. q \in Procs /\ cache[q] \in Cache
      BY <1>2, <1>3
    <3>2. cache' = [cache EXCEPT ![q] = c]
      BY <1>2, <1>12 DEF SetKey
    <3>3. c \in Cache
      BY <1>2, <3>1 DEF Cache, State
    <3> HIDE DEF c, q
    <3> QED BY <1>2, <3>1, <3>2, <3>3
  <2> QED BY <1>2, <1>7, <2>1, <2>2, <2>3
<1>13. ASSUME NEW t \in Threads, Reset(t) PROVE StepGoal
  <2>1. ThreadsTyped /\ UNCHANGED <<log, view, queue>>
    BY <1>2, <1>13 DEF Reset
  <2>2. /\ watch' \in [Procs -> BOOLEAN] /\ ready' \in [Procs -> BOOLEAN]
        /\ cache' \in [Procs -> Cache]
        /\ \A o \in Procs : FlagRight(queue[o], watch'[o], ready'[o])
    BY <1>1, <1>3, <1>13, LoadEffect DEF Reset
  <2> QED BY <1>2, <2>1, <2>2
<1>14. ASSUME NEW t \in Threads, Finish(t) PROVE StepGoal
  <2>1. UNCHANGED <<log, view, watch, queue, ready, handling, cache, turns, sets,
                    resets, faults, badSyncs>>
    BY <1>14 DEF Finish, zkVars, counters
  <2>2. /\ owner' \in Threads \cup {NoThread} /\ pc' \in [Threads -> PC]
        /\ mine' \in [Threads -> State]
    BY <1>2, <1>14 DEF Finish, PC, State
  <2> QED BY <1>2, <1>7, <2>1, <2>2
<1>15. ASSUME NEW t \in Threads, NEW u \in program.unconditional, Publish(t, u)
       PROVE  StepGoal
  <2>1. PICK hist \in Seq(State), ver \in Nat :
          /\ Cached(ProcOf[t], hist, ver)
          /\ Wrote(ProcOf[t], u, hist, ver) \/ WroteNothing(ProcOf[t], ver)
    BY <1>1, <1>3, <1>15, PublishEffect
  <2>2. PublishFrame(t) /\ (faults' = faults \/ faults' = faults + 1)
    BY <1>1, <1>3, <1>15, PublishEffect
  <2>3. ThreadsTyped /\ ready' = ready
    BY <1>2, <2>2 DEF PublishFrame, PC
  <2>4. cache' \in [Procs -> Cache]
    BY <1>1, <1>3, <2>1, CachedEffect
  <2>5. CASE Wrote(ProcOf[t], u, hist, ver)
    <3>1. PICK n \in 1 .. 2 : Write(ProcOf[t], hist, n)
      BY <2>5 DEF Wrote
    <3>2. ProcOf[t] \in Procs
      BY <1>3
    <3>3. /\ log' \in Seq(Record) /\ view' \in [Procs -> Nat]
          /\ watch' \in [Procs -> BOOLEAN] /\ queue' \in [Procs -> Seq(Item)]
          /\ \A o \in Procs : FlagRight(queue'[o], watch'[o], ready[o])
      BY <1>1, <3>1, <3>2, WriteEffect
    <3> QED BY <1>2, <2>3, <2>4, <3>3
  <2>6. CASE WroteNothing(ProcOf[t], ver)
    BY <1>2, <1>7, <2>3, <2>4, <2>6 DEF WroteNothing, zkVars
  <2> QED BY <2>1, <2>5, <2>6
<1>16. ASSUME NEW p \in Procs, CatchUp(p) PROVE StepGoal
  <2>1. ThreadsTyped /\ UNCHANGED <<log, ready, cache>>
    BY <1>2, <1>16 DEF CatchUp, counters
  <2>2. Apply(p, view[p] + 1) /\ view[p] + 1 \in Nat
    BY <1>4, <1>16 DEF CatchUp
  <2>3. /\ view' \in [Procs -> Nat] /\ watch' \in [Procs -> BOOLEAN]
        /\ queue' \in [Procs -> Seq(Item)]
        /\ \A o \in Procs : FlagRight(queue'[o], watch'[o], ready[o])
    BY <1>1, <2>2, ApplyEffect
  <2> QED BY <1>2, <2>1, <2>3
<1>17. ASSUME NEW p \in Procs, HandleSync(p) PROVE StepGoal
  <2>1. UNCHANGED <<log, view, watch, ready, handling, cache, owner, mine, turns, sets,
                    resets, faults, badSyncs>>
    BY <1>17 DEF HandleSync, counters
  <2>2. pc' \in [Threads -> PC]
    BY <1>2, <1>17 DEF HandleSync, PC
  <2>3. /\ queue[p] \in Seq(Item) /\ queue[p] # <<>> /\ Head(queue[p]) \in Threads
        /\ queue' = [queue EXCEPT ![p] = Tail(queue[p])]
    BY <1>2, <1>17 DEF HandleSync
  <2>4. Tail(queue[p]) \in Seq(Item)
    BY <2>3, TailShifts
  <2>5. FlagRight(Tail(queue[p]), watch[p], ready[p])
    BY <1>1, <1>2, <2>3, TailMarker DEF FlagsRight
  <2>6. ASSUME NEW o \in Procs PROVE FlagRight(queue'[o], watch'[o], ready'[o])
    <3>1. CASE o = p
      <4>1. queue'[o] = Tail(queue[p]) /\ watch'[o] = watch[p] /\ ready'[o] = ready[p]
        BY <1>2, <2>1, <2>3, <3>1
      <4> QED BY <2>5, <4>1
    <3>2. CASE o # p
      <4>1. queue'[o] = queue[o] /\ watch'[o] = watch[o] /\ ready'[o] = ready[o]
        BY <1>2, <2>1, <2>3, <3>2
      <4> QED BY <1>1, <4>1 DEF FlagsRight
    <3> QED BY <3>1, <3>2
  <2>7. queue' \in [Procs -> Seq(Item)]
    BY <1>2, <2>3, <2>4
  <2> QED BY <1>2, <2>1, <2>2, <2>6, <2>7
<1>18. ASSUME NEW p \in Procs, HandleChange(p) PROVE StepGoal
  <2>1. UNCHANGED <<log, view, watch, cache, owner, pc, mine, turns, sets,
                    resets, faults, badSyncs>>
    BY <1>18 DEF HandleChange, counters
  <2>2. ready' = [ready EXCEPT ![p] = FALSE] /\ handling' \in [Procs -> BOOLEAN]
    BY <1>2, <1>18 DEF HandleChange
  <2>3. /\ queue[p] \in Seq(Item) /\ queue[p] # <<>> /\ Head(queue[p]) = "change"
        /\ queue' = [queue EXCEPT ![p] = Tail(queue[p])]
    BY <1>2, <1>18 DEF HandleChange
  <2>4. Tail(queue[p]) \in Seq(Item)
    BY <2>3, TailShifts
  <2>5. FlagRight(Tail(queue[p]), watch[p], FALSE)
    BY <1>1, <1>2, <2>3, TailChange DEF FlagsRight
  <2>6. ASSUME NEW o \in Procs PROVE FlagRight(queue'[o], watch'[o], ready'[o])
    <3>1. CASE o = p
      <4>1. queue'[o] = Tail(queue[p]) /\ watch'[o] = watch[p] /\ ready'[o] = FALSE
        BY <1>2, <2>1, <2>2, <2>3, <3>1
      <4> QED BY <2>5, <4>1
    <3>2. CASE o # p
      <4>1. queue'[o] = queue[o] /\ watch'[o] = watch[o] /\ ready'[o] = ready[o]
        BY <1>2, <2>1, <2>2, <2>3, <3>2
      <4> QED BY <1>1, <4>1 DEF FlagsRight
    <3> QED BY <3>1, <3>2
  <2>7. queue' \in [Procs -> Seq(Item)] /\ ready' \in [Procs -> BOOLEAN]
    BY <1>2, <2>2, <2>3, <2>4
  <2> QED BY <1>2, <2>1, <2>2, <2>6, <2>7
<1>19. ASSUME NEW p \in Procs, FinishChange(p) PROVE StepGoal
  <2>1. ThreadsTyped /\ UNCHANGED <<log, view, queue>>
    BY <1>2, <1>19 DEF FinishChange, counters
  <2>2. /\ watch' \in [Procs -> BOOLEAN] /\ ready' \in [Procs -> BOOLEAN]
        /\ cache' \in [Procs -> Cache]
        /\ \A o \in Procs : FlagRight(queue[o], watch'[o], ready'[o])
    BY <1>1, <1>19, LoadEffect DEF FinishChange
  <2> QED BY <1>2, <2>1, <2>2
<1> QED BY NextCases, <1>8, <1>9, <1>10, <1>11, <1>12, <1>13, <1>14, <1>15, <1>16,
           <1>17, <1>18, <1>19

\* Every step keeps the log and the caches one behind the other.
LEMMA LogStep ==
  ASSUME IInv, Next
  PROVE  SeenIsWritten' /\ NoLostUpdate'
<1>1. /\ TypeOK /\ FlagsRight /\ SeenIsWritten /\ CacheExtendsVersion /\ NoLostUpdate
      /\ program' = program
  BY FlagsOfReady, NextCases DEF IInv, NoLostUpdate
<1>2. /\ log \in Seq(Record) /\ view \in [Procs -> Nat] /\ cache \in [Procs -> Cache]
      /\ \A x \in program.unconditional : x \in BOOLEAN
      /\ ProcOf \in [Threads -> Procs] /\ sets \in Nat
  BY <1>1, CachedStateAssumption DEF TypeOK
<1>3. /\ Latest \in Nat
      /\ \A p \in Procs : /\ view[p] \in Nat /\ view[p] <= Latest
                          /\ cache[p].ver \in 0 .. view[p]
                          /\ cache[p].ver \in 0 .. Latest
                          /\ At(cache[p].ver).state \subseteq cache[p].state
  <2>1. Latest \in Nat
    BY <1>2 DEF Latest
  <2>2. ASSUME NEW p \in Procs
        PROVE  /\ view[p] \in Nat /\ cache[p].ver \in Nat
               /\ view[p] <= Latest /\ cache[p].ver <= view[p]
               /\ At(cache[p].ver).state \subseteq cache[p].state
    BY <1>1, <1>2 DEF SeenIsWritten, CacheExtendsVersion, Cache
  <2> QED BY <2>1, <2>2
<1>4. TRUE \notin program.unconditional =>
        \A v \in 1 .. Latest - 1 : log[v].state \subseteq log[v + 1].state
  BY <1>1 DEF NoLostUpdate
<1> DEFINE SeenGoal == \A o \in Procs : view'[o] <= Latest'
           CacheGoal == \A o \in Procs :
             /\ cache'[o].ver <= view'[o]
             /\ (At(cache[o].ver))'.state \subseteq cache'[o].state
           LogGoal == TRUE \notin program.unconditional =>
             \A v \in 1 .. Latest' - 1 : log'[v].state \subseteq log'[v + 1].state
           StepGoal == SeenGoal /\ CacheGoal /\ LogGoal
<1>5. SeenGoal /\ CacheGoal /\ LogGoal => SeenIsWritten' /\ NoLostUpdate'
  BY <1>1 DEF SeenIsWritten, NoLostUpdate, CacheExtendsVersion
<1>6. SUFFICES StepGoal
  BY <1>5
<1>7. ASSUME UNCHANGED log
      PROVE  Latest' = Latest /\ LogGoal
  BY <1>4, <1>7 DEF Latest
<1>8. ASSUME UNCHANGED <<log, view>>,
             \A o \in Procs : /\ cache'[o].ver = cache[o].ver
                              /\ cache[o].state \subseteq cache'[o].state
      PROVE  SeenGoal /\ CacheGoal /\ LogGoal
  <2>1. ASSUME NEW o \in Procs
        PROVE  /\ view'[o] <= Latest'
               /\ cache'[o].ver <= view'[o]
               /\ (At(cache[o].ver))'.state \subseteq cache'[o].state
    <3>1. (At(cache[o].ver))' = At(cache[o].ver)
      BY <1>8 DEF At
    <3> QED BY <1>3, <1>7, <1>8, <3>1
  <2>2. LogGoal
    BY <1>7, <1>8
  <2> QED BY <2>1, <2>2
<1>9. ASSUME UNCHANGED <<log, cache>>, NEW p \in Procs, NEW v \in Nat,
             view[p] <= v, v <= Latest, Apply(p, v)
      PROVE  SeenGoal /\ CacheGoal /\ LogGoal
  <2>1. view' = [view EXCEPT ![p] = v]
    BY <1>9 DEF Apply
  <2>2. \A o \in Procs : view[o] <= view'[o] /\ view'[o] <= Latest /\ view'[o] \in Nat
    BY <1>2, <1>3, <1>9, <2>1
  <2>3. CacheGoal
    BY <1>3, <1>9, <2>2 DEF At
  <2> QED BY <1>7, <1>9, <2>2, <2>3
<1>10. ASSUME UNCHANGED <<log, view>>, NEW p \in Procs, Load(p)
       PROVE  SeenGoal /\ CacheGoal /\ LogGoal
  <2>1. /\ \A o \in Procs : o # p => cache'[o] = cache[o]
        /\ cache[p].ver < view[p] =>
             cache'[p].ver = view[p] /\ cache'[p].state = At(view[p]).state
        /\ ~(cache[p].ver < view[p]) => cache'[p] = cache[p]
    BY <1>1, <1>10, LoadEffect
  <2>2. ASSUME NEW o \in Procs
        PROVE  /\ cache'[o].ver <= view'[o]
               /\ (At(cache[o].ver))'.state \subseteq cache'[o].state
    <3>1. (At(cache[o].ver))' = At(cache'[o].ver)
      BY <1>10 DEF At
    <3>2. CASE cache'[o] = cache[o]
      BY <1>3, <1>10, <3>1, <3>2
    <3>3. CASE cache'[o].ver = view[o] /\ cache'[o].state = At(view[o]).state
      BY <1>3, <1>10, <3>1, <3>3
    <3> QED BY <2>1, <3>2, <3>3
  <2> QED BY <1>3, <1>7, <1>10, <2>2
<1>11. ASSUME NEW t \in Threads, SyncCompletes(t) PROVE StepGoal
  <2>1. CASE Apply(ProcOf[t], Latest)
    <3>1. ProcOf[t] \in Procs /\ UNCHANGED <<log, cache>>
      BY <1>2, <1>11 DEF SyncCompletes
    <3>2. view[ProcOf[t]] <= Latest /\ Latest <= Latest
      BY <1>3, <3>1
    <3> QED BY <1>3, <1>9, <2>1, <3>1, <3>2
  <2>2. CASE UNCHANGED <<view, watch, queue>>
    BY <1>8, <1>11, <2>2 DEF SyncCompletes
  <2> QED BY <1>11, <2>1, <2>2 DEF SyncCompletes
<1>12. ASSUME NEW p \in Procs, CatchUp(p) PROVE StepGoal
  <2>1. /\ Apply(p, view[p] + 1) /\ UNCHANGED <<log, cache>>
        /\ view[p] + 1 \in Nat /\ view[p] <= view[p] + 1 /\ view[p] + 1 <= Latest
    BY <1>3, <1>12 DEF CatchUp
  <2> QED BY <1>9, <2>1
<1>13. ASSUME NEW t \in Threads, SetKey(t) PROVE StepGoal
  <2> DEFINE q == ProcOf[t]
             c == [cache[q] EXCEPT !.state = cache[q].state \cup {sets}]
  <2>1. q \in Procs /\ cache[q] \in Cache
    BY <1>2
  <2>2. cache' = [cache EXCEPT ![q] = c] /\ UNCHANGED <<log, view>>
    BY <1>2, <1>13 DEF SetKey, zkVars
  <2>3. c.ver = cache[q].ver /\ c.state = cache[q].state \cup {sets}
    BY <2>1 DEF Cache
  <2> HIDE DEF c, q
  <2>4. ASSUME NEW o \in Procs
        PROVE  cache'[o].ver = cache[o].ver /\ cache[o].state \subseteq cache'[o].state
    BY <1>2, <2>1, <2>2, <2>3
  <2> QED BY <1>8, <2>2, <2>4
<1>14. ASSUME NEW t \in Threads, NEW u \in program.unconditional, Publish(t, u)
       PROVE  StepGoal
  <2> DEFINE p == ProcOf[t]
  <2>1. p \in Procs /\ u \in BOOLEAN
    BY <1>2
  <2>2. PICK hist \in Seq(State), ver \in Nat :
          /\ Cached(p, hist, ver)
          /\ Wrote(p, u, hist, ver) \/ WroteNothing(p, ver)
    BY <1>1, <1>14, <2>1, PublishEffect
  <2> HIDE DEF p
  <2>3. /\ \A o \in Procs : o # p => cache'[o] = cache[o]
        /\ cache'[p].ver = ver /\ cache'[p].state = cache[p].state
    BY <1>1, <2>1, <2>2, CachedEffect
  <2>4. CASE WroteNothing(p, ver)
    <3>1. UNCHANGED <<log, view>> /\ ver = cache[p].ver
      BY <2>4 DEF WroteNothing, zkVars
    <3>2. ASSUME NEW o \in Procs
          PROVE  cache'[o].ver = cache[o].ver /\ cache'[o].state = cache[o].state
      BY <2>3, <3>1
    <3> QED BY <1>8, <3>1, <3>2
  <2>5. CASE Wrote(p, u, hist, ver)
    <3>1. PICK n \in 1 .. 2 :
            /\ Write(p, hist, n)
            /\ ver = Latest + n \/ ver = cache[p].ver
            /\ u \/ (n = 1 /\ cache[p].ver = Latest)
      BY <2>5 DEF Wrote
    <3>2. /\ Latest' = Latest + n
          /\ \A v \in 0 .. Latest : At(v)' = At(v)
          /\ \A v \in Latest + 1 .. Latest + n : At(v)'.state = cache[p].state
          /\ \A v \in 1 .. Latest : log'[v] = log[v]
          /\ \A v \in Latest + 1 .. Latest + n : log'[v].state = cache[p].state
          /\ view' = [view EXCEPT ![p] = Latest + n]
      BY <1>1, <2>1, <3>1, WriteEffect
    <3>3. view'[p] = Latest + n /\ \A o \in Procs : o # p => view'[o] = view[o]
      BY <1>2, <2>1, <3>2
    <3>4. SeenGoal
      BY <1>3, <3>2, <3>3
    <3>5. \A v \in 0 .. Latest : (IF v = 0 THEN Empty ELSE log'[v]) = At(v)
      BY <3>2 DEF At
    <3>6. \A v \in Latest + 1 .. Latest + n :
            (IF v = 0 THEN Empty ELSE log'[v]).state = cache[p].state
      BY <1>3, <3>2
    <3>7. ASSUME NEW o \in Procs
          PROVE  /\ cache'[o].ver <= view'[o]
                 /\ (At(cache[o].ver))'.state \subseteq cache'[o].state
      <4>1. (At(cache[o].ver))' = IF cache'[o].ver = 0 THEN Empty ELSE log'[cache'[o].ver]
        BY DEF At
      <4>2. CASE o # p
        <5>1. cache'[o] = cache[o] /\ view'[o] = view[o]
          BY <2>3, <3>3, <4>2
        <5>2. (At(cache[o].ver))' = At(cache[o].ver)
          BY <1>3, <3>5, <4>1, <5>1
        <5> QED BY <1>3, <5>1, <5>2
      <4>3. CASE o = p /\ ver = cache[p].ver
        <5>1. (At(cache[o].ver))' = At(cache[o].ver)
          BY <1>3, <2>1, <2>3, <3>5, <4>1, <4>3
        <5> QED BY <1>3, <2>1, <2>3, <3>3, <4>3, <5>1
      <4>4. CASE o = p /\ ver = Latest + n
        <5>1. Latest + n \in Latest + 1 .. Latest + n
          BY <1>3
        <5>2. (At(cache[o].ver))'.state = cache[p].state
          BY <2>3, <3>6, <4>1, <4>4, <5>1
        <5> QED BY <1>3, <2>3, <3>3, <4>4, <5>2
      <4> QED BY <3>1, <4>2, <4>3, <4>4
    <3>8. LogGoal
      <4> SUFFICES ASSUME TRUE \notin program.unconditional, NEW v \in 1 .. Latest' - 1
                   PROVE  log'[v].state \subseteq log'[v + 1].state
        OBVIOUS
      <4>1. u = FALSE
        BY <1>14, <2>1
      <4>2. n = 1 /\ cache[p].ver = Latest /\ v \in 1 .. Latest
        BY <1>3, <3>1, <3>2, <4>1
      <4>3. CASE v < Latest
        <5>1. v \in 1 .. Latest - 1 /\ v + 1 \in 1 .. Latest
          BY <1>3, <4>2, <4>3
        <5> QED BY <1>4, <3>2, <4>2, <5>1
      <4>4. CASE v = Latest
        <5>1. log'[v + 1].state = cache[p].state
          BY <1>3, <3>2, <4>2, <4>4
        <5>2. log'[v] = log[v] /\ log[v] = At(cache[p].ver)
          BY <1>3, <3>2, <4>2, <4>4 DEF At
        <5> QED BY <1>3, <2>1, <5>1, <5>2
      <4> QED BY <1>3, <4>2, <4>3, <4>4
    <3> QED BY <3>4, <3>7, <3>8
  <2> QED BY <2>2, <2>4, <2>5
<1>15. ASSUME NEW t \in Threads,
              Acquire(t) \/ Inject(t) \/ BeginUnlocked(t) \/ Finish(t)
       PROVE  StepGoal
  BY <1>8, <1>15 DEF Acquire, Inject, BeginUnlocked, Finish, zkVars
<1>16. ASSUME NEW p \in Procs, HandleSync(p) \/ HandleChange(p)
       PROVE  StepGoal
  BY <1>8, <1>16 DEF HandleSync, HandleChange
<1>17. ASSUME NEW t \in Threads, Reset(t) PROVE StepGoal
  BY <1>2, <1>10, <1>17 DEF Reset
<1>18. ASSUME NEW p \in Procs, FinishChange(p) PROVE StepGoal
  BY <1>10, <1>18 DEF FinishChange
<1> QED BY NextCases, <1>11, <1>12, <1>13, <1>14, <1>15, <1>16, <1>17, <1>18

\* At the beginning every server, watch and cache is at version zero.
LEMMA InitIInv == Init => IInv
<1> SUFFICES ASSUME Init PROVE IInv
  OBVIOUS
<1>1. TypeOK
  BY CachedStateAssumption DEF Init, TypeOK, Record, State, Cache, PC
<1>2. Latest = 0
  BY DEF Init, Latest
<1>3. FlagsRight
  BY DEF Init, FlagsRight, FlagRight, Changes
<1>4. SeenIsWritten
  BY <1>2 DEF Init, SeenIsWritten
<1>5. NoLostUpdate
  BY <1>2 DEF Init, NoLostUpdate, CacheExtendsVersion, At, Empty
<1> QED BY <1>1, <1>3, <1>4, <1>5, FlagsOfReady DEF IInv

LEMMA IInvStep == IInv /\ [Next]_vars => IInv'
<1> SUFFICES ASSUME IInv, [Next]_vars PROVE IInv'
  OBVIOUS
<1>1. CASE Next
  <2>1. TypeOK' /\ FlagsRight' /\ SeenIsWritten' /\ NoLostUpdate'
    BY <1>1, FlagStep, LogStep
  <2>2. (ReadyTracksWatch <=> TypeOK /\ FlagsRight)'
    BY FlagsOfReady, PTL
  <2> QED BY <2>1, <2>2 DEF IInv
<1>2. CASE UNCHANGED vars
  <2>1. UNCHANGED <<program, log, view, watch, queue, ready, handling, cache, owner, pc,
                    mine, turns, sets, resets, faults, badSyncs>>
    BY <1>2 DEF vars
  <2>2. TypeOK' <=> TypeOK
    BY <2>1 DEF TypeOK
  <2>3. FlagsRight' <=> FlagsRight
    BY <2>1 DEF FlagsRight
  <2>4. SeenIsWritten' <=> SeenIsWritten
    BY <2>1 DEF SeenIsWritten, Latest
  <2>5. CacheExtendsVersion' <=> CacheExtendsVersion
    BY <2>1 DEF CacheExtendsVersion, At
  <2>6. NoLostUpdate' <=> NoLostUpdate
    BY <2>1, <2>5 DEF NoLostUpdate, Latest
  <2>7. (ReadyTracksWatch <=> TypeOK /\ FlagsRight)'
    BY FlagsOfReady, PTL
  <2> QED BY <2>2, <2>3, <2>4, <2>6, <2>7, FlagsOfReady DEF IInv
<1> QED BY <1>1, <1>2

LEMMA IInvAlways == Spec => []IInv
BY InitIInv, IInvStep, PTL DEF Spec

-----------------------------------------------------------------------------
(* Locked uses: the markers *)

\* A change event behind the markers.
LEMMA MarkersAppendChange ==
  ASSUME NEW q \in Seq(Item), NEW p, NEW c, MarkersOf(p, q, c)
  PROVE  MarkersOf(p, Append(q, "change"), c)
<1> DEFINE a == Append(q, "change")
<1>1. DOMAIN a = 1 .. Len(q) + 1 /\ Len(q) \in Nat /\ DOMAIN q = 1 .. Len(q)
  BY DEF Item
<1>2. \A i \in 1 .. Len(q) : a[i] = q[i]
  OBVIOUS
<1>3. a[Len(q) + 1] \notin Threads
  BY CachedStateAssumption
<1> HIDE DEF a
<1>4. \A i \in DOMAIN a : a[i] \in Threads => i \in DOMAIN q /\ a[i] = q[i]
  BY <1>1, <1>2, <1>3
<1>5. ASSUME NEW i \in DOMAIN a, a[i] \in Threads
      PROVE  /\ ProcOf[a[i]] = p /\ c[a[i]] = "await"
             /\ \A j \in DOMAIN a : a[j] = a[i] => j = i
  BY <1>4, <1>5 DEF MarkersOf
<1> QED BY <1>5 DEF MarkersOf, a

\* A marker behind those of other threads.
LEMMA MarkersAppend ==
  ASSUME NEW q \in Seq(Item), NEW t \in Threads, NEW c, c[t] = "await",
         MarkersOf(ProcOf[t], q, c), \A i \in DOMAIN q : q[i] # t
  PROVE  MarkersOf(ProcOf[t], Append(q, t), c) /\ LastMarker(Append(q, t), t)
<1> DEFINE a == Append(q, t)
<1>1. DOMAIN a = 1 .. Len(q) + 1 /\ Len(q) \in Nat /\ DOMAIN q = 1 .. Len(q)
  BY DEF Item
<1>2. \A i \in 1 .. Len(q) : a[i] = q[i]
  OBVIOUS
<1>3. a[Len(q) + 1] = t /\ t # "change"
  BY CachedStateAssumption
<1> HIDE DEF a
<1>4. \A i \in DOMAIN a : \/ i \in DOMAIN q /\ a[i] = q[i] /\ a[i] # t /\ i < Len(q) + 1
                          \/ i = Len(q) + 1 /\ a[i] = t
  BY <1>1, <1>2, <1>3
<1>5. ASSUME NEW i \in DOMAIN a, a[i] \in Threads
      PROVE  /\ ProcOf[a[i]] = ProcOf[t] /\ c[a[i]] = "await"
             /\ \A j \in DOMAIN a : a[j] = a[i] => j = i
  BY <1>4, <1>5 DEF MarkersOf
<1>6. Len(q) + 1 \in DOMAIN a
  BY <1>1
<1>7. LastMarker(a, t)
  BY <1>3, <1>4, <1>6 DEF LastMarker
<1> QED BY <1>5, <1>7 DEF MarkersOf, a

\* The front of the queue taken away.
LEMMA MarkersTail ==
  ASSUME NEW q \in Seq(Item), q # <<>>, NEW p, NEW c, MarkersOf(p, q, c)
  PROVE  /\ MarkersOf(p, Tail(q), c)
         /\ Head(q) \in Threads =>
              /\ ProcOf[Head(q)] = p /\ c[Head(q)] = "await"
              /\ \A i \in DOMAIN Tail(q) : Tail(q)[i] # Head(q)
              /\ LastMarker(q, Head(q)) => Changes(q) = {}
         /\ \A t \in Threads :
              Head(q) = "change" /\ LastMarker(q, t) => LastMarker(Tail(q), t)
<1> DEFINE b == Tail(q)
<1>1. /\ Head(q) = q[1] /\ Len(q) \in Nat \ {0} /\ DOMAIN q = 1 .. Len(q)
      /\ DOMAIN b = 1 .. Len(q) - 1
      /\ \A i \in DOMAIN b : b[i] = q[i + 1]
  BY TailShifts
<1> HIDE DEF b
<1>2. 1 \in DOMAIN q /\ \A i \in DOMAIN b : i \in Nat \ {0} /\ i + 1 \in DOMAIN q
  BY <1>1
<1>3. ASSUME NEW i \in DOMAIN b, b[i] \in Threads
      PROVE  /\ ProcOf[b[i]] = p /\ c[b[i]] = "await"
             /\ \A j \in DOMAIN b : b[j] = b[i] => j = i
  <2>1. ProcOf[b[i]] = p /\ c[b[i]] = "await"
    BY <1>1, <1>2, <1>3 DEF MarkersOf
  <2>2. ASSUME NEW j \in DOMAIN b, b[j] = b[i] PROVE j = i
    <3>1. q[j + 1] = q[i + 1] /\ q[i + 1] \in Threads
      BY <1>1, <1>3, <2>2
    <3>2. j + 1 = i + 1
      BY <1>2, <3>1 DEF MarkersOf
    <3> QED BY <1>2, <3>2
  <2> QED BY <2>1, <2>2
<1>4. ASSUME q[1] \in Threads
      PROVE  /\ ProcOf[q[1]] = p /\ c[q[1]] = "await"
             /\ \A i \in DOMAIN b : b[i] # q[1]
             /\ LastMarker(q, q[1]) => Changes(q) = {}
  <2>1. \A j \in DOMAIN q : q[j] = q[1] => j = 1
    BY <1>2, <1>4 DEF MarkersOf
  <2>2. ASSUME NEW i \in DOMAIN b PROVE b[i] # q[1]
    <3>1. i + 1 # 1
      BY <1>2
    <3> QED BY <1>1, <1>2, <2>1, <3>1
  <2>3. ASSUME LastMarker(q, q[1]) PROVE Changes(q) = {}
    <3>1. \A i \in DOMAIN q : q[i] = "change" => i < 1
      BY <2>1, <2>3 DEF LastMarker
    <3>2. \A i \in DOMAIN q : ~(i < 1)
      BY <1>1
    <3> QED BY <3>1, <3>2 DEF Changes
  <2> QED BY <1>2, <1>4, <2>2, <2>3 DEF MarkersOf
<1>5. ASSUME NEW t \in Threads, q[1] = "change", LastMarker(q, t)
      PROVE  LastMarker(b, t)
  <2>1. PICK k \in DOMAIN q : q[k] = t /\ \A i \in DOMAIN q : q[i] = "change" => i < k
    BY <1>5 DEF LastMarker
  <2>2. k # 1
    BY <1>5, <2>1, CachedStateAssumption
  <2>3. k - 1 \in DOMAIN b /\ (k - 1) + 1 = k
    BY <1>1, <2>2
  <2>4. b[k - 1] = t
    BY <1>1, <2>1, <2>3
  <2>5. ASSUME NEW i \in DOMAIN b, b[i] = "change" PROVE i < k - 1
    <3>1. i + 1 < k
      BY <1>1, <1>2, <2>1, <2>5
    <3> QED BY <1>1, <1>2, <3>1
  <2> QED BY <2>3, <2>4, <2>5 DEF LastMarker
<1> QED BY <1>1, <1>3, <1>4, <1>5 DEF MarkersOf, b

\* What Apply does to the watch and the queue of one process.
LEMMA ApplyWatch ==
  ASSUME TypeOK, NEW p \in Procs, NEW v \in Nat, Apply(p, v)
  PROVE  /\ view'[p] = v
         /\ watch'[p] => watch[p] /\ v <= view[p]
         /\ queue'[p] = queue[p] \/ queue'[p] = Append(queue[p], "change")
         /\ \A o \in Procs : o # p =>
              view'[o] = view[o] /\ watch'[o] = watch[o] /\ queue'[o] = queue[o]
<1>1. /\ view \in [Procs -> Nat] /\ watch \in [Procs -> BOOLEAN]
      /\ queue \in [Procs -> Seq(Item)]
  BY DEF TypeOK, Item
<1>2. view' = [view EXCEPT ![p] = v]
  BY DEF Apply
<1>3. CASE watch[p] /\ v > view[p]
  <2>1. /\ watch' = [watch EXCEPT ![p] = FALSE]
        /\ queue' = [queue EXCEPT ![p] = Append(queue[p], "change")]
    BY <1>3 DEF Apply
  <2> QED BY <1>1, <1>2, <2>1
<1>4. CASE ~(watch[p] /\ v > view[p])
  <2>1. watch' = watch /\ queue' = queue
    BY <1>4 DEF Apply
  <2> QED BY <1>1, <1>2, <1>4, <2>1
<1> QED BY <1>3, <1>4

\* A set watch keeps the cache at the server's version, and only the event thread
\* leaves the flag unset.
LEMMA WatchStep ==
  ASSUME IInv, WatchedIsCached, UnreadyIsHandled, Next
  PROVE  WatchedIsCached' /\ UnreadyIsHandled'
<1>1. TypeOK /\ FlagsRight /\ SeenIsWritten /\ CacheExtendsVersion
  BY FlagsOfReady DEF IInv, NoLostUpdate
<1>2. /\ watch \in [Procs -> BOOLEAN] /\ ready \in [Procs -> BOOLEAN]
      /\ handling \in [Procs -> BOOLEAN] /\ cache \in [Procs -> Cache]
      /\ ProcOf \in [Threads -> Procs]
      /\ \A x \in program.unconditional : x \in BOOLEAN
  BY <1>1, CachedStateAssumption DEF TypeOK
<1>3. /\ Latest \in Nat
      /\ \A p \in Procs : /\ view[p] \in Nat /\ cache[p].ver \in Nat
                          /\ view[p] <= Latest /\ cache[p].ver <= view[p]
  BY <1>1 DEF TypeOK, Latest, SeenIsWritten, CacheExtendsVersion, Cache
<1>4. \A p \in Procs : (watch[p] => cache[p].ver = view[p]) /\ (~ready[p] => handling[p])
  BY DEF WatchedIsCached, UnreadyIsHandled
<1> DEFINE W(o) == watch'[o] => cache'[o].ver = view'[o]
           U(o) == ~ready'[o] => handling'[o]
           StepGoal == \A o \in Procs : W(o) /\ U(o)
<1>5. StepGoal => WatchedIsCached' /\ UnreadyIsHandled'
  BY DEF WatchedIsCached, UnreadyIsHandled
<1>6. SUFFICES StepGoal
  BY <1>5
<1>7. ASSUME UNCHANGED <<ready, handling>> PROVE \A o \in Procs : U(o)
  BY <1>4, <1>7
<1>8. ASSUME UNCHANGED <<view, watch>>, \A o \in Procs : cache'[o].ver = cache[o].ver
      PROVE  \A o \in Procs : W(o)
  BY <1>4, <1>8
<1>9. ASSUME UNCHANGED cache, NEW p \in Procs, NEW v \in Nat, view[p] <= v, Apply(p, v)
      PROVE  \A o \in Procs : W(o)
  <2>1. /\ view'[p] = v /\ (watch'[p] => watch[p] /\ v <= view[p])
        /\ \A o \in Procs : o # p => view'[o] = view[o] /\ watch'[o] = watch[o]
    BY <1>1, <1>9, ApplyWatch
  <2>2. ASSUME NEW o \in Procs, watch'[o] PROVE cache'[o].ver = view'[o]
    <3>1. CASE o = p
      <4>1. watch[p] /\ v = view[p]
        BY <1>3, <1>9, <2>1, <2>2, <3>1
      <4> QED BY <1>4, <1>9, <2>1, <3>1, <4>1
    <3>2. CASE o # p
      BY <1>4, <1>9, <2>1, <2>2, <3>2
    <3> QED BY <3>1, <3>2
  <2> QED BY <2>2
<1>10. ASSUME UNCHANGED view, NEW p \in Procs, Load(p)
       PROVE  /\ \A o \in Procs : W(o)
              /\ ready'[p] = TRUE /\ \A o \in Procs : o # p => ready'[o] = ready[o]
  <2>1. /\ \A o \in Procs : o # p => cache'[o] = cache[o]
        /\ cache[p].ver < view[p] => cache'[p].ver = view[p]
        /\ ~(cache[p].ver < view[p]) => cache'[p] = cache[p]
    BY <1>1, <1>10, LoadEffect
  <2>2. cache'[p].ver = view[p]
    BY <1>3, <2>1
  <2>3. \A o \in Procs : o # p => watch'[o] = watch[o] /\ ready'[o] = ready[o]
    BY <1>2, <1>10 DEF Load
  <2>4. ready'[p] = TRUE
    BY <1>2, <1>10 DEF Load
  <2>5. ASSUME NEW o \in Procs PROVE W(o)
    <3>1. CASE o = p
      BY <1>10, <2>2, <3>1
    <3>2. CASE o # p
      BY <1>4, <1>10, <2>1, <2>3, <3>2
    <3> QED BY <3>1, <3>2
  <2> QED BY <2>3, <2>4, <2>5
<1>11. ASSUME NEW t \in Threads, SyncCompletes(t) PROVE StepGoal
  <2>1. UNCHANGED <<ready, handling, cache>>
    BY <1>11 DEF SyncCompletes
  <2>2. CASE Apply(ProcOf[t], Latest)
    <3>1. ProcOf[t] \in Procs /\ view[ProcOf[t]] <= Latest
      BY <1>2, <1>3
    <3> QED BY <1>3, <1>7, <1>9, <2>1, <2>2, <3>1
  <2>3. CASE UNCHANGED <<view, watch, queue>>
    BY <1>7, <1>8, <2>1, <2>3
  <2> QED BY <1>11, <2>2, <2>3 DEF SyncCompletes
<1>12. ASSUME NEW p \in Procs, CatchUp(p) PROVE StepGoal
  <2>1. /\ Apply(p, view[p] + 1) /\ UNCHANGED <<ready, handling, cache>>
        /\ view[p] + 1 \in Nat /\ view[p] <= view[p] + 1
    BY <1>3, <1>12 DEF CatchUp
  <2> QED BY <1>7, <1>9, <2>1
<1>13. ASSUME NEW t \in Threads, SetKey(t) PROVE StepGoal
  <2> DEFINE q == ProcOf[t]
             c == [cache[q] EXCEPT !.state = cache[q].state \cup {sets}]
  <2>1. q \in Procs /\ cache[q] \in Cache
    BY <1>2
  <2>2. cache' = [cache EXCEPT ![q] = c] /\ UNCHANGED <<view, watch, ready, handling>>
    BY <1>2, <1>13 DEF SetKey, zkVars
  <2>3. c.ver = cache[q].ver
    BY <2>1 DEF Cache
  <2> HIDE DEF c, q
  <2>4. \A o \in Procs : cache'[o].ver = cache[o].ver
    BY <1>2, <2>1, <2>2, <2>3
  <2> QED BY <1>7, <1>8, <2>2, <2>4
<1>14. ASSUME NEW t \in Threads, NEW u \in program.unconditional, Publish(t, u)
       PROVE  StepGoal
  <2> DEFINE p == ProcOf[t]
  <2>1. p \in Procs /\ u \in BOOLEAN
    BY <1>2
  <2>2. PICK hist \in Seq(State), ver \in Nat :
          /\ Cached(p, hist, ver)
          /\ Wrote(p, u, hist, ver) \/ WroteNothing(p, ver)
    BY <1>1, <1>14, <2>1, PublishEffect
  <2>0. UNCHANGED <<ready, handling>>
    BY <1>14 DEF Publish, PublishFrame
  <2> HIDE DEF p
  <2>3. /\ \A o \in Procs : o # p => cache'[o] = cache[o]
        /\ cache'[p].ver = ver
    BY <1>1, <2>1, <2>2, CachedEffect
  <2>4. CASE WroteNothing(p, ver)
    <3>1. UNCHANGED <<view, watch>> /\ ver = cache[p].ver
      BY <2>4 DEF WroteNothing, zkVars
    <3>2. \A o \in Procs : cache'[o].ver = cache[o].ver
      BY <2>3, <3>1
    <3> QED BY <1>7, <1>8, <2>0, <3>1, <3>2
  <2>5. CASE Wrote(p, u, hist, ver)
    <3>1. PICK n \in 1 .. 2 : Apply(p, Latest + n)
      BY <2>5 DEF Wrote, Write
    <3>2. Latest + n \in Nat /\ ~(Latest + n <= view[p])
      BY <1>3, <2>1
    <3>3. /\ ~watch'[p]
          /\ \A o \in Procs : o # p => view'[o] = view[o] /\ watch'[o] = watch[o]
      BY <1>1, <2>1, <3>1, <3>2, ApplyWatch
    <3>4. \A o \in Procs : W(o)
      BY <1>4, <2>3, <3>3
    <3> QED BY <1>7, <2>0, <3>4
  <2> QED BY <2>2, <2>4, <2>5
<1>15. ASSUME NEW t \in Threads,
              Acquire(t) \/ Inject(t) \/ BeginUnlocked(t) \/ Finish(t)
       PROVE  StepGoal
  <2>1. UNCHANGED <<view, watch, ready, handling, cache>>
    BY <1>15 DEF Acquire, Inject, BeginUnlocked, Finish, zkVars
  <2> QED BY <1>7, <1>8, <2>1
<1>16. ASSUME NEW p \in Procs, HandleSync(p) PROVE StepGoal
  <2>1. UNCHANGED <<view, watch, ready, handling, cache>>
    BY <1>16 DEF HandleSync
  <2> QED BY <1>7, <1>8, <2>1
<1>17. ASSUME NEW p \in Procs, HandleChange(p) PROVE StepGoal
  <2>1. /\ UNCHANGED <<view, watch, cache>>
        /\ ready' = [ready EXCEPT ![p] = FALSE] /\ handling' = [handling EXCEPT ![p] = TRUE]
    BY <1>17 DEF HandleChange
  <2>2. \A o \in Procs : U(o)
    BY <1>2, <1>4, <2>1
  <2> QED BY <1>8, <2>1, <2>2
<1>18. ASSUME NEW t \in Threads, Reset(t) PROVE StepGoal
  <2>1. ProcOf[t] \in Procs /\ Load(ProcOf[t]) /\ UNCHANGED <<view, handling>>
    BY <1>2, <1>18 DEF Reset
  <2>2. \A o \in Procs : U(o)
    BY <1>4, <1>10, <2>1
  <2> QED BY <1>10, <2>1, <2>2
<1>19. ASSUME NEW p \in Procs, FinishChange(p) PROVE StepGoal
  <2>1. Load(p) /\ UNCHANGED view /\ handling' = [handling EXCEPT ![p] = FALSE]
    BY <1>19 DEF FinishChange
  <2>2. \A o \in Procs : U(o)
    BY <1>2, <1>4, <1>10, <2>1
  <2> QED BY <1>10, <2>1, <2>2
<1> QED BY NextCases, <1>11, <1>12, <1>13, <1>14, <1>15, <1>16, <1>17, <1>18, <1>19

\* A marker is in the queue of its thread's process, once, while the thread waits.
LEMMA MarkersStep ==
  ASSUME IInv, Markers, Next
  PROVE  Markers'
<1>1. TypeOK
  BY FlagsOfReady DEF IInv
<1>2. /\ queue \in [Procs -> Seq(Item)] /\ view \in [Procs -> Nat] /\ Latest \in Nat
      /\ ProcOf \in [Threads -> Procs] /\ pc \in [Threads -> PC]
      /\ \A x \in program.unconditional : x \in BOOLEAN
  BY <1>1, CachedStateAssumption, SMTT(30) DEF TypeOK, Item, Latest
<1>3. \A p \in Procs : MarkersOf(p, queue[p], pc)
  BY DEF Markers
<1> DEFINE StepGoal == \A o \in Procs : MarkersOf(o, queue'[o], pc')
<1>4. SUFFICES StepGoal
  BY DEF Markers
<1>5. ASSUME NEW o \in Procs, NEW q, NEW t \in Threads, pc[t] # "await",
             \A s \in Threads : s # t => pc'[s] = pc[s],
             MarkersOf(o, q, pc)
      PROVE  MarkersOf(o, q, pc')
  BY <1>5 DEF MarkersOf
<1>6. ASSUME UNCHANGED queue, NEW t \in Threads, pc[t] # "await",
             \A s \in Threads : s # t => pc'[s] = pc[s]
      PROVE  StepGoal
  BY <1>3, <1>5, <1>6
<1>7. ASSUME NEW p \in Procs, NEW v \in Nat, Apply(p, v)
      PROVE  \A o \in Procs : MarkersOf(o, queue'[o], pc)
  <2>1. /\ queue'[p] = queue[p] \/ queue'[p] = Append(queue[p], "change")
        /\ \A o \in Procs : o # p => queue'[o] = queue[o]
    BY <1>1, <1>7, ApplyWatch
  <2>2. queue[p] \in Seq(Item)
    BY <1>2
  <2>3. MarkersOf(p, Append(queue[p], "change"), pc)
    BY <1>3, <2>2, MarkersAppendChange
  <2> QED BY <1>3, <2>1, <2>3
<1>8. ASSUME NEW t \in Threads, SyncCompletes(t) PROVE StepGoal
  <2>1. pc[t] # "await" /\ \A s \in Threads : s # t => pc'[s] = pc[s]
    BY <1>2, <1>8 DEF SyncCompletes
  <2>2. CASE Apply(ProcOf[t], Latest)
    <3>1. ProcOf[t] \in Procs
      BY <1>2
    <3>2. \A o \in Procs : MarkersOf(o, queue'[o], pc)
      BY <1>2, <1>7, <2>2, <3>1
    <3> QED BY <1>5, <2>1, <3>2
  <2>3. CASE UNCHANGED <<view, watch, queue>>
    BY <1>6, <2>1, <2>3
  <2> QED BY <1>8, <2>2, <2>3 DEF SyncCompletes
<1>9. ASSUME NEW t \in Threads, Inject(t) PROVE StepGoal
  <2> DEFINE q == ProcOf[t]
  <2>1. /\ q \in Procs /\ pc[t] # "await" /\ pc'[t] = "await"
        /\ \A s \in Threads : s # t => pc'[s] = pc[s]
        /\ queue' = [queue EXCEPT ![q] = Append(queue[q], t)]
    BY <1>2, <1>9 DEF Inject
  <2>2. \A o \in Procs : MarkersOf(o, queue[o], pc')
    BY <1>3, <1>5, <2>1
  <2>3. queue[q] \in Seq(Item)
    BY <1>2, <2>1
  <2>4. \A i \in DOMAIN queue[q] : queue[q][i] # t
    BY <1>3, <2>1 DEF MarkersOf
  <2>5. MarkersOf(ProcOf[t], queue[q], pc')
    BY <2>1, <2>2
  <2>6. MarkersOf(q, Append(queue[q], t), pc')
    BY <2>1, <2>3, <2>4, <2>5, MarkersAppend
  <2> HIDE DEF q
  <2>7. queue'[q] = Append(queue[q], t) /\ \A o \in Procs : o # q => queue'[o] = queue[o]
    BY <1>2, <2>1
  <2> QED BY <2>2, <2>6, <2>7
<1>10. ASSUME NEW t \in Threads, NEW u \in program.unconditional, Publish(t, u)
       PROVE  StepGoal
  <2> DEFINE p == ProcOf[t]
  <2>1. p \in Procs /\ u \in BOOLEAN
    BY <1>2
  <2>2. PICK hist \in Seq(State), ver \in Nat :
          Wrote(p, u, hist, ver) \/ WroteNothing(p, ver)
    BY <1>1, <1>10, <2>1, PublishEffect
  <2>3. pc[t] # "await" /\ \A s \in Threads : s # t => pc'[s] = pc[s]
    BY <1>2, <1>10 DEF Publish, PublishFrame
  <2> HIDE DEF p
  <2>4. CASE WroteNothing(p, ver)
    BY <1>6, <2>3, <2>4 DEF WroteNothing, zkVars
  <2>5. CASE Wrote(p, u, hist, ver)
    <3>1. PICK n \in 1 .. 2 : Apply(p, Latest + n)
      BY <2>5 DEF Wrote, Write
    <3>2. Latest + n \in Nat
      BY <1>2
    <3>3. \A o \in Procs : MarkersOf(o, queue'[o], pc)
      BY <1>7, <2>1, <3>1, <3>2
    <3> QED BY <1>5, <2>3, <3>3
  <2> QED BY <2>2, <2>4, <2>5
<1>11. ASSUME NEW t \in Threads,
              \/ Acquire(t) \/ BeginUnlocked(t) \/ SetKey(t) \/ Reset(t) \/ Finish(t)
       PROVE  StepGoal
  <2>1. /\ UNCHANGED queue /\ pc[t] # "await"
        /\ \A s \in Threads : s # t => pc'[s] = pc[s]
    BY <1>2, <1>11 DEF Acquire, BeginUnlocked, SetKey, Reset, Finish, zkVars
  <2> QED BY <1>6, <2>1
<1>12. ASSUME NEW p \in Procs, CatchUp(p) PROVE StepGoal
  <2>1. Apply(p, view[p] + 1) /\ view[p] + 1 \in Nat /\ pc' = pc
    BY <1>2, <1>12 DEF CatchUp
  <2> QED BY <1>7, <2>1
<1>13. ASSUME NEW p \in Procs, FinishChange(p) PROVE StepGoal
  BY <1>3, <1>13 DEF FinishChange
<1>14. ASSUME NEW p \in Procs, HandleChange(p) PROVE StepGoal
  <2>1. /\ queue[p] \in Seq(Item) /\ queue[p] # <<>> /\ pc' = pc
        /\ queue' = [queue EXCEPT ![p] = Tail(queue[p])]
    BY <1>2, <1>14 DEF HandleChange
  <2>2. MarkersOf(p, Tail(queue[p]), pc)
    BY <1>3, <2>1, MarkersTail
  <2> QED BY <1>2, <1>3, <2>1, <2>2
<1>15. ASSUME NEW p \in Procs, HandleSync(p) PROVE StepGoal
  <2> DEFINE t == Head(queue[p])
  <2>1. /\ queue[p] \in Seq(Item) /\ queue[p] # <<>> /\ t \in Threads
        /\ queue' = [queue EXCEPT ![p] = Tail(queue[p])]
        /\ \A s \in Threads : s # t => pc'[s] = pc[s]
    BY <1>2, <1>15 DEF HandleSync
  <2>2. /\ MarkersOf(p, Tail(queue[p]), pc)
        /\ ProcOf[t] = p /\ \A i \in DOMAIN Tail(queue[p]) : Tail(queue[p])[i] # t
    BY <1>3, <2>1, MarkersTail
  <2> HIDE DEF t
  <2>3. MarkersOf(p, Tail(queue[p]), pc')
    BY <2>1, <2>2 DEF MarkersOf
  <2>4. ASSUME NEW o \in Procs, o # p PROVE MarkersOf(o, queue[o], pc')
    BY <1>3, <2>1, <2>2, <2>4 DEF MarkersOf
  <2>5. queue'[p] = Tail(queue[p]) /\ \A o \in Procs : o # p => queue'[o] = queue[o]
    BY <1>2, <2>1
  <2> QED BY <2>3, <2>4, <2>5
<1> QED BY NextCases, <1>8, <1>9, <1>10, <1>11, <1>12, <1>13, <1>14, <1>15

-----------------------------------------------------------------------------
(* Locked uses: the owner *)

\* What the invariant says when every thread locks.
LEMMA LockedFacts ==
  ASSUME LInv, program.locking = Threads
  PROVE  /\ TypeOK /\ FlagsRight /\ SeenIsWritten /\ CacheExtendsVersion
         /\ WatchedIsCached /\ UnreadyIsHandled /\ Markers
         /\ OwnerOnly /\ OwnerSynced /\ MarkerLast /\ EditsLatest /\ CachedIsLogged
         /\ \A s, t \in Threads : pc[s] # "idle" /\ pc[t] # "idle" => s = t
<1>1. OwnerOnly
  BY DEF LInv, Locked
<1>2. \A s, t \in Threads : pc[s] # "idle" /\ pc[t] # "idle" => s = t
  BY <1>1 DEF OwnerOnly
<1> QED BY <1>1, <1>2, FlagsOfReady DEF LInv, Locked, IInv, NoLostUpdate

\* Every thread that is at work has the lock.
LEMMA OwnerStep ==
  ASSUME LInv, program.locking = Threads, Next
  PROVE  OwnerOnly'
<1>1. /\ TypeOK /\ \A s \in Threads : pc[s] # "idle" => owner = s
  BY LockedFacts DEF OwnerOnly
<1>2. /\ pc \in [Threads -> PC] /\ owner \in Threads \cup {NoThread}
      /\ NoThread \notin Threads
  BY <1>1, CachedStateAssumption DEF TypeOK
<1>3. SUFFICES \A s \in Threads : pc'[s] # "idle" => owner' = s
  BY DEF OwnerOnly
<1>4. ASSUME UNCHANGED owner, NEW t \in Threads, pc[t] # "idle",
             \A s \in Threads : s # t => pc'[s] = pc[s]
      PROVE  \A s \in Threads : pc'[s] # "idle" => owner' = s
  BY <1>1, <1>4
<1>5. ASSUME NEW t \in Threads, Acquire(t)
      PROVE  \A s \in Threads : pc'[s] # "idle" => owner' = s
  <2>1. /\ owner = NoThread /\ owner' = t
        /\ \A s \in Threads : s # t => pc'[s] = pc[s]
    BY <1>2, <1>5 DEF Acquire
  <2> QED BY <1>1, <1>2, <2>1
<1>6. ASSUME NEW t \in Threads, BeginUnlocked(t) PROVE FALSE
  BY <1>6 DEF BeginUnlocked
<1>7. ASSUME NEW t \in Threads, Finish(t)
      PROVE  \A s \in Threads : pc'[s] # "idle" => owner' = s
  <2>1. /\ pc[t] # "idle" /\ pc'[t] = "idle"
        /\ \A s \in Threads : s # t => pc'[s] = pc[s]
    BY <1>2, <1>7 DEF Finish
  <2> QED BY <1>1, <2>1
<1>8. ASSUME NEW t \in Threads,
             \/ SyncCompletes(t) \/ Inject(t) \/ SetKey(t) \/ Reset(t)
             \/ \E u \in program.unconditional : Publish(t, u)
      PROVE  \A s \in Threads : pc'[s] # "idle" => owner' = s
  <2>1. /\ UNCHANGED owner /\ pc[t] # "idle"
        /\ \A s \in Threads : s # t => pc'[s] = pc[s]
    BY <1>2, <1>8 DEF SyncCompletes, Inject, SetKey, Reset, Publish, PublishFrame
  <2> QED BY <1>4, <2>1
<1>9. ASSUME NEW p \in Procs, CatchUp(p) \/ HandleChange(p) \/ FinishChange(p)
      PROVE  \A s \in Threads : pc'[s] # "idle" => owner' = s
  <2>1. UNCHANGED <<owner, pc>>
    BY <1>9 DEF CatchUp, HandleChange, FinishChange
  <2> QED BY <1>1, <2>1
<1>10. ASSUME NEW p \in Procs, HandleSync(p)
       PROVE  \A s \in Threads : pc'[s] # "idle" => owner' = s
  <2> DEFINE t == Head(queue[p])
  <2>1. queue[p] \in Seq(Item) /\ queue[p] # <<>> /\ MarkersOf(p, queue[p], pc)
    BY <1>1, <1>10, LockedFacts DEF HandleSync, TypeOK, Item, Markers
  <2>2. t \in Threads /\ pc[t] = "await"
    BY <1>10, <2>1, MarkersTail DEF HandleSync
  <2>3. UNCHANGED owner /\ \A s \in Threads : s # t => pc'[s] = pc[s]
    BY <1>2, <1>10 DEF HandleSync
  <2> HIDE DEF t
  <2> QED BY <1>4, <2>2, <2>3
<1> QED BY NextCases, <1>5, <1>6, <1>7, <1>8, <1>9, <1>10

\* What the server of the owner has applied is everything, and the changes it
\* reported are before the owner's marker.
LEMMA SyncedStep ==
  ASSUME LInv, program.locking = Threads, MaxBadSyncs = 0, Next
  PROVE  OwnerSynced' /\ MarkerLast' /\ badSyncs' = 0
<1>1. /\ TypeOK /\ Markers /\ badSyncs = 0
      /\ \A s, t \in Threads : pc[s] # "idle" /\ pc[t] # "idle" => s = t
      /\ \A s \in Threads : pc[s] \in {"inject", "await", "edit"} => view[ProcOf[s]] = Latest
      /\ \A s \in Threads : pc[s] = "await" => LastMarker(queue[ProcOf[s]], s)
  BY LockedFacts DEF OwnerSynced, MarkerLast, LInv
<1>2. /\ pc \in [Threads -> PC] /\ view \in [Procs -> Nat] /\ queue \in [Procs -> Seq(Item)]
      /\ ProcOf \in [Threads -> Procs] /\ Latest \in Nat
      /\ \A p \in Procs : MarkersOf(p, queue[p], pc)
  BY <1>1, CachedStateAssumption, SMTT(30) DEF TypeOK, Item, Latest, Markers
<1> DEFINE Synced == \A s \in Threads :
             pc'[s] \in {"inject", "await", "edit"} => view'[ProcOf[s]] = Latest'
           Last == \A s \in Threads : pc'[s] = "await" => LastMarker(queue'[ProcOf[s]], s)
           StepGoal == Synced /\ Last /\ badSyncs' = 0
<1>3. SUFFICES StepGoal
  BY DEF OwnerSynced, MarkerLast, LastMarker
\* Nobody else is at work when t is.
<1>4. ASSUME NEW t \in Threads, pc[t] # "idle",
             \A s \in Threads : s # t => pc'[s] = pc[s]
      PROVE  \A s \in Threads : s # t => pc'[s] = "idle"
  BY <1>1, <1>4
<1>5. ASSUME NEW t \in Threads, SyncCompletes(t) PROVE StepGoal
  <2>1. /\ pc[t] # "idle" /\ pc'[t] = "inject" /\ log' = log
        /\ \A s \in Threads : s # t => pc'[s] = pc[s]
    BY <1>2, <1>5 DEF SyncCompletes
  <2>2. Apply(ProcOf[t], Latest) /\ badSyncs' = badSyncs
    BY <1>1, <1>5 DEF SyncCompletes
  <2>3. ProcOf[t] \in Procs /\ Latest' = Latest
    BY <1>2, <2>1 DEF Latest
  <2>4. view'[ProcOf[t]] = Latest'
    BY <1>1, <1>2, <2>2, <2>3, ApplyWatch
  <2>5. \A s \in Threads : s # t => pc'[s] = "idle"
    BY <1>4, <2>1
  <2> QED BY <1>1, <2>1, <2>2, <2>4, <2>5
<1>6. ASSUME NEW t \in Threads, Inject(t) PROVE StepGoal
  <2> DEFINE q == ProcOf[t]
  <2>1. /\ q \in Procs /\ pc[t] = "inject" /\ pc'[t] = "await"
        /\ \A s \in Threads : s # t => pc'[s] = pc[s]
        /\ queue' = [queue EXCEPT ![q] = Append(queue[q], t)]
        /\ UNCHANGED <<log, view, badSyncs>>
    BY <1>2, <1>6 DEF Inject, counters
  <2>2. \A s \in Threads : s # t => pc'[s] = "idle"
    BY <1>4, <2>1
  <2>3. MarkersOf(q, queue[q], pc') /\ queue[q] \in Seq(Item)
        /\ \A i \in DOMAIN queue[q] : queue[q][i] # t
    <3>1. MarkersOf(q, queue[q], pc) /\ queue[q] \in Seq(Item)
      BY <1>2, <2>1
    <3>2. \A i \in DOMAIN queue[q] : queue[q][i] # t
      BY <2>1, <3>1 DEF MarkersOf
    <3> QED BY <2>1, <3>1, <3>2 DEF MarkersOf
  <2>4. LastMarker(Append(queue[q], t), t)
    BY <2>1, <2>3, MarkersAppend
  <2>5. queue'[q] = Append(queue[q], t) /\ view'[q] = Latest'
    BY <1>1, <1>2, <2>1 DEF Latest
  <2> QED BY <1>1, <2>1, <2>2, <2>4, <2>5
<1>7. ASSUME NEW t \in Threads, SetKey(t) \/ Reset(t) PROVE StepGoal
  <2>1. UNCHANGED <<log, view, queue, pc, badSyncs>>
    BY <1>7 DEF SetKey, Reset, zkVars
  <2> QED BY <1>1, <2>1 DEF Latest
<1>8. ASSUME NEW t \in Threads, NEW u \in program.unconditional, Publish(t, u)
      PROVE  StepGoal
  <2>1. /\ pc[t] # "idle" /\ pc'[t] = "finish" /\ badSyncs' = badSyncs
        /\ \A s \in Threads : s # t => pc'[s] = pc[s]
    BY <1>2, <1>8 DEF Publish, PublishFrame
  <2>2. \A s \in Threads : s # t => pc'[s] = "idle"
    BY <1>4, <2>1
  <2> QED BY <1>1, <2>1, <2>2
<1>9. ASSUME NEW t \in Threads, Finish(t) \/ Acquire(t) PROVE StepGoal
  <2>1. /\ pc'[t] \in {"idle", "sync"} /\ UNCHANGED <<log, view, queue, badSyncs>>
        /\ \A s \in Threads : s # t => pc'[s] = pc[s]
    BY <1>2, <1>9 DEF Finish, Acquire, zkVars, counters
  <2> QED BY <1>1, <2>1 DEF Latest
<1>10. ASSUME NEW t \in Threads, BeginUnlocked(t) PROVE FALSE
  BY <1>10 DEF BeginUnlocked
<1>11. ASSUME NEW p \in Procs, CatchUp(p) PROVE StepGoal
  <2>1. /\ view[p] < Latest /\ Apply(p, view[p] + 1) /\ view[p] + 1 \in Nat
        /\ UNCHANGED <<log, pc, badSyncs>>
    BY <1>2, <1>11 DEF CatchUp, counters
  <2>2. \A o \in Procs : o # p => view'[o] = view[o] /\ queue'[o] = queue[o]
    BY <1>1, <2>1, ApplyWatch
  <2>3. ASSUME NEW s \in Threads, pc[s] \in {"inject", "await", "edit"}
        PROVE  ProcOf[s] # p /\ ProcOf[s] \in Procs
    BY <1>1, <1>2, <2>1, <2>3
  <2>4. Latest' = Latest
    BY <2>1 DEF Latest
  <2> QED BY <1>1, <2>1, <2>2, <2>3, <2>4
<1>12. ASSUME NEW p \in Procs, FinishChange(p) PROVE StepGoal
  <2>1. UNCHANGED <<log, view, queue, pc, badSyncs>>
    BY <1>12 DEF FinishChange, counters
  <2> QED BY <1>1, <2>1 DEF Latest
<1>13. ASSUME NEW p \in Procs, HandleChange(p) PROVE StepGoal
  <2>1. /\ UNCHANGED <<log, view, pc, badSyncs>>
        /\ queue[p] \in Seq(Item) /\ queue[p] # <<>> /\ Head(queue[p]) = "change"
        /\ queue' = [queue EXCEPT ![p] = Tail(queue[p])]
    BY <1>2, <1>13 DEF HandleChange, counters
  <2>2. \A s \in Threads : LastMarker(queue[p], s) => LastMarker(Tail(queue[p]), s)
    BY <1>2, <2>1, MarkersTail
  <2>3. queue'[p] = Tail(queue[p]) /\ \A o \in Procs : o # p => queue'[o] = queue[o]
    BY <1>2, <2>1
  <2>4. Last
    BY <1>1, <1>2, <2>1, <2>2, <2>3
  <2>5. Synced
    BY <1>1, <2>1 DEF Latest
  <2> QED BY <1>1, <2>1, <2>4, <2>5
<1>14. ASSUME NEW p \in Procs, HandleSync(p) PROVE StepGoal
  <2> DEFINE t == Head(queue[p])
  <2>1. /\ queue[p] \in Seq(Item) /\ queue[p] # <<>> /\ t \in Threads
        /\ UNCHANGED <<log, view, badSyncs>>
        /\ \A s \in Threads : s # t => pc'[s] = pc[s]
        /\ pc'[t] = "edit"
    BY <1>2, <1>14 DEF HandleSync, counters
  <2>2. pc[t] = "await"
    BY <1>2, <2>1, MarkersTail
  <2> HIDE DEF t
  <2>3. \A s \in Threads : s # t => pc'[s] = "idle"
    BY <1>4, <2>1, <2>2
  <2> QED BY <1>1, <2>1, <2>2, <2>3 DEF Latest
<1> QED BY NextCases, <1>5, <1>6, <1>7, <1>8, <1>9, <1>10, <1>11, <1>12, <1>13, <1>14

\* The owner works on the latest version, and what a cache adds to its version is
\* what the owner has set.
LEMMA LatestStep ==
  ASSUME LInv, program.locking = Threads, MaxBadSyncs = 0, Next
  PROVE  EditsLatest' /\ CachedIsLogged'
<1>1. /\ TypeOK /\ FlagsRight /\ SeenIsWritten /\ CacheExtendsVersion
      /\ \A s, t \in Threads : pc[s] # "idle" /\ pc[t] # "idle" => s = t
      /\ \A s \in Threads : pc[s] \in {"inject", "await", "edit"} => view[ProcOf[s]] = Latest
      /\ \A s \in Threads : pc[s] = "await" => LastMarker(queue[ProcOf[s]], s)
      /\ \A s \in Threads : pc[s] = "edit" => cache[ProcOf[s]].ver = Latest
      /\ program' = program
  BY LockedFacts, NextCases DEF OwnerSynced, MarkerLast, EditsLatest
<1>2. /\ pc \in [Threads -> PC] /\ queue \in [Procs -> Seq(Item)]
      /\ cache \in [Procs -> Cache] /\ mine \in [Threads -> State] /\ faults \in Nat
      /\ sets \in Nat
      /\ ProcOf \in [Threads -> Procs] /\ Latest \in Nat
      /\ \A p \in Procs : MarkersOf(p, queue[p], pc)
      /\ \A x \in program.unconditional : x \in BOOLEAN
  BY <1>1, LockedFacts, CachedStateAssumption, SMTT(30) DEF TypeOK, Item, Latest, Markers
<1>3. \A p \in Procs : /\ view[p] \in Nat /\ cache[p].ver \in 0 .. Latest
                       /\ view[p] <= Latest /\ cache[p].ver <= view[p]
  <2>1. ASSUME NEW p \in Procs
        PROVE  /\ view[p] \in Nat /\ cache[p].ver \in Nat
               /\ view[p] <= Latest /\ cache[p].ver <= view[p]
    BY <1>1 DEF TypeOK, SeenIsWritten, CacheExtendsVersion, Cache
  <2> QED BY <1>2, <2>1
<1>4. faults = 0 =>
        /\ \A s \in Threads : pc[s] = "edit" =>
             cache[ProcOf[s]].state = At(cache[ProcOf[s]].ver).state \cup mine[s]
        /\ \A p \in Procs : (\A s \in Threads : ProcOf[s] = p => pc[s] # "edit") =>
             cache[p].state = At(cache[p].ver).state
        /\ \A s \in Threads : pc[s] \notin {"edit", "finish"} => mine[s] = {}
  BY LockedFacts DEF CachedIsLogged
<1> DEFINE Newest == \A s \in Threads : pc'[s] = "edit" => cache'[ProcOf[s]].ver = Latest'
           Edited == \A s \in Threads : pc'[s] = "edit" =>
             cache'[ProcOf[s]].state = (At(cache[ProcOf[s]].ver))'.state \cup mine'[s]
           Others == \A p \in Procs : (\A s \in Threads : ProcOf[s] = p => pc'[s] # "edit") =>
             cache'[p].state = (At(cache[p].ver))'.state
           Begun == \A s \in Threads : pc'[s] \notin {"edit", "finish"} => mine'[s] = {}
           StepGoal == Newest /\ (faults' = 0 => Edited /\ Others /\ Begun)
<1>5. SUFFICES StepGoal
  BY DEF EditsLatest, CachedIsLogged
\* Steps that change neither the log nor a cache nor who edits.
<1>6. ASSUME UNCHANGED <<log, mine, faults>>, \A o \in Procs : cache'[o] = cache[o],
             \A s \in Threads : pc'[s] = "edit" <=> pc[s] = "edit",
             \A s \in Threads :
               pc'[s] \notin {"edit", "finish"} => pc[s] \notin {"edit", "finish"}
      PROVE  StepGoal
  <2>1. Latest' = Latest
    BY <1>6 DEF Latest
  <2>2. \A o \in Procs : (At(cache[o].ver))' = At(cache[o].ver)
    BY <1>6 DEF At
  <2>3. \A s \in Threads : ProcOf[s] \in Procs
    BY <1>2
  <2>4. Newest
    BY <1>1, <1>6, <2>1, <2>3
  <2>5. faults = 0 => Edited
    BY <1>4, <1>6, <2>2, <2>3
  <2>6. faults = 0 => Others
    BY <1>4, <1>6, <2>2
  <2>7. faults = 0 => Begun
    BY <1>4, <1>6
  <2> QED BY <1>6, <2>4, <2>5, <2>6, <2>7
<1>7. ASSUME NEW t \in Threads, Acquire(t) \/ SyncCompletes(t) \/ Inject(t) PROVE StepGoal
  <2>1. /\ UNCHANGED <<log, mine, faults, cache>>
        /\ pc[t] \in {"idle", "sync", "inject"} /\ pc'[t] \in {"sync", "inject", "await"}
        /\ \A s \in Threads : s # t => pc'[s] = pc[s]
    BY <1>2, <1>7 DEF Acquire, SyncCompletes, Inject, zkVars, counters
  <2>2. \A s \in Threads : /\ pc'[s] = "edit" <=> pc[s] = "edit"
                           /\ pc'[s] \notin {"edit", "finish"} =>
                                pc[s] \notin {"edit", "finish"}
    BY <2>1
  <2> QED BY <1>6, <2>1, <2>2
<1>8. ASSUME NEW p \in Procs, CatchUp(p) \/ HandleChange(p) PROVE StepGoal
  <2>1. UNCHANGED <<log, mine, faults, cache, pc>>
    BY <1>8 DEF CatchUp, HandleChange, counters
  <2> QED BY <1>6, <2>1
<1>9. ASSUME NEW t \in Threads, BeginUnlocked(t) PROVE FALSE
  BY <1>9 DEF BeginUnlocked
<1>10. ASSUME NEW t \in Threads, Reset(t) PROVE StepGoal
  <2>1. /\ pc[t] = "edit" /\ Load(ProcOf[t]) /\ ProcOf[t] \in Procs
        /\ UNCHANGED <<log, view, mine, faults, pc>>
    BY <1>2, <1>10 DEF Reset
  <2>2. ~(cache[ProcOf[t]].ver < view[ProcOf[t]])
    BY <1>1, <1>2, <1>3, <2>1
  <2>3. \A o \in Procs : cache'[o] = cache[o]
    BY <1>1, <2>1, <2>2, LoadEffect
  <2> QED BY <1>6, <2>1, <2>3
<1>11. ASSUME NEW p \in Procs, FinishChange(p) PROVE StepGoal
  <2>1. Load(p) /\ UNCHANGED <<log, view, mine, faults, pc>>
    BY <1>11 DEF FinishChange, counters
  <2>2. /\ \A o \in Procs : o # p => cache'[o] = cache[o]
        /\ cache[p].ver < view[p] =>
             cache'[p].ver = view[p] /\ cache'[p].state = At(view[p]).state
        /\ ~(cache[p].ver < view[p]) => cache'[p] = cache[p]
    BY <1>1, <2>1, LoadEffect
  <2>3. CASE ~(cache[p].ver < view[p])
    <3>1. \A o \in Procs : cache'[o] = cache[o]
      BY <2>2, <2>3
    <3> QED BY <1>6, <2>1, <3>1
  <2>4. CASE cache[p].ver < view[p]
    <3>1. \A s \in Threads : ProcOf[s] = p => pc[s] # "edit"
      BY <1>1, <1>2, <1>3, <2>4
    <3>2. Latest' = Latest
      BY <2>1 DEF Latest
    <3>3. \A o \in Procs : (At(cache[o].ver))' = At(cache'[o].ver)
      BY <2>1 DEF At
    <3>4. \A s \in Threads : ProcOf[s] \in Procs
      BY <1>2
    <3>5. Newest
      BY <1>1, <2>1, <2>2, <3>1, <3>2, <3>4
    <3>6. faults = 0 => Edited
      BY <1>4, <2>1, <2>2, <3>1, <3>3, <3>4
    <3>7. faults = 0 => Others
      <4> SUFFICES ASSUME faults = 0, NEW o \in Procs,
                          \A s \in Threads : ProcOf[s] = o => pc'[s] # "edit"
                   PROVE  cache'[o].state = (At(cache[o].ver))'.state
        OBVIOUS
      <4>1. CASE o = p
        BY <2>2, <2>4, <3>3, <4>1
      <4>2. CASE o # p
        BY <1>4, <2>1, <2>2, <3>3, <4>2
      <4> QED BY <4>1, <4>2
    <3>8. faults = 0 => Begun
      BY <1>4, <2>1
    <3> QED BY <2>1, <3>5, <3>6, <3>7, <3>8
  <2> QED BY <2>3, <2>4
<1>12. ASSUME NEW t \in Threads, Finish(t) PROVE StepGoal
  <2>1. /\ UNCHANGED <<log, cache, faults>>
        /\ pc[t] = "finish" /\ pc'[t] = "idle" /\ mine'[t] = {}
        /\ \A s \in Threads : s # t => pc'[s] = pc[s] /\ mine'[s] = mine[s]
    BY <1>2, <1>12 DEF Finish, zkVars, counters
  <2>2. Latest' = Latest /\ \A o \in Procs : (At(cache[o].ver))' = At(cache[o].ver)
    BY <2>1 DEF Latest, At
  <2>3. \A s \in Threads : ProcOf[s] \in Procs
    BY <1>2
  <2>4. Newest
    BY <1>1, <2>1, <2>2, <2>3
  <2>5. faults = 0 => Edited
    BY <1>4, <2>1, <2>2, <2>3
  <2>6. faults = 0 => Others
    <3>1. \A s \in Threads : pc'[s] # "edit" => pc[s] # "edit"
      BY <2>1
    <3> QED BY <1>4, <2>1, <2>2, <3>1
  <2>7. faults = 0 => Begun
    BY <1>4, <2>1
  <2> QED BY <2>1, <2>4, <2>5, <2>6, <2>7
<1>13. ASSUME NEW t \in Threads, SetKey(t) PROVE StepGoal
  <2> DEFINE q == ProcOf[t]
             c == [cache[q] EXCEPT !.state = cache[q].state \cup {sets}]
  <2>1. q \in Procs /\ cache[q] \in Cache
    BY <1>2
  <2>2. /\ cache' = [cache EXCEPT ![q] = c] /\ UNCHANGED <<log, pc, faults>>
        /\ mine'[t] = mine[t] \cup {sets}
        /\ \A s \in Threads : s # t => mine'[s] = mine[s]
        /\ pc[t] = "edit"
    BY <1>2, <1>13 DEF SetKey, zkVars
  <2>3. c.ver = cache[q].ver /\ c.state = cache[q].state \cup {sets}
    BY <2>1 DEF Cache
  <2> HIDE DEF c
  <2>4. cache'[q] = c /\ \A o \in Procs : o # q => cache'[o] = cache[o]
    BY <1>2, <2>1, <2>2
  <2>5. \A s \in Threads : s # t => pc[s] = "idle"
    BY <1>1, <2>2
  <2>6. \A o \in Procs : (At(cache[o].ver))' = At(cache[o].ver)
    <3>1. \A o \in Procs : cache'[o].ver = cache[o].ver
      BY <2>3, <2>4
    <3> QED BY <2>2, <3>1 DEF At
  <2>7. Newest
    <3>1. Latest' = Latest
      BY <2>2 DEF Latest
    <3> QED BY <1>1, <2>2, <2>3, <2>4, <2>5, <3>1
  <2>8. faults = 0 => Edited
    BY <1>4, <2>1, <2>2, <2>3, <2>4, <2>5, <2>6
  <2>9. faults = 0 => Others
    <3> SUFFICES ASSUME faults = 0, NEW o \in Procs,
                        \A s \in Threads : ProcOf[s] = o => pc'[s] # "edit"
                 PROVE  cache'[o].state = (At(cache[o].ver))'.state
      OBVIOUS
    <3>1. \A s \in Threads : ProcOf[s] = o => pc[s] # "edit"
      BY <2>2
    <3>2. o # q
      BY <2>2, <3>1
    <3>3. cache[o].state = At(cache[o].ver).state
      BY <1>4, <3>1
    <3> QED BY <2>4, <2>6, <3>2, <3>3
  <2>10. faults = 0 => Begun
    <3> SUFFICES ASSUME faults = 0, NEW s \in Threads, pc'[s] \notin {"edit", "finish"}
                 PROVE  mine'[s] = {}
      OBVIOUS
    <3>1. s # t /\ pc[s] \notin {"edit", "finish"}
      BY <2>2
    <3> QED BY <1>4, <2>2, <3>1
  <2> QED BY <2>2, <2>7, <2>8, <2>9, <2>10
<1>14. ASSUME NEW p \in Procs, HandleSync(p) PROVE StepGoal
  <2> DEFINE t == Head(queue[p])
  <2>1. /\ queue[p] \in Seq(Item) /\ queue[p] # <<>> /\ t \in Threads
        /\ UNCHANGED <<log, view, cache, mine, faults>>
        /\ \A s \in Threads : s # t => pc'[s] = pc[s]
        /\ pc'[t] = "edit" /\ ~handling[p]
    BY <1>2, <1>14 DEF HandleSync, counters
  <2>2. /\ ProcOf[t] = p /\ pc[t] = "await"
        /\ LastMarker(queue[p], t) => Changes(queue[p]) = {}
    BY <1>2, <2>1, MarkersTail
  <2> HIDE DEF t
  <2>3. \A s \in Threads : s # t => pc[s] = "idle" /\ pc'[s] = "idle"
    BY <1>1, <2>1, <2>2
  <2>4. Changes(queue[p]) = {} /\ view[p] = Latest
    BY <1>1, <2>1, <2>2
  <2>5. watch[p]
    <3>1. ready[p]
      BY <2>1, LockedFacts DEF UnreadyIsHandled
    <3> QED BY <1>1, <2>4, <3>1 DEF FlagsRight, FlagRight
  <2>6. cache[p].ver = Latest
    BY <2>4, <2>5, LockedFacts DEF WatchedIsCached
  <2>7. Latest' = Latest /\ \A o \in Procs : (At(cache[o].ver))' = At(cache[o].ver)
    BY <2>1 DEF Latest, At
  <2>8. Newest
    BY <2>1, <2>2, <2>3, <2>6, <2>7
  <2>9. \A s \in Threads : pc[s] # "edit"
    BY <2>2, <2>3
  <2>10. faults = 0 => Edited
    <3> SUFFICES ASSUME faults = 0 PROVE cache[p].state = At(cache[p].ver).state \cup mine[t]
      BY <2>1, <2>2, <2>3, <2>7
    <3>1. mine[t] = {}
      BY <1>4, <2>1, <2>2
    <3>2. cache[p].state = At(cache[p].ver).state
      BY <1>4, <2>9
    <3> QED BY <3>1, <3>2
  <2>11. faults = 0 => Others
    BY <1>4, <2>1, <2>7, <2>9
  <2>12. faults = 0 => Begun
    BY <1>4, <2>1, <2>2, <2>3
  <2> QED BY <2>1, <2>8, <2>10, <2>11, <2>12
<1>15. ASSUME NEW t \in Threads, NEW u \in program.unconditional, Publish(t, u)
       PROVE  StepGoal
  <2> DEFINE p == ProcOf[t]
  <2>1. p \in Procs /\ u \in BOOLEAN
    BY <1>2
  <2>2. PICK hist \in Seq(State), ver \in Nat :
          /\ Cached(p, hist, ver)
          /\ Wrote(p, u, hist, ver) \/ WroteNothing(p, ver)
    BY <1>1, <1>15, <2>1, PublishEffect
  <2>3. /\ pc[t] = "edit" /\ pc'[t] = "finish" /\ mine' = mine
        /\ \A s \in Threads : s # t => pc'[s] = pc[s]
    BY <1>2, <1>15 DEF Publish, PublishFrame
  <2>4. /\ \A o \in Procs : o # p => cache'[o] = cache[o]
        /\ cache'[p].ver = ver /\ cache'[p].state = cache[p].state
    BY <1>1, <2>1, <2>2, CachedEffect
  <2>5. faults' = faults \/ faults' = faults + 1
    BY <1>1, <1>15, <2>1, PublishEffect
  <2>6. \A s \in Threads : s # t => pc[s] = "idle" /\ pc'[s] = "idle"
    BY <1>1, <2>3
  <2>7. cache[p].ver = Latest
    BY <1>1, <2>3
  <2>8. Newest
    BY <2>3, <2>6
  <2>9. ASSUME faults' = 0 PROVE Edited /\ Begun
    <3>1. faults = 0
      BY <1>2, <2>5, <2>9
    <3>2. \A s \in Threads : s # t => mine[s] = {}
      BY <1>4, <2>6, <3>1
    <3>3. Edited
      BY <2>3, <2>6
    <3>4. Begun
      BY <2>3, <3>2
    <3> QED BY <3>3, <3>4
  <2>10. ASSUME faults' = 0 PROVE Others
    <3>1. faults = 0 /\ faults' # faults + 1
      BY <1>2, <2>5, <2>10
    <3> HIDE DEF p
    <3>2. PICK n \in 1 .. 2 : Write(p, hist, n) /\ ver = Latest + n
      BY <2>2, <2>7, <3>1 DEF Wrote, WroteNothing
    <3>3. /\ \A v \in 0 .. Latest : At(v)' = At(v)
          /\ \A v \in Latest + 1 .. Latest + n : At(v)'.state = cache[p].state
          /\ \A v \in Latest + 1 .. Latest + n : log'[v].state = cache[p].state
      BY <1>1, <2>1, <3>2, WriteEffect
    <3>4. \A v \in 0 .. Latest : (IF v = 0 THEN Empty ELSE log'[v]) = At(v)
      BY <3>3 DEF At
    <3> SUFFICES ASSUME NEW o \in Procs
                 PROVE  \/ cache'[o].state = (At(cache[o].ver))'.state
                        \/ \E s \in Threads : ProcOf[s] = o /\ pc'[s] = "edit"
      OBVIOUS
    <3>5. (At(cache[o].ver))' = IF cache'[o].ver = 0 THEN Empty ELSE log'[cache'[o].ver]
      BY DEF At
    <3>6. CASE o = p
      <4>1. ver \in Latest + 1 .. Latest + n /\ ver # 0
        BY <1>2, <3>2
      <4>2. (At(cache[o].ver))'.state = cache[p].state
        BY <2>4, <3>3, <3>5, <3>6, <4>1
      <4> QED BY <2>4, <3>6, <4>2
    <3>7. CASE o # p
      <4>1. cache'[o] = cache[o] /\ cache[o].ver \in 0 .. Latest
        BY <1>3, <2>4, <3>7
      <4>2. (At(cache[o].ver))' = At(cache[o].ver)
        BY <3>4, <3>5, <4>1
      <4>3. \A s \in Threads : ProcOf[s] = o => pc[s] # "edit"
        BY <2>3, <2>6, <3>7 DEF p
      <4>4. cache[o].state = At(cache[o].ver).state
        BY <1>4, <3>1, <4>3
      <4> QED BY <4>1, <4>2, <4>4
    <3> QED BY <3>6, <3>7
  <2> QED BY <2>8, <2>9, <2>10
<1> QED BY NextCases, <1>7, <1>8, <1>9, <1>10, <1>11, <1>12, <1>13, <1>14, <1>15

\* With a faultless synchronize, LInv is inductive.
LEMMA LInvStep ==
  ASSUME MaxBadSyncs = 0, LInv, [Next]_vars
  PROVE  LInv'
<1>1. IInv'
  BY IInvStep DEF LInv
<1>2. CASE Next
  <2>1. WatchedIsCached' /\ UnreadyIsHandled' /\ Markers'
    BY <1>2, WatchStep, MarkersStep DEF LInv
  <2>2. badSyncs' = 0
    <3>1. badSyncs = 0
      BY DEF LInv
    <3>2. ~(badSyncs < MaxBadSyncs)
      BY <3>1
    <3>3. ASSUME NEW t \in Threads, NEW u, Publish(t, u) PROVE badSyncs' = badSyncs
      BY <3>3 DEF Publish, PublishFrame
    <3>4. ASSUME NEW t \in Threads,
                 \/ Acquire(t) \/ SyncCompletes(t) \/ Inject(t) \/ BeginUnlocked(t)
                 \/ SetKey(t) \/ Reset(t) \/ Finish(t)
          PROVE  badSyncs' = badSyncs
      BY <3>2, <3>4 DEF Acquire, SyncCompletes, Inject, BeginUnlocked, SetKey, Reset,
                        Finish, counters
    <3>5. ASSUME NEW p \in Procs,
                 CatchUp(p) \/ HandleSync(p) \/ HandleChange(p) \/ FinishChange(p)
          PROVE  badSyncs' = badSyncs
      BY <3>5 DEF CatchUp, HandleSync, HandleChange, FinishChange, counters
    <3> QED BY <1>2, NextCases, <3>1, <3>3, <3>4, <3>5
  <2>3. program' = program
    BY <1>2, NextCases
  <2>4. Locked'
    <3> SUFFICES ASSUME program.locking = Threads
                 PROVE  /\ OwnerOnly' /\ OwnerSynced' /\ MarkerLast'
                        /\ EditsLatest' /\ CachedIsLogged'
      BY <2>3 DEF Locked
    <3> QED BY <1>2, OwnerStep, SyncedStep, LatestStep
  <2> QED BY <1>1, <2>1, <2>2, <2>4 DEF LInv
<1>3. CASE UNCHANGED vars
  <2>1. UNCHANGED <<program, log, view, watch, queue, ready, handling, cache, owner, pc,
                    mine, turns, sets, resets, faults, badSyncs>>
    BY <1>3 DEF vars
  <2>2. WatchedIsCached' /\ UnreadyIsHandled' /\ Markers' /\ badSyncs' = 0
    BY <2>1 DEF LInv, WatchedIsCached, UnreadyIsHandled, Markers
  <2>3. OwnerOnly' <=> OwnerOnly
    BY <2>1 DEF OwnerOnly
  <2>4. OwnerSynced' <=> OwnerSynced
    BY <2>1 DEF OwnerSynced, Latest
  <2>5. MarkerLast' <=> MarkerLast
    BY <2>1 DEF MarkerLast
  <2>6. EditsLatest' <=> EditsLatest
    BY <2>1 DEF EditsLatest, Latest
  <2>7. CachedIsLogged' <=> CachedIsLogged
    BY <2>1 DEF CachedIsLogged, At
  <2>8. Locked'
    BY <2>1, <2>3, <2>4, <2>5, <2>6, <2>7 DEF LInv, Locked
  <2> QED BY <1>1, <2>2, <2>8 DEF LInv
<1> QED BY <1>2, <1>3

LEMMA InitLInv == Init => LInv
<1> SUFFICES ASSUME Init PROVE LInv
  OBVIOUS
<1>1. IInv
  BY InitIInv
<1>2. WatchedIsCached /\ UnreadyIsHandled /\ Markers /\ badSyncs = 0
  BY DEF Init, WatchedIsCached, UnreadyIsHandled, Markers, MarkersOf
<1>3. \A t \in Threads : pc[t] = "idle" /\ mine[t] = {}
  BY DEF Init
<1>4. OwnerOnly /\ OwnerSynced /\ MarkerLast /\ EditsLatest
  BY <1>3 DEF OwnerOnly, OwnerSynced, MarkerLast, EditsLatest
<1>5. CachedIsLogged
  BY <1>3 DEF CachedIsLogged, Init, At, Empty
<1> QED BY <1>1, <1>2, <1>4, <1>5 DEF LInv, Locked

-----------------------------------------------------------------------------
(* The theorems *)

\* The flag that says whether a watch must be set is right at every moment (see
\* CachedState), with any number of processes and threads.
THEOREM FlagIsRight == Spec => []ReadyTracksWatch
<1>1. IInv => ReadyTracksWatch
  BY DEF IInv
<1> QED BY <1>1, IInvAlways, PTL

\* Conditional publishes lose no key of an earlier version, and no cache is ahead
\* of what its server has read (see CachedState).
THEOREM UpdatesKept == Spec => []NoLostUpdate
<1>1. IInv => NoLostUpdate
  BY DEF IInv
<1> QED BY <1>1, IInvAlways, PTL

\* When every thread locks and no sync fails, a thread that has acquired the lock
\* works on the latest version until it releases (see CachedState).
THEOREM OwnerSeesLatest ==
  ASSUME MaxBadSyncs = 0
  PROVE  Spec => []LockedSeesLatest
<1>1. LInv /\ [Next]_vars => LInv'
  BY LInvStep
<1>2. LInv => LockedSeesLatest
  <2> SUFFICES ASSUME LInv, program.locking = Threads,
                      NEW t \in Threads, owner = t, pc[t] = "edit"
               PROVE  /\ cache[ProcOf[t]].ver = Latest
                      /\ faults = 0 => cache[ProcOf[t]].state = At(Latest).state \cup mine[t]
    BY DEF LockedSeesLatest
  <2>1. cache[ProcOf[t]].ver = Latest
    BY LockedFacts DEF EditsLatest
  <2>2. faults = 0 =>
          cache[ProcOf[t]].state = At(cache[ProcOf[t]].ver).state \cup mine[t]
    BY LockedFacts DEF CachedIsLogged
  <2> QED BY <2>1, <2>2
<1> QED BY <1>1, <1>2, InitLInv, PTL DEF Spec

-----------------------------------------------------------------------------
(* What is under way, and what never goes back *)

WInv == IInv /\ WatchedIsCached /\ UnreadyIsHandled

LEMMA WInvAlways == Spec => []WInv
<1>1. Init => WInv
  BY InitLInv DEF LInv, WInv
<1>2. WInv /\ [Next]_vars => WInv'
  <2> SUFFICES ASSUME WInv, [Next]_vars PROVE WInv'
    OBVIOUS
  <2>1. IInv'
    BY IInvStep DEF WInv
  <2>2. CASE Next
    BY <2>1, <2>2, WatchStep DEF WInv
  <2>3. CASE UNCHANGED vars
    BY <2>1, <2>3 DEF WInv, WatchedIsCached, UnreadyIsHandled, vars
  <2> QED BY <2>2, <2>3
<1> QED BY <1>1, <1>2, PTL DEF Spec

\* Why a cache can be behind: the server is, or the event thread is at the change or has it
\* before it.  Nothing else has to happen for the cache to catch up.
BehindIsUnderWay ==
  \A p \in Procs : cache[p].ver # Latest =>
    view[p] < Latest \/ handling[p] \/ \E i \in DOMAIN queue[p] : queue[p][i] = "change"

\* A cache that is not at the last version has a way to get there under way, whatever
\* failed before: no lost reply, failed sync, reset or publish leaves a process with an old
\* version and without a watch (cachedobjectchangehandlers.cc, loadDataFromRepository).
\* This is the part of CachesConverge that is safety.
THEOREM StaleIsOnItsWay == Spec => []BehindIsUnderWay
<1>1. WInv => BehindIsUnderWay
  <2> SUFFICES ASSUME WInv, NEW p \in Procs, cache[p].ver # Latest,
                      ~ (view[p] < Latest), ~ handling[p], Changes(queue[p]) = {}
               PROVE  FALSE
    BY DEF BehindIsUnderWay, Changes
  <2>1. TypeOK /\ FlagsRight /\ SeenIsWritten
    BY FlagsOfReady DEF WInv, IInv
  <2>2. view[p] = Latest
    BY <2>1 DEF TypeOK, SeenIsWritten, Latest
  <2>3. ready[p]
    BY DEF WInv, UnreadyIsHandled
  <2>4. watch[p]
    BY <2>1, <2>3 DEF FlagsRight, FlagRight
  <2> QED BY <2>2, <2>4 DEF WInv, WatchedIsCached
<1> QED BY <1>1, WInvAlways, PTL

\* What a step may never do: take back a version that was written, or let a server or a
\* cache go back to an older one.
Forward ==
  /\ Latest <= Latest' /\ \A v \in 1 .. Latest : log'[v] = log[v]
  /\ \A p \in Procs : view[p] <= view'[p] /\ cache[p].ver <= cache'[p].ver

LEMMA ForwardStep ==
  ASSUME IInv, Next
  PROVE  Forward
<1>1. TypeOK /\ FlagsRight /\ SeenIsWritten /\ CacheExtendsVersion
  BY FlagsOfReady DEF IInv, NoLostUpdate
<1>2. /\ view \in [Procs -> Nat] /\ cache \in [Procs -> Cache] /\ ProcOf \in [Threads -> Procs]
      /\ Latest \in Nat /\ \A x \in program.unconditional : x \in BOOLEAN
      /\ \A p \in Procs : view[p] <= Latest /\ cache[p].ver <= view[p] /\ cache[p].ver \in Nat
  BY <1>1, CachedStateAssumption, SMTT(30)
     DEF TypeOK, Latest, SeenIsWritten, CacheExtendsVersion, Cache
<1>3. ASSUME UNCHANGED log, \A p \in Procs : view[p] <= view'[p] /\ cache[p].ver <= cache'[p].ver
      PROVE  Forward
  BY <1>2, <1>3 DEF Forward, Latest
<1>4. ASSUME NEW p \in Procs, NEW v \in Nat, view[p] <= v, Apply(p, v)
      PROVE  \A o \in Procs : view[o] <= view'[o]
  <2>1. view' = [view EXCEPT ![p] = v]
    BY <1>4 DEF Apply
  <2> QED BY <1>2, <1>4, <2>1
<1>5. ASSUME UNCHANGED <<log, cache>>, \A o \in Procs : view[o] <= view'[o] PROVE Forward
  BY <1>2, <1>3, <1>5
<1>6. ASSUME UNCHANGED <<log, view>>, \A o \in Procs : cache[o].ver <= cache'[o].ver
      PROVE  Forward
  BY <1>2, <1>3, <1>6
<1>7. ASSUME UNCHANGED <<log, view>>, NEW p \in Procs, Load(p) PROVE Forward
  <2>1. /\ \A o \in Procs : o # p => cache'[o] = cache[o]
        /\ cache[p].ver < view[p] => cache'[p].ver = view[p]
        /\ ~(cache[p].ver < view[p]) => cache'[p] = cache[p]
    BY <1>1, <1>7, LoadEffect
  <2>2. ASSUME NEW o \in Procs PROVE cache[o].ver <= cache'[o].ver
    <3>1. CASE o = p
      BY <1>2, <2>1, <3>1
    <3>2. CASE o # p
      BY <1>2, <2>1, <3>2
    <3> QED BY <3>1, <3>2
  <2> QED BY <1>6, <1>7, <2>2
<1>11. ASSUME NEW t \in Threads, SyncCompletes(t) PROVE Forward
  <2>1. UNCHANGED <<log, cache>> /\ ProcOf[t] \in Procs
    BY <1>2, <1>11 DEF SyncCompletes
  <2>2. CASE Apply(ProcOf[t], Latest)
    BY <1>2, <1>4, <1>5, <2>1, <2>2
  <2>3. CASE UNCHANGED view
    BY <1>2, <1>5, <2>1, <2>3
  <2> QED BY <1>11, <2>2, <2>3 DEF SyncCompletes
<1>12. ASSUME NEW p \in Procs, CatchUp(p) PROVE Forward
  <2>1. /\ Apply(p, view[p] + 1) /\ UNCHANGED <<log, cache>>
        /\ view[p] + 1 \in Nat /\ view[p] <= view[p] + 1
    BY <1>2, <1>12 DEF CatchUp
  <2> QED BY <1>4, <1>5, <2>1
<1>13. ASSUME NEW t \in Threads, SetKey(t) PROVE Forward
  <2> DEFINE q == ProcOf[t]
             c == [cache[q] EXCEPT !.state = cache[q].state \cup {sets}]
  <2>1. q \in Procs /\ cache[q] \in Cache
    BY <1>2
  <2>2. cache' = [cache EXCEPT ![q] = c] /\ UNCHANGED <<log, view>>
    BY <1>2, <1>13 DEF SetKey, zkVars
  <2>3. c.ver = cache[q].ver
    BY <2>1 DEF Cache
  <2> HIDE DEF c, q
  <2>4. \A o \in Procs : cache'[o].ver = cache[o].ver
    BY <1>2, <2>1, <2>2, <2>3
  <2> QED BY <1>2, <1>6, <2>2, <2>4
<1>14. ASSUME NEW t \in Threads, NEW u \in program.unconditional, Publish(t, u) PROVE Forward
  <2> DEFINE p == ProcOf[t]
  <2>1. p \in Procs /\ u \in BOOLEAN
    BY <1>2
  <2>2. PICK hist \in Seq(State), ver \in Nat :
          /\ Cached(p, hist, ver)
          /\ Wrote(p, u, hist, ver) \/ WroteNothing(p, ver)
    BY <1>1, <1>14, <2>1, PublishEffect
  <2> HIDE DEF p
  <2>3. /\ \A o \in Procs : o # p => cache'[o] = cache[o]
        /\ cache'[p].ver = ver
    BY <1>1, <2>1, <2>2, CachedEffect
  <2>4. CASE WroteNothing(p, ver)
    <3>1. UNCHANGED <<log, view>> /\ ver = cache[p].ver
      BY <2>4 DEF WroteNothing, zkVars
    <3>2. \A o \in Procs : cache[o].ver <= cache'[o].ver
      BY <1>2, <2>3, <3>1
    <3> QED BY <1>6, <3>1, <3>2
  <2>5. CASE Wrote(p, u, hist, ver)
    <3>1. PICK n \in 1 .. 2 : Write(p, hist, n) /\ (ver = Latest + n \/ ver = cache[p].ver)
      BY <2>5 DEF Wrote
    <3>2. /\ Latest' = Latest + n /\ \A v \in 1 .. Latest : log'[v] = log[v]
          /\ view' = [view EXCEPT ![p] = Latest + n]
      BY <1>1, <2>1, <3>1, WriteEffect
    <3>3. ASSUME NEW o \in Procs PROVE view[o] <= view'[o] /\ cache[o].ver <= cache'[o].ver
      <4>1. CASE o = p
        BY <1>2, <2>1, <2>3, <3>1, <3>2, <4>1
      <4>2. CASE o # p
        BY <1>2, <2>3, <3>2, <4>2
      <4> QED BY <4>1, <4>2
    <3> QED BY <1>2, <3>2, <3>3 DEF Forward
  <2> QED BY <2>2, <2>4, <2>5
<1>15. ASSUME NEW t \in Threads, Acquire(t) \/ Inject(t) \/ BeginUnlocked(t) \/ Finish(t)
       PROVE  Forward
  <2>1. UNCHANGED <<log, view, cache>>
    BY <1>15 DEF Acquire, Inject, BeginUnlocked, Finish, zkVars
  <2> QED BY <1>2, <1>6, <2>1
<1>16. ASSUME NEW p \in Procs, HandleSync(p) \/ HandleChange(p) PROVE Forward
  <2>1. UNCHANGED <<log, view, cache>>
    BY <1>16 DEF HandleSync, HandleChange
  <2> QED BY <1>2, <1>6, <2>1
<1>17. ASSUME NEW t \in Threads, Reset(t) PROVE Forward
  BY <1>2, <1>7, <1>17 DEF Reset
<1>18. ASSUME NEW p \in Procs, FinishChange(p) PROVE Forward
  BY <1>7, <1>18 DEF FinishChange
<1> QED BY NextCases, <1>11, <1>12, <1>13, <1>14, <1>15, <1>16, <1>17, <1>18

\* A version that was written stays as it is, and neither a server nor a cache goes back to
\* an older one, however resets, the event thread, publishes and lost replies interleave
\* (m_stat.version of CachedDataImpl).
THEOREM NothingGoesBack == Spec => [][Forward]_vars
<1>1. IInv /\ [Next]_vars => [Forward]_vars
  BY ForwardStep
<1> QED BY <1>1, IInvAlways, PTL DEF Spec

-----------------------------------------------------------------------------
(* Locked uses: the updates are serial *)

Publishes(t) == pc[t] = "edit" /\ pc'[t] = "finish"

\* As long as no reply is lost, nothing but a publish writes, and each publish makes one
\* version: the last one and what the thread has set since it has the lock.
SerialUpdate ==
  program.locking = Threads /\ faults' = 0 =>
    /\ log' = log \/ \E t \in Threads : Publishes(t)
    /\ \A t \in Threads : Publishes(t) =>
         /\ owner = t
         /\ Latest' = Latest + 1 /\ \A v \in 1 .. Latest : log'[v] = log[v]
         /\ At(Latest)'.state = At(Latest).state \cup mine[t]

LEMMA PublishIsSerial ==
  ASSUME LInv, program.locking = Threads, NEW t \in Threads, NEW u \in BOOLEAN,
         Publish(t, u), faults' = 0
  PROVE  /\ pc[t] = "edit" /\ owner = t
         /\ Latest' = Latest + 1 /\ \A v \in 1 .. Latest : log'[v] = log[v]
         /\ At(Latest)'.state = At(Latest).state \cup mine[t]
<1> DEFINE p == ProcOf[t]
<1>1. /\ TypeOK /\ FlagsRight /\ SeenIsWritten
      /\ OwnerOnly /\ EditsLatest /\ CachedIsLogged
  BY LockedFacts
<1>2. p \in Procs /\ Latest \in Nat /\ faults \in Nat
  BY <1>1, CachedStateAssumption DEF TypeOK, Latest
<1>3. pc[t] = "edit" /\ owner = t
  BY <1>1 DEF Publish, PublishFrame, OwnerOnly
<1>4. faults' = faults \/ faults' = faults + 1
  BY <1>1, PublishEffect
<1>5. faults = 0 /\ faults' # faults + 1
  BY <1>2, <1>4
<1>6. /\ cache[p].ver = Latest
      /\ cache[p].state = At(Latest).state \cup mine[t]
  BY <1>1, <1>3, <1>5 DEF EditsLatest, CachedIsLogged
<1>7. cache[p] \in Cache
  BY <1>1, <1>2 DEF TypeOK
<1>8. PICK hist \in Seq(State) : hist = Pushed(cache[p])
  BY <1>7, PushedType
<1>9. Write(p, hist, 1)
  BY <1>5, <1>6, <1>8 DEF Publish
<1>10. 1 \in 1 .. 2
  OBVIOUS
<1> HIDE DEF p
<1>11. /\ Latest' = Latest + 1 /\ \A v \in 1 .. Latest : log'[v] = log[v]
       /\ \A v \in Latest + 1 .. Latest + 1 : log'[v].state = cache[p].state
  BY <1>1, <1>2, <1>9, <1>10, WriteEffect
<1>12. At(Latest)'.state = log'[Latest + 1].state
  BY <1>2, <1>11 DEF At
<1> QED BY <1>2, <1>3, <1>6, <1>11, <1>12

\* No other step ends an update or writes.
LEMMA OthersWriteNothing ==
  ASSUME TypeOK, Next
  PROVE  \/ log' = log /\ \A t \in Threads : ~Publishes(t)
         \/ \E t \in Threads, u \in program.unconditional :
              /\ Publish(t, u)
              /\ \A s \in Threads : Publishes(s) => s = t
<1>1. pc \in [Threads -> PC]
  BY DEF TypeOK
<1>2. ASSUME NEW t \in Threads,
             \/ Acquire(t) \/ SyncCompletes(t) \/ Inject(t) \/ BeginUnlocked(t)
             \/ SetKey(t) \/ Reset(t) \/ Finish(t)
      PROVE  log' = log /\ \A s \in Threads : ~Publishes(s)
  <2>1. log' = log
    BY <1>2 DEF Acquire, SyncCompletes, Inject, BeginUnlocked, SetKey, Reset, Finish, zkVars
  <2>2. pc' = pc \/ \E l \in PC \ {"finish"} : pc' = [pc EXCEPT ![t] = l]
    BY <1>2 DEF Acquire, SyncCompletes, Inject, BeginUnlocked, SetKey, Reset, Finish, PC
  <2>3. \A s \in Threads : pc'[s] = pc[s] \/ pc'[s] # "finish"
    BY <1>1, <2>2
  <2> QED BY <2>1, <2>3 DEF Publishes
<1>3. ASSUME NEW p \in Procs, CatchUp(p) \/ HandleSync(p) \/ HandleChange(p) \/ FinishChange(p)
      PROVE  log' = log /\ \A s \in Threads : ~Publishes(s)
  <2>1. log' = log /\ (pc' = pc \/ \E s : pc' = [pc EXCEPT ![s] = "edit"])
    BY <1>3 DEF CatchUp, HandleSync, HandleChange, FinishChange
  <2>2. \A s \in Threads : pc'[s] = pc[s] \/ pc'[s] # "finish"
    BY <1>1, <2>1
  <2> QED BY <2>1, <2>2 DEF Publishes
<1>4. ASSUME NEW t \in Threads, NEW u \in program.unconditional, Publish(t, u)
      PROVE  \A s \in Threads : Publishes(s) => s = t
  BY <1>1, <1>4 DEF Publish, PublishFrame, Publishes
<1> QED BY NextCases, <1>2, <1>3, <1>4

\* When every thread locks and no sync fails, the locked uses are serial updates: each
\* publish adds exactly one version, the last one and what its thread has set, and no other
\* step writes, until a reply is lost (publish between acquireLock and releaseLock).
THEOREM LockedUpdatesAreSerial ==
  ASSUME MaxBadSyncs = 0
  PROVE  Spec => [][SerialUpdate]_vars
<1>1. LInv /\ [Next]_vars => LInv'
  BY LInvStep
<1>2. LInv /\ [Next]_vars => [SerialUpdate]_vars
  <2> SUFFICES ASSUME LInv, Next, program.locking = Threads, faults' = 0
               PROVE  /\ log' = log \/ \E t \in Threads : Publishes(t)
                      /\ \A t \in Threads : Publishes(t) =>
                           /\ owner = t
                           /\ Latest' = Latest + 1 /\ \A v \in 1 .. Latest : log'[v] = log[v]
                           /\ At(Latest)'.state = At(Latest).state \cup mine[t]
    BY DEF SerialUpdate
  <2>1. TypeOK /\ \A u \in program.unconditional : u \in BOOLEAN
    BY LockedFacts, CachedStateAssumption DEF TypeOK
  <2>2. CASE log' = log /\ \A t \in Threads : ~Publishes(t)
    BY <2>2
  <2>3. ASSUME NEW t \in Threads, NEW u \in program.unconditional, Publish(t, u),
               \A s \in Threads : Publishes(s) => s = t
        PROVE  /\ \E s \in Threads : Publishes(s)
               /\ \A s \in Threads : Publishes(s) =>
                    /\ owner = s
                    /\ Latest' = Latest + 1 /\ \A v \in 1 .. Latest : log'[v] = log[v]
                    /\ At(Latest)'.state = At(Latest).state \cup mine[s]
    <3>1. /\ pc[t] = "edit" /\ owner = t
          /\ Latest' = Latest + 1 /\ \A v \in 1 .. Latest : log'[v] = log[v]
          /\ At(Latest)'.state = At(Latest).state \cup mine[t]
      BY <2>1, <2>3, PublishIsSerial
    <3>2. Publishes(t)
      BY <2>1, <2>3 DEF Publish, PublishFrame, Publishes, TypeOK
    <3> QED BY <2>3, <3>1, <3>2
  <2> QED BY <2>1, <2>2, <2>3, OthersWriteNothing
<1> QED BY <1>1, <1>2, InitLInv, PTL DEF Spec

-----------------------------------------------------------------------------
(* The owner is the holder of a lock of AbstractLock *)

OwnerRecord(o, t) == IF o = t THEN [type |-> "EXCL", count |-> 1]
                              ELSE [type |-> "SHARED", count |-> 0]
OwnerView(o) == [t \in Threads |-> [l \in {"NOTIFYABLE_LOCK"} |-> OwnerRecord(o, t)]]

OwnerLock == INSTANCE AbstractLock
               WITH Locks <- {"NOTIFYABLE_LOCK"}, holds <- OwnerView(owner), void <- FALSE

\* One entry of the view changes.
LEMMA ViewChanges ==
  ASSUME NEW t \in Threads,
         \A s \in Threads \ {t} : OwnerRecord(owner', s) = OwnerRecord(owner, s)
  PROVE  OwnerView(owner)' =
           [OwnerView(owner) EXCEPT ![t]["NOTIFYABLE_LOCK"] = OwnerRecord(owner', t)]
  BY DEF OwnerView

LEMMA OwnerMaps ==
  ASSUME TypeOK, Next
  PROVE  [OwnerLock!Next]_(OwnerLock!vars)
<1>1. NoThread \notin Threads /\ owner \in Threads \cup {NoThread}
  BY CachedStateAssumption DEF TypeOK
<1>2. \A t \in Threads : OwnerView(owner)[t]["NOTIFYABLE_LOCK"] = OwnerRecord(owner, t)
  BY DEF OwnerView
<1>3. CASE owner' = owner
  BY <1>3 DEF OwnerLock!vars
<1>4. ASSUME NEW t \in Threads, Acquire(t) PROVE OwnerLock!Next
  <2>1. owner = NoThread /\ owner' = t
    BY <1>4 DEF Acquire
  <2>2. \A s \in Threads : OwnerRecord(owner, s).count = 0
    BY <1>1, <2>1 DEF OwnerRecord
  <2>3. \A s \in Threads \ {t} : OwnerRecord(owner', s) = OwnerRecord(owner, s)
    BY <1>1, <2>1 DEF OwnerRecord
  <2>4. OwnerView(owner)' =
          [OwnerView(owner) EXCEPT ![t]["NOTIFYABLE_LOCK"] = OwnerRecord(owner', t)]
    BY <2>3, ViewChanges
  <2>5. OwnerRecord(owner', t) = [type |-> "EXCL", count |-> 1]
    BY <2>1 DEF OwnerRecord
  <2>6. OwnerLock!Acquire(t, "NOTIFYABLE_LOCK", "EXCL")
    BY <1>2, <2>2, <2>4, <2>5 DEF OwnerLock!Acquire, OwnerLock!Compatible
  <2> QED BY <2>6 DEF OwnerLock!Next, OwnerLock!LockTypes
<1>5. ASSUME NEW t \in Threads, Finish(t), owner' # owner PROVE OwnerLock!Next
  <2>1. owner = t /\ owner' = NoThread
    BY <1>5 DEF Finish
  <2>2. OwnerRecord(owner, t).count = 1
    BY <2>1 DEF OwnerRecord
  <2>3. \A s \in Threads \ {t} : OwnerRecord(owner', s) = OwnerRecord(owner, s)
    BY <1>1, <2>1 DEF OwnerRecord
  <2>4. OwnerView(owner)' =
          [OwnerView(owner) EXCEPT ![t]["NOTIFYABLE_LOCK"] = OwnerRecord(owner', t)]
    BY <2>3, ViewChanges
  <2>5. OwnerRecord(owner', t) = OwnerLock!Free
    BY <1>1, <2>1 DEF OwnerRecord, OwnerLock!Free
  <2>6. OwnerLock!Release(t, "NOTIFYABLE_LOCK")
    BY <1>2, <2>2, <2>4, <2>5 DEF OwnerLock!Release
  <2> QED BY <2>6 DEF OwnerLock!Next
<1>6. ASSUME NEW t \in Threads,
             \/ SyncCompletes(t) \/ Inject(t) \/ BeginUnlocked(t) \/ SetKey(t) \/ Reset(t)
             \/ \E u \in program.unconditional : Publish(t, u)
      PROVE  owner' = owner
  BY <1>6 DEF SyncCompletes, Inject, BeginUnlocked, SetKey, Reset, Publish, PublishFrame
<1>7. ASSUME NEW p \in Procs, CatchUp(p) \/ HandleSync(p) \/ HandleChange(p) \/ FinishChange(p)
      PROVE  owner' = owner
  BY <1>7 DEF CatchUp, HandleSync, HandleChange, FinishChange
<1> QED BY NextCases, <1>3, <1>4, <1>5, <1>6, <1>7

\* What CachedState assumes of acquireLock and releaseLock is what AbstractLock promises:
\* its `owner' holds the NOTIFYABLE_LOCK exclusively as one of the locks that the recipe of
\* DistributedLocks is proved to implement (LockRefines of DistLockProofs).
THEOREM OwnerIsLock == Spec => OwnerLock!Spec
<1>1. Init => OwnerLock!Init
  <2> SUFFICES ASSUME Init PROVE OwnerLock!Init
    OBVIOUS
  <2>1. \A t \in Threads : OwnerRecord(owner, t) = OwnerLock!Free
    BY CachedStateAssumption DEF Init, OwnerRecord, OwnerLock!Free
  <2> QED BY <2>1 DEF OwnerLock!Init, OwnerView
<1>2. IInv /\ [Next]_vars => [OwnerLock!Next]_(OwnerLock!vars)
  <2> SUFFICES ASSUME IInv, [Next]_vars PROVE [OwnerLock!Next]_(OwnerLock!vars)
    OBVIOUS
  <2>1. CASE Next
    BY <2>1, OwnerMaps, FlagsOfReady DEF IInv
  <2>2. CASE UNCHANGED vars
    BY <2>2 DEF vars, OwnerLock!vars
  <2> QED BY <2>1, <2>2
<1> QED BY <1>1, <1>2, IInvAlways, PTL DEF Spec, OwnerLock!Spec

=============================================================================
