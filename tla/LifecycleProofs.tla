-------------------------- MODULE LifecycleProofs ---------------------------
(***************************************************************************)
(* Theorems about Lifecycle, for any threads, processes and bounds: a      *)
(* process has one live object of a Notifyable, the one in its cache; who  *)
(* removes a Notifyable is alone with it; and its removal arrives at the   *)
(* caches it concerns, and no others.  Each part of the inductive          *)
(* invariant, LifecycleInv, has a section and a lemma Step... of its own.  *)
(***************************************************************************)
EXTENDS Lifecycle, SequenceTheorems, TLAPS

-----------------------------------------------------------------------------
(* Types *)

LEMMA PcTypes ==
  /\ \A label \in {"idle", "lock", "sync", "await", "load", "create", "insert", "unlock",
                   "publish", "lockParent", "lockSelf", "uncache", "delete", "deleteKey", "release"} :
       label \in PC
  /\ NoCall \in Call
BY DEF PC, Call, NoCall

\* Where a thread is, and one field of the locals of its call
LEMMA ThreadTypes ==
  ASSUME pc \in [Threads -> PC], call \in [Threads -> Call], NEW t \in Threads
  PROVE  /\ \A label \in PC : Goto(t, label) => pc' \in [Threads -> PC]
         /\ \A new \in Call : [call EXCEPT ![t] = new] \in [Threads -> Call]
         /\ \A label \in PC : [call EXCEPT ![t].then = label] \in [Threads -> Call]
         /\ Return(t) => pc' \in [Threads -> PC] /\ call' \in [Threads -> Call]
<1>1. \A label \in PC : Goto(t, label) => pc' \in [Threads -> PC]
  BY DEF Goto
<1>2. \A new \in Call : [call EXCEPT ![t] = new] \in [Threads -> Call]
  OBVIOUS
<1>3. \A label \in PC : [call EXCEPT ![t].then = label] \in [Threads -> Call]
  <2>1. PICK record \in [create : BOOLEAN, part : 1 .. 2, again : BOOLEAN, then : PC] :
          record = call[t]
    BY DEF Call
  <2>2. \A label \in PC : [record EXCEPT !.then = label] \in Call
    BY <2>1 DEF Call
  <2> QED BY <1>2, <2>1, <2>2
<1>4. Return(t) => pc' \in [Threads -> PC] /\ call' \in [Threads -> Call]
  BY <1>1, <1>2, PcTypes DEF Return
<1> QED BY <1>1, <1>2, <1>3, <1>4

\* Loading and making the znodes goes from one part to the next.
LEMMA PartTypes ==
  ASSUME call \in [Threads -> Call], NEW t \in Threads
  PROVE  /\ call[t].part < 2 => [call EXCEPT ![t].part = @ + 1] \in [Threads -> Call]
         /\ [call EXCEPT ![t].part = 1] \in [Threads -> Call]
         /\ [call EXCEPT ![t].part = 1, ![t].again = TRUE] \in [Threads -> Call]
<1>1. PICK record \in [create : BOOLEAN, part : 1 .. 2, again : BOOLEAN, then : PC] :
        record = call[t]
  BY DEF Call
<1>2. \A new \in Call : [call EXCEPT ![t] = new] \in [Threads -> Call]
  OBVIOUS
<1>3. call[t].part < 2 => [call EXCEPT ![t].part = @ + 1] \in [Threads -> Call]
  <2>1. SUFFICES ASSUME record.part < 2
                 PROVE  [call EXCEPT ![t] = [record EXCEPT !.part = record.part + 1]] \in [Threads -> Call]
    BY <1>1
  <2>2. record.part + 1 \in 1 .. 2
    BY <1>1, <2>1
  <2>3. [record EXCEPT !.part = record.part + 1] \in Call
    BY <1>1, <2>2 DEF Call
  <2> QED BY <1>2, <2>3
<1>4. [record EXCEPT !.part = 1] \in Call /\ [record EXCEPT !.part = 1, !.again = TRUE] \in Call
  <2>1. 1 \in 1 .. 2 /\ TRUE \in BOOLEAN
    OBVIOUS
  <2>2. [record EXCEPT !.part = 1] \in Call
    BY <1>1, <2>1 DEF Call
  <2>3. PICK first \in [create : BOOLEAN, part : 1 .. 2, again : BOOLEAN, then : PC] :
          first = [record EXCEPT !.part = 1]
    BY <2>2 DEF Call
  <2>4. [first EXCEPT !.again = TRUE] \in Call
    BY <2>1, <2>3 DEF Call
  <2>5. [first EXCEPT !.again = TRUE] = [record EXCEPT !.part = 1, !.again = TRUE]
    BY <1>1, <2>3
  <2> QED BY <2>2, <2>4, <2>5
<1>5. /\ [call EXCEPT ![t].part = 1] = [call EXCEPT ![t] = [record EXCEPT !.part = 1]]
      /\ [call EXCEPT ![t].part = 1, ![t].again = TRUE] =
           [call EXCEPT ![t] = [record EXCEPT !.part = 1, !.again = TRUE]]
  BY <1>1
<1>6. [call EXCEPT ![t].part = 1] \in [Threads -> Call]
  BY <1>2, <1>4, <1>5
<1>7. [call EXCEPT ![t].part = 1, ![t].again = TRUE] \in [Threads -> Call]
  BY <1>2, <1>4, <1>5
<1> QED BY <1>3, <1>6, <1>7

\* get begins.
LEMMA BeginTypes ==
  ASSUME call \in [Threads -> Call], NEW t \in Threads, NEW create \in BOOLEAN
  PROVE  [call EXCEPT ![t] = [NoCall EXCEPT !.create = create]] \in [Threads -> Call]
<1>1. [NoCall EXCEPT !.create = create] \in Call
  BY PcTypes DEF Call
<1> QED BY <1>1

LockRecords == [Threads -> [type : LockTypes, count : Nat]]

LEMMA LockRecordTypes ==
  ASSUME lock \in LockRecords, NEW t \in Threads
  PROVE  /\ \A type \in LockTypes : [lock EXCEPT ![t] = [type |-> type, count |-> 1]] \in LockRecords
         /\ [lock EXCEPT ![t].count = @ + 1] \in LockRecords
         /\ Released(t) \in LockRecords
<1>1. PICK record \in [type : LockTypes, count : Nat] : record = lock[t]
  BY DEF LockRecords
<1>2. \A new \in [type : LockTypes, count : Nat] : [lock EXCEPT ![t] = new] \in LockRecords
  BY DEF LockRecords
<1>3. /\ \A type \in LockTypes : [type |-> type, count |-> 1] \in [type : LockTypes, count : Nat]
      /\ Free \in [type : LockTypes, count : Nat]
  BY DEF Free, LockTypes
<1>4. [record EXCEPT !.count = record.count + 1] \in [type : LockTypes, count : Nat]
  <2>1. record.count + 1 \in Nat
    BY <1>1
  <2> QED BY <1>1, <2>1
<1>5. [lock EXCEPT ![t].count = @ + 1] \in LockRecords
  BY <1>1, <1>2, <1>4
<1>6. record.count > 1 => [lock EXCEPT ![t].count = @ - 1] \in LockRecords
  <2>1. SUFFICES ASSUME record.count > 1 PROVE [lock EXCEPT ![t].count = @ - 1] \in LockRecords
    OBVIOUS
  <2>2. record.count - 1 \in Nat
    BY <1>1, <2>1
  <2>3. [record EXCEPT !.count = record.count - 1] \in [type : LockTypes, count : Nat]
    BY <1>1, <2>2
  <2> QED BY <1>1, <1>2, <2>3
<1>7. Released(t) \in LockRecords
  BY <1>1, <1>2, <1>3, <1>6 DEF Released
<1> QED BY <1>2, <1>3, <1>5, <1>7

-----------------------------------------------------------------------------
(* The repository and the watches *)

RepositoryTypes ==
  /\ nodes \subseteq Whole /\ age \in Nat /\ outrun \subseteq Procs
  /\ watch \in [Procs -> SUBSET Whole] /\ ready \in [Procs -> SUBSET Whole]
  /\ queue \in [Procs -> Seq(Event \cup Threads)]

ClientTypes ==
  /\ lock \in LockRecords /\ asked \in [Threads -> BOOLEAN]
  /\ pc \in [Threads -> PC] /\ call \in [Threads -> Call]

ObjectTypes ==
  /\ objects \in [Procs -> Seq(Object)]
  /\ \A p \in Procs : cache[p] \in {Nothing} \cup DOMAIN objects[p]
  /\ \A t \in Threads : handle[t] \in {Nothing} \cup DOMAIN objects[ProcOf[t]]

LEMMA ChangeTypes ==
  ASSUME RepositoryTypes, NEW new \in SUBSET Whole, Change(new)
  PROVE  /\ nodes' \subseteq Whole
         /\ watch' \in [Procs -> SUBSET Whole]
         /\ queue' \in [Procs -> Seq(Event \cup Threads)]
<1>1. nodes' \subseteq Whole
  BY DEF Change
<1>2. watch' \in [Procs -> SUBSET Whole]
  BY DEF Change, RepositoryTypes
<1>3. \A part \in Whole, kind \in {"created", "deleted"} :
        <<[part |-> part, kind |-> kind]>> \in Seq(Event \cup Threads)
  BY DEF Event
<1>4. <<>> \in Seq(Event \cup Threads)
  OBVIOUS
<1>5. queue' \in [Procs -> Seq(Event \cup Threads)]
  <2>1. ASSUME NEW p \in Procs
        PROVE  \E first, second \in Seq(Event \cup Threads) :
                 queue'[p] = queue[p] \o first \o second
    BY <1>3, <1>4 DEF Change, Whole, RepositoryTypes
  <2>2. ASSUME NEW s \in Seq(Event \cup Threads), NEW first \in Seq(Event \cup Threads),
               NEW second \in Seq(Event \cup Threads)
        PROVE  s \o first \o second \in Seq(Event \cup Threads)
    OBVIOUS
  <2>3. ASSUME NEW p \in Procs PROVE queue'[p] \in Seq(Event \cup Threads)
    <3>1. PICK first, second \in Seq(Event \cup Threads) : queue'[p] = queue[p] \o first \o second
      BY <2>1
    <3>2. queue[p] \in Seq(Event \cup Threads)
      BY DEF RepositoryTypes
    <3> QED BY <2>2, <3>1, <3>2
  <2>4. queue' = [p \in Procs |-> queue'[p]]
    BY DEF Change
  <2> QED BY <2>3, <2>4
<1> QED BY <1>1, <1>2, <1>5

LEMMA WriteTypes ==
  ASSUME RepositoryTypes, WriteState
  PROVE  /\ nodes' \subseteq Whole
         /\ watch' \in [Procs -> SUBSET Whole]
         /\ queue' \in [Procs -> Seq(Event \cup Threads)]
<1>1. nodes' \subseteq Whole /\ watch' \in [Procs -> SUBSET Whole]
  <2>1. watch' = [p \in Procs |-> watch[p] \ {"state"}] /\ nodes' = nodes
    BY DEF WriteState
  <2>2. \A p \in Procs : watch[p] \ {"state"} \in SUBSET Whole
    BY DEF RepositoryTypes
  <2>3. [p \in Procs |-> watch[p] \ {"state"}] \in [Procs -> SUBSET Whole]
    BY <2>2
  <2> QED BY <2>1, <2>3 DEF RepositoryTypes
<1>2. PICK written \in Event : written = [part |-> "state", kind |-> "changed"]
  BY DEF Event, Whole
<1>3. \A s \in Seq(Event \cup Threads) : Append(s, written) \in Seq(Event \cup Threads)
  BY <1>2
<1>4. \A p \in Procs : queue'[p] = queue[p] \/ queue'[p] = Append(queue[p], written)
  BY <1>2 DEF WriteState
<1>5. \A p \in Procs : queue'[p] \in Seq(Event \cup Threads)
  BY <1>3, <1>4 DEF RepositoryTypes
<1>6. queue' = [p \in Procs |-> queue'[p]]
  BY DEF WriteState
<1> QED BY <1>1, <1>5, <1>6

LEMMA SetWatchTypes ==
  ASSUME RepositoryTypes, NEW p \in Procs, NEW part \in Whole, SetWatch(p, part)
  PROVE  watch' \in [Procs -> SUBSET Whole] /\ ready' \in [Procs -> SUBSET Whole]
BY DEF SetWatch, RepositoryTypes

-----------------------------------------------------------------------------
(* The objects of a process *)

MemoryTypes ==
  /\ cache \in [Procs -> Nat] /\ handle \in [Threads -> Nat]
  /\ handling \in [Procs -> [part : Whole, kind : {"created", "changed", "deleted"}, object : Nat,
                             at : {"none", "found", "unset"}]]
  /\ \A p \in Procs : handling[p].object \in {Nothing} \cup DOMAIN objects[p]

Live(p) == \A i \in DOMAIN objects[p] : objects[p][i].state = "READY" <=> cache[p] = i

ObjectInv == ObjectTypes /\ MemoryTypes /\ \A p \in Procs : Live(p)

LEMMA ObjectPositions ==
  ASSUME ObjectInv, NEW p \in Procs
  PROVE  /\ objects[p] \in Seq(Object) /\ DOMAIN objects[p] = 1 .. Len(objects[p])
         /\ Len(objects[p]) \in Nat /\ Nothing \notin DOMAIN objects[p]
BY DEF ObjectInv, ObjectTypes, Nothing

\* A step that leaves the objects and the cache; a thread may take the cached object.
LEMMA SameObjects ==
  ASSUME ObjectInv, UNCHANGED cached,
         \/ handle' = handle
         \/ \E t \in Threads : handle' = [handle EXCEPT ![t] = cache[ProcOf[t]]],
         handling' \in [Procs -> [part : Whole, kind : {"created", "changed", "deleted"}, object : Nat,
                                  at : {"none", "found", "unset"}]],
         \A p \in Procs : handling'[p].object \in {Nothing, handling[p].object, cache[p]}
  PROVE  ObjectInv'
<1>1. objects' = objects /\ cache' = cache /\ Nothing \in Nat
  BY DEF cached, Nothing
<1>2. \A t \in Threads : ProcOf[t] \in Procs
  BY LifecycleAssumption
<1>3. \A t \in Threads : handle'[t] \in {handle[t], Nothing, cache[ProcOf[t]]}
  BY DEF ObjectInv, MemoryTypes
<1>4. handle' \in [Threads -> Nat]
  BY <1>1, <1>2 DEF ObjectInv, MemoryTypes
<1>5. ObjectTypes'
  BY <1>1, <1>2, <1>3 DEF ObjectInv, ObjectTypes
<1>6. MemoryTypes'
  BY <1>1, <1>4 DEF ObjectInv, ObjectTypes, MemoryTypes
<1> QED BY <1>1, <1>5, <1>6 DEF ObjectInv, Live

\* An object is loaded into an empty cache.
LEMMA AddedObject ==
  ASSUME ObjectInv, NEW t \in Threads, NEW p \in Procs, p = ProcOf[t], cache[p] = Nothing,
         NEW born \in Nat,
         objects' = [objects EXCEPT ![p] = Append(@, [state |-> "READY", born |-> born])],
         cache' = [cache EXCEPT ![p] = Len(objects[p]) + 1],
         handle' \in {handle, [handle EXCEPT ![t] = Len(objects[p]) + 1]}, handling' = handling
  PROVE  ObjectInv'
<1>1. PICK new \in Object : new = [state |-> "READY", born |-> born]
  BY DEF Object
<1>2. PICK s \in Seq(Object) : s = objects[p]
  BY ObjectPositions
<1>3. PICK n \in Nat : n = Len(s) + 1
  BY <1>2
<1>4. PICK later \in Seq(Object) : later = Append(s, new)
  <2>1. Append(s, new) \in Seq(Object)
    BY <1>1, <1>2
  <2> QED BY <2>1
<1>5. /\ DOMAIN later = DOMAIN s \cup {n} /\ n \notin DOMAIN s /\ later[n] = new
      /\ \A i \in DOMAIN s : later[i] = s[i]
  BY <1>3, <1>4
<1>6. /\ objects' = [objects EXCEPT ![p] = later] /\ cache' = [cache EXCEPT ![p] = n]
      /\ handle' \in {handle, [handle EXCEPT ![t] = n]}
  BY <1>1, <1>2, <1>3, <1>4
<1>7. /\ objects' \in [Procs -> Seq(Object)] /\ objects'[p] = later
      /\ \A q \in Procs : q # p => objects'[q] = objects[q]
  BY <1>6 DEF ObjectInv, ObjectTypes
<1>8. /\ cache' \in [Procs -> Nat] /\ cache'[p] = n
      /\ \A q \in Procs : q # p => cache'[q] = cache[q]
  BY <1>6 DEF ObjectInv, MemoryTypes
<1>9. \A q \in Procs : DOMAIN objects[q] \subseteq DOMAIN objects'[q]
  BY <1>2, <1>5, <1>7
<1>10. /\ handle' \in [Threads -> Nat]
       /\ \A u \in Threads : handle'[u] = handle[u] \/ (u = t /\ handle'[u] = n)
  BY <1>6 DEF ObjectInv, MemoryTypes
<1>11. \A u \in Threads : ProcOf[u] \in Procs
  BY LifecycleAssumption
<1>12. ObjectTypes'
  <2>1. \A q \in Procs : cache'[q] \in {Nothing} \cup DOMAIN objects'[q]
    BY <1>5, <1>7, <1>8 DEF ObjectInv, ObjectTypes
  <2>2. \A u \in Threads : handle'[u] \in {Nothing} \cup DOMAIN objects'[ProcOf[u]]
    BY <1>5, <1>7, <1>9, <1>10, <1>11 DEF ObjectInv, ObjectTypes
  <2> QED BY <1>7, <2>1, <2>2 DEF ObjectTypes
<1>13. MemoryTypes'
  BY <1>8, <1>9, <1>10 DEF ObjectInv, MemoryTypes
<1>14. ASSUME NEW q \in Procs PROVE Live(q)'
  <2>1. CASE q = p
    <3>1. \A i \in DOMAIN s : s[i].state # "READY" /\ i # n
      BY <1>2, <1>5, ObjectPositions DEF ObjectInv, Live
    <3>2. new.state = "READY"
      BY <1>1
    <3> QED BY <1>5, <1>7, <1>8, <2>1, <3>1, <3>2 DEF Live
  <2>2. CASE q # p
    BY <1>7, <1>8, <2>2 DEF ObjectInv, Live
  <2> QED BY <2>1, <2>2
<1> QED BY <1>12, <1>13, <1>14 DEF ObjectInv

\* A live object is removed from the cache.
LEMMA DroppedObject ==
  ASSUME ObjectInv, NEW p \in Procs, NEW object \in DOMAIN objects[p],
         objects[p][object].state = "READY", objects' = Set(p, object, "REMOVED"),
         cache' = [cache EXCEPT ![p] = Nothing], handle' = handle,
         handling' = handling \/ handling' = [handling EXCEPT ![p] = NoEvent]
  PROVE  ObjectInv'
<1>1. PICK s \in Seq(Object) : s = objects[p]
  BY ObjectPositions
<1>2. PICK old \in [state : {"READY", "REMOVED"}, born : Nat] : old = s[object]
  <2>1. s[object] \in Object
    BY <1>1
  <2> QED BY <2>1 DEF Object
<1>3. PICK new \in Object : new = [old EXCEPT !.state = "REMOVED"]
  BY <1>2 DEF Object
<1>4. new.state = "REMOVED"
  BY <1>2, <1>3
<1>5. PICK later : later = [s EXCEPT ![object] = new]
  OBVIOUS
<1>6. /\ later \in Seq(Object) /\ DOMAIN later = DOMAIN s /\ later[object] = new
      /\ \A i \in DOMAIN s : i # object => later[i] = s[i]
  BY <1>1, <1>5
<1>7. objects' = [objects EXCEPT ![p] = later]
  BY <1>1, <1>2, <1>3, <1>5 DEF Set
<1>8. /\ objects' \in [Procs -> Seq(Object)] /\ objects'[p] = later
      /\ \A q \in Procs : q # p => objects'[q] = objects[q]
  BY <1>6, <1>7 DEF ObjectInv, ObjectTypes
<1>9. /\ cache' \in [Procs -> Nat] /\ cache'[p] = Nothing
      /\ \A q \in Procs : q # p => cache'[q] = cache[q]
  BY DEF ObjectInv, MemoryTypes, Nothing
<1>10. \A q \in Procs : DOMAIN objects[q] = DOMAIN objects'[q]
  BY <1>1, <1>6, <1>8
<1>11. \A u \in Threads : ProcOf[u] \in Procs
  BY LifecycleAssumption
<1>12. ObjectTypes'
  BY <1>8, <1>9, <1>10, <1>11 DEF ObjectInv, ObjectTypes
<1>13. /\ handling' \in [Procs -> [part : Whole, kind : {"created", "changed", "deleted"}, object : Nat,
                                   at : {"none", "found", "unset"}]]
       /\ \A q \in Procs : handling'[q].object \in {Nothing, handling[q].object}
  <2>1. NoEvent \in [part : Whole, kind : {"created", "changed", "deleted"}, object : Nat,
                      at : {"none", "found", "unset"}]
    BY DEF NoEvent, Nothing, Whole
  <2>2. NoEvent.object = Nothing
    BY DEF NoEvent
  <2>3. handling \in [Procs -> [part : Whole, kind : {"created", "changed", "deleted"}, object : Nat,
                                at : {"none", "found", "unset"}]]
    BY DEF ObjectInv, MemoryTypes
  <2> QED BY <2>1, <2>2, <2>3
<1>14. MemoryTypes'
  BY <1>9, <1>10, <1>13 DEF ObjectInv, MemoryTypes
<1>15. ASSUME NEW q \in Procs PROVE Live(q)'
  <2>1. CASE q = p
    <3>1. cache[p] = object
      BY DEF ObjectInv, Live
    <3>2. \A i \in DOMAIN s : i # object => s[i].state # "READY"
      BY <1>1, <3>1 DEF ObjectInv, Live
    <3>3. Nothing \notin DOMAIN s
      BY <1>1, ObjectPositions
    <3> QED BY <1>4, <1>6, <1>8, <1>9, <2>1, <3>2, <3>3 DEF Live
  <2>2. CASE q # p
    BY <1>8, <1>9, <2>2 DEF ObjectInv, Live
  <2> QED BY <2>1, <2>2
<1> QED BY <1>12, <1>14, <1>15 DEF ObjectInv

LEMMA CrashedObjects ==
  ASSUME ObjectInv, NEW p \in Procs, Crash(p)
  PROVE  ObjectInv'
<1>1. /\ objects' = [objects EXCEPT ![p] = <<>>] /\ cache' = [cache EXCEPT ![p] = Nothing]
      /\ handling' = [handling EXCEPT ![p] = NoEvent]
      /\ handle' = [t \in Threads |-> IF ProcOf[t] # p THEN handle[t] ELSE Nothing]
  BY DEF Crash
<1>2. <<>> \in Seq(Object) /\ DOMAIN <<>> = {}
  OBVIOUS
<1>3. /\ objects' \in [Procs -> Seq(Object)] /\ objects'[p] = <<>>
      /\ \A q \in Procs : q # p => objects'[q] = objects[q]
  BY <1>1, <1>2 DEF ObjectInv, ObjectTypes
<1>4. /\ cache' \in [Procs -> Nat] /\ cache'[p] = Nothing
      /\ \A q \in Procs : q # p => cache'[q] = cache[q]
  BY <1>1 DEF ObjectInv, MemoryTypes, Nothing
<1>5. /\ NoEvent \in [part : Whole, kind : {"created", "changed", "deleted"}, object : Nat,
                      at : {"none", "found", "unset"}]
      /\ NoEvent.object = Nothing
  BY DEF NoEvent, Nothing, Whole
<1>6. /\ handling' \in [Procs -> [part : Whole, kind : {"created", "changed", "deleted"}, object : Nat,
                                  at : {"none", "found", "unset"}]]
      /\ handling'[p] = NoEvent /\ \A q \in Procs : q # p => handling'[q] = handling[q]
  BY <1>1, <1>5 DEF ObjectInv, MemoryTypes
<1>7. \A t \in Threads : ProcOf[t] \in Procs
  BY LifecycleAssumption
<1>8. handle' \in [Threads -> Nat]
  BY <1>1 DEF ObjectInv, MemoryTypes, Nothing
<1>9. ObjectTypes'
  BY <1>1, <1>3, <1>4, <1>7 DEF ObjectInv, ObjectTypes
<1>10. MemoryTypes'
  BY <1>3, <1>4, <1>5, <1>6, <1>8 DEF ObjectInv, MemoryTypes
<1>11. ASSUME NEW q \in Procs PROVE Live(q)'
  <2>1. CASE q = p
    <3>1. DOMAIN objects'[q] = {}
      BY <1>2, <1>3, <2>1
    <3> QED BY <3>1 DEF Live
  <2>2. CASE q # p
    <3>1. objects'[q] = objects[q] /\ cache'[q] = cache[q] /\ Live(q)
      BY <1>3, <1>4, <2>2 DEF ObjectInv
    <3> QED BY <3>1 DEF Live
  <2> QED BY <2>1, <2>2
<1> QED BY <1>9, <1>10, <1>11 DEF ObjectInv

-----------------------------------------------------------------------------
(* The steps *)

\* Who removes has got the object.
RemoverHasIt ==
  \A t \in Threads :
    (\/ pc[t] \in {"lockParent", "lockSelf", "uncache"}
     \/ call[t].then \in {"lockParent", "lockSelf", "uncache"}) => handle[t] # Nothing

\* The first of the queue
LEMMA HeadTypes ==
  ASSUME RepositoryTypes, NEW p \in Procs, queue[p] # <<>>
  PROVE  /\ Head(queue[p]) \in Event \cup Threads
         /\ [queue EXCEPT ![p] = Tail(@)] \in [Procs -> Seq(Event \cup Threads)]
<1>1. PICK s \in Seq(Event \cup Threads) : s = queue[p]
  BY DEF RepositoryTypes
<1>2. Head(s) \in Event \cup Threads /\ Tail(s) \in Seq(Event \cup Threads)
  <2>1. s # <<>>
    BY <1>1
  <2> QED BY <2>1, HeadTailProperties
<1>3. PICK later \in Seq(Event \cup Threads) : later = Tail(s)
  BY <1>2
<1>4. [queue EXCEPT ![p] = later] \in [Procs -> Seq(Event \cup Threads)]
  BY DEF RepositoryTypes
<1> QED BY <1>1, <1>2, <1>3, <1>4

LEMMA StepObjects ==
  ASSUME ObjectInv, RepositoryTypes, RemoverHasIt, [Next]_vars
  PROVE  ObjectInv'
<1>a. handling \in [Procs -> [part : Whole, kind : {"created", "changed", "deleted"}, object : Nat,
                              at : {"none", "found", "unset"}]]
  BY DEF ObjectInv, MemoryTypes
<1>b. ASSUME UNCHANGED <<cached, handle, handling>> PROVE ObjectInv'
  BY <1>a, <1>b, SameObjects
<1>d. age \in Nat
  BY DEF RepositoryTypes
<1>c. \A t \in Threads : ProcOf[t] \in Procs
  BY LifecycleAssumption
<1>1. CASE UNCHANGED vars
  BY <1>1, <1>b DEF vars, cached
<1>2. ASSUME NEW t \in Threads, NEW create \in BOOLEAN, Get(t, create) PROVE ObjectInv'
  <2>1. /\ UNCHANGED <<cached, handling>>
        /\ handle' = handle \/ handle' = [handle EXCEPT ![t] = cache[ProcOf[t]]]
    BY <1>2 DEF Get
  <2> QED BY <1>a, <2>1, SameObjects
<1>3. ASSUME NEW t \in Threads,
             \/ Publish(t) \/ Remove(t) \/ GetLock(t) \/ Load(t) \/ Create(t) \/ Unlock(t)
             \/ LockParent(t) \/ LockSelf(t) \/ RemovedMeanwhile(t)
             \/ Delete(t) \/ DeleteKey(t) \/ Release(t) \/ CallThrows(t) \/ QueueMarker(t)
             \/ SetNodeData(t) \/ UserRelease(t)
             \/ \E type \in LockTypes : UserAcquire(t, type)
      PROVE  ObjectInv'
  <2>1. UNCHANGED <<cached, handle, handling>>
    BY <1>3 DEF Publish, SetNodeData, Remove, GetLock, Load, Create, Unlock, LockParent, LockSelf,
                RemovedMeanwhile, Delete, DeleteKey, Release, CallThrows, QueueMarker,
                UserAcquire, UserRelease
  <2> QED BY <1>b, <2>1
<1>4. ASSUME NEW t \in Threads, Insert(t) PROVE ObjectInv'
  <2>1. PICK p \in Procs : p = ProcOf[t]
    BY <1>c
  <2>2. CASE cache[p] = Nothing
    <3>1. /\ objects' = [objects EXCEPT ![p] = Append(@, [state |-> "READY", born |-> age])]
          /\ cache' = [cache EXCEPT ![p] = Len(objects[p]) + 1]
          /\ handle' = [handle EXCEPT ![t] = Len(objects[p]) + 1] /\ handling' = handling
      BY <1>4, <2>1, <2>2 DEF Insert
    <3> QED BY <1>d, <2>1, <2>2, <3>1, AddedObject
  <2>3. CASE cache[p] # Nothing
    <3>1. UNCHANGED <<cached, handle, handling>>
      BY <1>4, <2>1, <2>3 DEF Insert
    <3> QED BY <1>b, <3>1
  <2> QED BY <2>2, <2>3
<1>5. ASSUME NEW t \in Threads, InitializeFails(t) PROVE ObjectInv'
  <2>1. PICK p \in Procs : p = ProcOf[t]
    BY <1>c
  <2>2. /\ cache[p] = Nothing
        /\ objects' = [objects EXCEPT ![p] = Append(@, [state |-> "READY", born |-> age])]
        /\ cache' = [cache EXCEPT ![p] = Len(objects[p]) + 1]
        /\ handle' = handle /\ handling' = handling
    BY <1>5, <2>1 DEF InitializeFails
  <2> QED BY <1>d, <2>1, <2>2, AddedObject
<1>6. ASSUME NEW t \in Threads, Uncache(t) PROVE ObjectInv'
  <2>1. PICK p \in Procs : p = ProcOf[t]
    BY <1>c
  <2>2. /\ objects[p][handle[t]].state = "READY" /\ objects' = Set(p, handle[t], "REMOVED")
        /\ cache' = [cache EXCEPT ![p] = Nothing] /\ handle' = handle /\ handling' = handling
    BY <1>6, <2>1 DEF Uncache
  <2>3. handle[t] \in DOMAIN objects[p]
    BY <1>6, <2>1 DEF ObjectInv, ObjectTypes, RemoverHasIt, Uncache
  <2> QED BY <2>1, <2>2, <2>3, DroppedObject
<1>7. ASSUME NEW p \in Procs, TakeMarker(p) PROVE ObjectInv'
  <2>1. UNCHANGED <<cached, handle, handling>>
    BY <1>7 DEF TakeMarker
  <2> QED BY <1>b, <2>1
<1>8. ASSUME NEW p \in Procs, LookUp(p) PROVE ObjectInv'
  <2>1. PICK e \in [part : Whole, kind : {"created", "changed", "deleted"}] : e = Head(queue[p])
    BY <1>8, HeadTypes DEF LookUp, Event
  <2>2. /\ handling' = [handling EXCEPT ![p] =
              [part |-> e.part, kind |-> e.kind, object |-> cache[p], at |-> "found"]]
        /\ UNCHANGED cached /\ handle' = handle
    BY <1>8, <2>1 DEF LookUp, clients
  <2>3. PICK n \in Nat : n = cache[p]
    BY DEF ObjectInv, MemoryTypes
  <2>4. PICK work \in [part : Whole, kind : {"created", "changed", "deleted"}, object : Nat,
                        at : {"none", "found", "unset"}] :
          work = [part |-> e.part, kind |-> e.kind, object |-> n, at |-> "found"]
    OBVIOUS
  <2>5. handling' = [handling EXCEPT ![p] = work] /\ work.object = cache[p]
    BY <2>2, <2>3, <2>4
  <2> QED BY <1>a, <2>2, <2>5, SameObjects
<1>9. ASSUME NEW p \in Procs, Unset(p) PROVE ObjectInv'
  <2>1. handling' = [handling EXCEPT ![p].at = "unset"] /\ UNCHANGED <<cached, handle>>
    BY <1>9 DEF Unset, clients
  <2>2. PICK old \in [part : Whole, kind : {"created", "changed", "deleted"}, object : Nat,
                       at : {"none", "found", "unset"}] : old = handling[p]
    BY <1>a
  <2>3. PICK work \in [part : Whole, kind : {"created", "changed", "deleted"}, object : Nat,
                        at : {"none", "found", "unset"}] :
          work = [old EXCEPT !.at = "unset"] /\ work.object = old.object
    <3>1. [old EXCEPT !.at = "unset"] \in
            [part : Whole, kind : {"created", "changed", "deleted"}, object : Nat,
             at : {"none", "found", "unset"}]
      OBVIOUS
    <3>2. [old EXCEPT !.at = "unset"].object = old.object
      OBVIOUS
    <3> QED BY <3>1, <3>2
  <2>4. handling' = [handling EXCEPT ![p] = work] /\ work.object = handling[p].object
    BY <2>1, <2>2, <2>3
  <2> QED BY <1>a, <2>1, <2>4, SameObjects
<1>e. ASSUME NEW p \in Procs, handling' = [handling EXCEPT ![p] = NoEvent], UNCHANGED <<cached, handle>>
      PROVE  ObjectInv'
  <2>1. /\ NoEvent \in [part : Whole, kind : {"created", "changed", "deleted"}, object : Nat,
                         at : {"none", "found", "unset"}]
        /\ NoEvent.object = Nothing
    BY DEF NoEvent, Nothing, Whole
  <2> QED BY <1>a, <1>e, <2>1, SameObjects
<1>10. ASSUME NEW p \in Procs, Rearm(p) PROVE ObjectInv'
  <2>1. handling' = [handling EXCEPT ![p] = NoEvent] /\ UNCHANGED <<cached, handle>>
    BY <1>10 DEF Rearm, clients
  <2> QED BY <1>e, <2>1
<1>11. ASSUME NEW p \in Procs, RemoveFound(p) PROVE ObjectInv'
  <2>1. PICK object \in {Nothing} \cup DOMAIN objects[p] : object = handling[p].object
    BY DEF ObjectInv, MemoryTypes
  <2>2. handling' = [handling EXCEPT ![p] = NoEvent] /\ handle' = handle
    BY <1>11 DEF RemoveFound, clients
  <2>3. \/ UNCHANGED cached
        \/ /\ object # Nothing /\ objects[p][object].state = "READY"
           /\ objects' = Set(p, object, "REMOVED") /\ cache' = [cache EXCEPT ![p] = Nothing]
    BY <1>11, <2>1 DEF RemoveFound
  <2>4. CASE UNCHANGED cached
    BY <1>e, <2>2, <2>4
  <2>5. CASE /\ object # Nothing /\ objects[p][object].state = "READY"
             /\ objects' = Set(p, object, "REMOVED") /\ cache' = [cache EXCEPT ![p] = Nothing]
    <3>1. object \in DOMAIN objects[p]
      BY <2>1, <2>5
    <3> QED BY <2>2, <2>5, <3>1, DroppedObject
  <2> QED BY <2>3, <2>4, <2>5
<1> QED BY <1>1, <1>2, <1>3, <1>4, <1>5, <1>6, <1>7, <1>8, <1>9, <1>10, <1>11, CrashedObjects
        DEF Next, Step, EventStep

LEMMA StepRepository ==
  ASSUME RepositoryTypes, ClientTypes, ObjectInv, [Next]_vars
  PROVE  RepositoryTypes'
<1>a. ASSUME UNCHANGED <<nodes, age, outrun, watch, ready, queue>> PROVE RepositoryTypes'
  BY <1>a DEF RepositoryTypes
<1>c. \A t \in Threads : ProcOf[t] \in Procs
  BY LifecycleAssumption
<1>d. \A t \in Threads : Parts[call[t].part] \in Whole
  BY DEF ClientTypes, Call, Parts, Whole
<1>1. CASE UNCHANGED vars
  BY <1>1, <1>a DEF vars
<1>2. ASSUME NEW t \in Threads,
             \/ \E create \in BOOLEAN : Get(t, create)
             \/ Publish(t) \/ Remove(t) \/ GetLock(t) \/ Insert(t) \/ InitializeFails(t) \/ Unlock(t)
             \/ LockParent(t) \/ LockSelf(t) \/ Uncache(t) \/ RemovedMeanwhile(t)
             \/ Release(t) \/ CallThrows(t)
             \/ \E type \in LockTypes : UserAcquire(t, type)
             \/ UserRelease(t)
      PROVE  RepositoryTypes'
  <2>1. UNCHANGED <<nodes, age, outrun, watch, ready, queue>>
    BY <1>2 DEF repository, Get, Publish, Remove, GetLock, Insert, InitializeFails, Unlock,
                LockParent, LockSelf, Uncache, RemovedMeanwhile, Release, CallThrows, UserAcquire,
                UserRelease
  <2> QED BY <1>a, <2>1
<1>3. ASSUME NEW t \in Threads, Load(t) PROVE RepositoryTypes'
  <2>1. SetWatch(ProcOf[t], Parts[call[t].part]) /\ UNCHANGED <<nodes, age, outrun, queue>>
    BY <1>3 DEF Load
  <2>2. watch' \in [Procs -> SUBSET Whole] /\ ready' \in [Procs -> SUBSET Whole]
    BY <1>c, <1>d, <2>1, SetWatchTypes
  <2> QED BY <2>1, <2>2 DEF RepositoryTypes
<1>4. ASSUME NEW t \in Threads, Create(t) PROVE RepositoryTypes'
  <2>1. UNCHANGED <<age, outrun, ready>>
    BY <1>4 DEF Create
  <2>2. CASE UNCHANGED <<nodes, watch, queue>>
    BY <1>a, <2>1, <2>2
  <2>3. CASE Change(nodes \cup {Parts[i] : i \in 1 .. call[t].part})
    <3>1. nodes \cup {Parts[i] : i \in 1 .. call[t].part} \in SUBSET Whole
      <4>1. \A i \in 1 .. 2 : Parts[i] \in Whole
        BY DEF Parts, Whole
      <4>2. call[t].part \in 1 .. 2
        BY DEF ClientTypes, Call
      <4>3. \A i \in 1 .. call[t].part : Parts[i] \in Whole
        BY <4>1, <4>2
      <4> QED BY <4>3 DEF RepositoryTypes
    <3>2. /\ nodes' \subseteq Whole /\ watch' \in [Procs -> SUBSET Whole]
          /\ queue' \in [Procs -> Seq(Event \cup Threads)]
      BY <2>3, <3>1, ChangeTypes
    <3> QED BY <2>1, <3>2 DEF RepositoryTypes
  <2> QED BY <1>4, <2>2, <2>3 DEF Create
<1>5. ASSUME NEW t \in Threads, Delete(t) \/ DeleteKey(t) PROVE RepositoryTypes'
  <2>1. PICK new \in SUBSET Whole : Change(new)
    BY <1>5 DEF Delete, DeleteKey, RepositoryTypes
  <2>2. ready' = ready /\ age' \in Nat /\ outrun' \subseteq Procs
    BY <1>5 DEF Delete, DeleteKey, RepositoryTypes
  <2>3. /\ nodes' \subseteq Whole /\ watch' \in [Procs -> SUBSET Whole]
        /\ queue' \in [Procs -> Seq(Event \cup Threads)]
    BY <2>1, ChangeTypes
  <2> QED BY <2>2, <2>3 DEF RepositoryTypes
<1>12. ASSUME NEW t \in Threads, SetNodeData(t) PROVE RepositoryTypes'
  <2>1. UNCHANGED <<age, outrun, ready>>
    BY <1>12 DEF SetNodeData
  <2>2. CASE UNCHANGED <<nodes, watch, queue>>
    BY <1>a, <2>1, <2>2
  <2>3. CASE WriteState
    BY <2>1, <2>3, WriteTypes DEF RepositoryTypes
  <2> QED BY <1>12, <2>2, <2>3 DEF SetNodeData
<1>6. ASSUME NEW t \in Threads, QueueMarker(t) PROVE RepositoryTypes'
  <2>1. PICK p \in Procs : p = ProcOf[t]
    BY <1>c
  <2>2. PICK s \in Seq(Event \cup Threads) : s = queue[p]
    BY DEF RepositoryTypes
  <2>3. PICK later \in Seq(Event \cup Threads) : later = Append(s, t)
    <3>1. Append(s, t) \in Seq(Event \cup Threads)
      OBVIOUS
    <3> QED BY <3>1
  <2>4. queue' = [queue EXCEPT ![p] = later] /\ UNCHANGED <<nodes, age, outrun, watch, ready>>
    BY <1>6, <2>1, <2>2, <2>3 DEF QueueMarker
  <2> QED BY <2>4 DEF RepositoryTypes
<1>7. ASSUME NEW p \in Procs, Crash(p) PROVE RepositoryTypes'
  <2>1. <<>> \in Seq(Event \cup Threads)
    OBVIOUS
  <2> QED BY <1>7, <2>1 DEF Crash, RepositoryTypes
<1>8. ASSUME NEW p \in Procs, TakeMarker(p) \/ LookUp(p) PROVE RepositoryTypes'
  <2>1. queue[p] # <<>> /\ queue' = [queue EXCEPT ![p] = Tail(@)]
    BY <1>8 DEF TakeMarker, LookUp
  <2>2. UNCHANGED <<nodes, age, outrun, watch, ready>>
    BY <1>8 DEF TakeMarker, LookUp
  <2>3. queue' \in [Procs -> Seq(Event \cup Threads)]
    BY <2>1, HeadTypes
  <2> QED BY <2>2, <2>3 DEF RepositoryTypes
<1>9. ASSUME NEW p \in Procs, Unset(p) PROVE RepositoryTypes'
  BY <1>9 DEF Unset, repository, RepositoryTypes
<1>10. ASSUME NEW p \in Procs, RemoveFound(p) PROVE RepositoryTypes'
  <2>1. UNCHANGED <<nodes, age, outrun, watch, ready, queue>>
    BY <1>10 DEF RemoveFound, repository
  <2> QED BY <1>a, <2>1
<1>11. ASSUME NEW p \in Procs, Rearm(p) PROVE RepositoryTypes'
  <2>1. SetWatch(p, handling[p].part) /\ UNCHANGED <<nodes, age, outrun, queue>>
    BY <1>11 DEF Rearm
  <2>2. handling[p].part \in Whole
    BY DEF ObjectInv, MemoryTypes
  <2>3. watch' \in [Procs -> SUBSET Whole] /\ ready' \in [Procs -> SUBSET Whole]
    BY <2>1, <2>2, SetWatchTypes
  <2> QED BY <2>1, <2>3 DEF RepositoryTypes
<1> QED BY <1>1, <1>2, <1>3, <1>4, <1>5, <1>6, <1>7, <1>8, <1>9, <1>10, <1>11, <1>12
        DEF Next, Step, EventStep

LEMMA AcquireTypes ==
  ASSUME ClientTypes, NEW t \in Threads, NEW type \in LockTypes, NEW label \in PC,
         AcquireNew(t, type, label) \/ Reenter(t, type, label) \/ ReenterFails(t, type)
  PROVE  lock' \in LockRecords /\ pc' \in [Threads -> PC] /\ call' \in [Threads -> Call]
<1>1. lock \in LockRecords /\ pc \in [Threads -> PC] /\ call \in [Threads -> Call]
  BY DEF ClientTypes
<1>2. CASE AcquireNew(t, type, label)
  BY <1>1, <1>2, LockRecordTypes, ThreadTypes, PcTypes DEF AcquireNew
<1>3. CASE Reenter(t, type, label)
  BY <1>1, <1>3, LockRecordTypes, ThreadTypes DEF Reenter
<1>4. CASE ReenterFails(t, type)
  BY <1>1, <1>4, ThreadTypes DEF ReenterFails
<1> QED BY <1>2, <1>3, <1>4

LEMMA StepClient ==
  ASSUME ClientTypes, [Next]_vars
  PROVE  ClientTypes'
<1>a. lock \in LockRecords /\ pc \in [Threads -> PC] /\ call \in [Threads -> Call]
  BY DEF ClientTypes
<1>b. "SHARED" \in LockTypes /\ "EXCL" \in LockTypes
  BY DEF LockTypes
<1>c. ASSUME UNCHANGED <<lock, asked, pc, call>> PROVE ClientTypes'
  BY <1>c DEF ClientTypes
<1>1. CASE UNCHANGED vars
  BY <1>1, <1>c DEF vars
<1>2. ASSUME NEW t \in Threads, NEW create \in BOOLEAN, Get(t, create) PROVE ClientTypes'
  <2>1. UNCHANGED <<lock, asked>>
    BY <1>2 DEF Get
  <2>2. \/ UNCHANGED <<pc, call>>
        \/ Goto(t, "lock") /\ call' = [call EXCEPT ![t] = [NoCall EXCEPT !.create = create]]
    BY <1>2 DEF Get
  <2>3. pc' \in [Threads -> PC]
    BY <1>a, <2>2, PcTypes, ThreadTypes
  <2>4. call' \in [Threads -> Call]
    BY <1>a, <2>2, BeginTypes
  <2> QED BY <2>1, <2>3, <2>4 DEF ClientTypes
<1>3. ASSUME NEW t \in Threads, GetLock(t) PROVE ClientTypes'
  <2>1. asked' = asked
    BY <1>3 DEF GetLock
  <2>2. CASE \E type \in LockTypes : AcquireNew(t, type, "load")
    BY <2>1, <2>2, PcTypes, AcquireTypes DEF ClientTypes
  <2>3. CASE Return(t) /\ UNCHANGED lock
    BY <1>a, <2>1, <2>3, ThreadTypes DEF ClientTypes
  <2>4. CASE Goto(t, "load") /\ UNCHANGED <<call, lock>>
    BY <1>a, <2>1, <2>4, PcTypes, ThreadTypes DEF ClientTypes
  <2> QED BY <1>3, <1>b, <2>2, <2>3, <2>4 DEF GetLock
<1>4. ASSUME NEW t \in Threads, Load(t) PROVE ClientTypes'
  <2>1. UNCHANGED <<asked, lock>>
    BY <1>4 DEF Load
  <2>2. \/ call[t].part < 2 /\ call' = [call EXCEPT ![t].part = @ + 1] /\ UNCHANGED pc
        \/ (Goto(t, "insert") \/ Goto(t, "unlock")) /\ UNCHANGED call
        \/ Goto(t, "create") /\ call' = [call EXCEPT ![t].part = 1, ![t].again = TRUE]
        \/ Return(t)
    BY <1>4 DEF Load, Parts
  <2>3. pc' \in [Threads -> PC]
    BY <1>a, <2>2, PcTypes, ThreadTypes
  <2>4. call' \in [Threads -> Call]
    <3>1. CASE Return(t)
      BY <1>a, <3>1, ThreadTypes
    <3>2. CASE \/ call[t].part < 2 /\ call' = [call EXCEPT ![t].part = @ + 1]
               \/ call' = [call EXCEPT ![t].part = 1, ![t].again = TRUE]
               \/ call' = call
      BY <1>a, <3>2, PartTypes, ZenonT(60)
    <3> QED BY <2>2, <3>1, <3>2
  <2> QED BY <2>1, <2>3, <2>4 DEF ClientTypes
<1>5. ASSUME NEW t \in Threads, Create(t) PROVE ClientTypes'
  <2>1. UNCHANGED <<asked, lock>>
    BY <1>5 DEF Create
  <2>2. \/ call[t].part < 2 /\ call' = [call EXCEPT ![t].part = @ + 1] /\ UNCHANGED pc
        \/ Goto(t, "load") /\ call' = [call EXCEPT ![t].part = 1]
    BY <1>5 DEF Create, Parts
  <2>3. pc' \in [Threads -> PC]
    BY <1>a, <2>2, PcTypes, ThreadTypes
  <2>4. call' \in [Threads -> Call]
    BY <1>a, <2>2, PartTypes, ZenonT(60)
  <2> QED BY <2>1, <2>3, <2>4 DEF ClientTypes
<1>6. ASSUME NEW t \in Threads, Insert(t) \/ InitializeFails(t) \/ SetNodeData(t) \/ CallThrows(t)
      PROVE  ClientTypes'
  <2>1. UNCHANGED <<asked, lock>>
    BY <1>6 DEF Insert, InitializeFails, SetNodeData, CallThrows
  <2>2. Return(t) \/ (Goto(t, "unlock") /\ UNCHANGED call)
    BY <1>6 DEF Insert, InitializeFails, SetNodeData, CallThrows
  <2> QED BY <1>a, <2>1, <2>2, PcTypes, ThreadTypes DEF ClientTypes
<1>7. ASSUME NEW t \in Threads, Unlock(t) \/ RemovedMeanwhile(t) PROVE ClientTypes'
  <2>1. lock' = Released(t) /\ Return(t) /\ asked' = asked
    BY <1>7 DEF Unlock, RemovedMeanwhile
  <2> QED BY <1>a, <2>1, LockRecordTypes, ThreadTypes DEF ClientTypes
<1>8. ASSUME NEW t \in Threads, LockParent(t) PROVE ClientTypes'
  BY <1>8, <1>b, PcTypes, AcquireTypes DEF LockParent, ClientTypes
<1>9. ASSUME NEW t \in Threads, LockSelf(t) PROVE ClientTypes'
  BY <1>9, <1>a, PcTypes, ThreadTypes DEF LockSelf, ClientTypes
<1>10. ASSUME NEW t \in Threads,
              \/ Publish(t) \/ Remove(t) \/ Uncache(t) \/ Delete(t) \/ DeleteKey(t)
              \/ QueueMarker(t)
       PROVE  ClientTypes'
  <2>1. UNCHANGED <<lock, asked, call>>
    BY <1>10 DEF Publish, Remove, NewCall, Uncache, Delete, DeleteKey, QueueMarker
  <2>2. \E label \in PC : Goto(t, label)
    BY <1>10, PcTypes DEF Publish, Remove, NewCall, Uncache, Delete, DeleteKey, QueueMarker
  <2> QED BY <1>a, <2>1, <2>2, ThreadTypes DEF ClientTypes
<1>11. ASSUME NEW t \in Threads, Release(t) PROVE ClientTypes'
  BY <1>11, <1>a, PcTypes, ThreadTypes, LockRecordTypes DEF Release, ClientTypes
<1>12. ASSUME NEW t \in Threads, NEW type \in LockTypes, UserAcquire(t, type) PROVE ClientTypes'
  <2>1. asked' \in [Threads -> BOOLEAN]
    BY <1>12 DEF UserAcquire, ClientTypes
  <2>2. AcquireNew(t, type, "idle") \/ Reenter(t, type, "idle") \/ ReenterFails(t, type)
    BY <1>12 DEF UserAcquire
  <2> QED BY <2>1, <2>2, PcTypes, AcquireTypes DEF ClientTypes
<1>13. ASSUME NEW t \in Threads, UserRelease(t) PROVE ClientTypes'
  BY <1>13, <1>a, LockRecordTypes DEF UserRelease, ClientTypes
<1>14. ASSUME NEW p \in Procs, Crash(p) PROVE ClientTypes'
  <2>1. Free \in [type : LockTypes, count : Nat]
    BY DEF Free, LockTypes
  <2>2. lock' \in LockRecords
    BY <1>14, <1>a, <2>1 DEF Crash, LockRecords
  <2>3. pc' \in [Threads -> PC] /\ call' \in [Threads -> Call]
    BY <1>14, <1>a, PcTypes DEF Crash
  <2>4. asked' \in [Threads -> BOOLEAN]
    BY <1>14 DEF Crash, ClientTypes
  <2> QED BY <2>2, <2>3, <2>4 DEF ClientTypes
<1>15. ASSUME NEW p \in Procs, TakeMarker(p) PROVE ClientTypes'
  <2>1. PICK t \in Threads : t = Head(queue[p])
    BY <1>15 DEF TakeMarker
  <2>2. UNCHANGED <<lock, asked>> /\ Goto(t, call[t].then) /\ call' = [call EXCEPT ![t].then = "idle"]
    BY <1>15, <2>1 DEF TakeMarker
  <2>3. call[t].then \in PC
    BY <1>a DEF Call
  <2> QED BY <1>a, <2>2, <2>3, PcTypes, ThreadTypes DEF ClientTypes
<1>16. ASSUME NEW p \in Procs, LookUp(p) \/ Unset(p) \/ RemoveFound(p) \/ Rearm(p) PROVE ClientTypes'
  <2>1. UNCHANGED clients
    BY <1>16 DEF LookUp, Unset, RemoveFound, Rearm
  <2> QED BY <1>c, <2>1 DEF clients
<1> QED BY <1>1, <1>2, <1>3, <1>4, <1>5, <1>6, <1>7, <1>8, <1>9, <1>10, <1>11, <1>12, <1>13,
           <1>14, <1>15, <1>16 DEF Next, Step, EventStep

\* A thread takes a step within a call, or begins or ends one.
LEMMA OwnStep ==
  ASSUME RemoverHasIt, NEW t \in Threads,
         \A u \in Threads \ {t} :
           pc'[u] = pc[u] /\ call'[u].then = call[u].then /\ handle'[u] = handle[u],
         \/ handle'[t] # Nothing
         \/ /\ pc'[t] \notin {"lockParent", "lockSelf", "uncache"}
            /\ call'[t].then \notin {"lockParent", "lockSelf", "uncache"}
  PROVE  RemoverHasIt'
<1>1. ASSUME NEW u \in Threads,
             \/ pc'[u] \in {"lockParent", "lockSelf", "uncache"}
             \/ call'[u].then \in {"lockParent", "lockSelf", "uncache"}
      PROVE  handle'[u] # Nothing
  <2>1. CASE u = t
    BY <1>1, <2>1
  <2>2. CASE u # t
    BY <1>1, <2>2 DEF RemoverHasIt
  <2> QED BY <2>1, <2>2
<1> QED BY <1>1 DEF RemoverHasIt, Nothing

\* What a step of t does to its place and to where it goes on after synchronize().
LEMMA ThenOf ==
  ASSUME pc \in [Threads -> PC], call \in [Threads -> Call], NEW t \in Threads
  PROVE  /\ \A label : Goto(t, label) =>
              pc'[t] = label /\ \A u \in Threads \ {t} : pc'[u] = pc[u]
         /\ Return(t) =>
              /\ pc'[t] = "idle" /\ call'[t].then = "idle"
              /\ \A u \in Threads \ {t} : pc'[u] = pc[u] /\ call'[u] = call[u]
         /\ \A label : call' = [call EXCEPT ![t].then = label] =>
              call'[t].then = label /\ \A u \in Threads \ {t} : call'[u] = call[u]
         /\ \A create : call' = [call EXCEPT ![t] = [NoCall EXCEPT !.create = create]] =>
              call'[t].then = "idle" /\ \A u \in Threads \ {t} : call'[u] = call[u]
         /\ (\/ call' = [call EXCEPT ![t].part = 1, ![t].again = TRUE]
             \/ call' = [call EXCEPT ![t].part = 1]
             \/ call' = [call EXCEPT ![t].part = @ + 1]) =>
              \A u \in Threads : call'[u].then = call[u].then
<1>1. PICK record \in [create : BOOLEAN, part : 1 .. 2, again : BOOLEAN, then : PC] :
        record = call[t]
  BY DEF Call
<1>2. \A label : Goto(t, label) => pc'[t] = label /\ \A u \in Threads \ {t} : pc'[u] = pc[u]
  BY DEF Goto
<1>3. NoCall.then = "idle"
  BY DEF NoCall
<1>4. Return(t) =>
        /\ pc'[t] = "idle" /\ call'[t].then = "idle"
        /\ \A u \in Threads \ {t} : pc'[u] = pc[u] /\ call'[u] = call[u]
  BY <1>2, <1>3 DEF Return
<1>5. \A label : call' = [call EXCEPT ![t].then = label] =>
        call'[t].then = label /\ \A u \in Threads \ {t} : call'[u] = call[u]
  <2>1. \A label : [record EXCEPT !.then = label].then = label
    BY <1>1
  <2> QED BY <1>1, <2>1
<1>6. \A create : call' = [call EXCEPT ![t] = [NoCall EXCEPT !.create = create]] =>
        call'[t].then = "idle" /\ \A u \in Threads \ {t} : call'[u] = call[u]
  <2>1. \A create : [NoCall EXCEPT !.create = create].then = "idle"
    BY DEF NoCall
  <2> QED BY <2>1
<1>7. /\ [record EXCEPT !.part = 1, !.again = TRUE].then = record.then
      /\ [record EXCEPT !.part = 1].then = record.then
      /\ [record EXCEPT !.part = record.part + 1].then = record.then
  BY <1>1
<1>8. (\/ call' = [call EXCEPT ![t].part = 1, ![t].again = TRUE]
       \/ call' = [call EXCEPT ![t].part = 1]
       \/ call' = [call EXCEPT ![t].part = @ + 1]) =>
        \A u \in Threads : call'[u].then = call[u].then
  <2>1. (\/ call' = [call EXCEPT ![t].part = 1, ![t].again = TRUE]
         \/ call' = [call EXCEPT ![t].part = 1]
         \/ call' = [call EXCEPT ![t].part = @ + 1]) =>
          \E new : call' = [call EXCEPT ![t] = new] /\ new.then = record.then
    BY <1>1, <1>7
  <2> QED BY <1>1, <2>1
<1> QED BY <1>2, <1>4, <1>5, <1>6, <1>8

LEMMA StepRemover ==
  ASSUME ClientTypes, ObjectInv, RemoverHasIt, [Next]_vars
  PROVE  RemoverHasIt'
<1>a. /\ pc \in [Threads -> PC] /\ call \in [Threads -> Call]
      /\ handle \in [Threads -> Nat]
  BY DEF ClientTypes, ObjectInv, MemoryTypes
<1>b. \A t \in Threads : ProcOf[t] \in Procs
  BY LifecycleAssumption
<1>1. ASSUME UNCHANGED <<pc, call, handle>> PROVE RemoverHasIt'
  BY <1>1 DEF RemoverHasIt
<1>2. ASSUME NEW t \in Threads, NEW create \in BOOLEAN, Get(t, create) PROVE RemoverHasIt'
  <2>1. CASE cache[ProcOf[t]] # Nothing
    <3>1. /\ handle' = [handle EXCEPT ![t] = cache[ProcOf[t]]] /\ UNCHANGED <<pc, call>>
      BY <1>2, <2>1 DEF Get
    <3>2. handle'[t] # Nothing /\ \A u \in Threads \ {t} : handle'[u] = handle[u]
      BY <1>a, <2>1, <3>1
    <3> QED BY <3>1, <3>2, OwnStep
  <2>2. CASE cache[ProcOf[t]] = Nothing
    <3>1. /\ Goto(t, "lock") /\ call' = [call EXCEPT ![t] = [NoCall EXCEPT !.create = create]]
          /\ handle' = handle
      BY <1>2, <2>2 DEF Get
    <3>2. /\ pc'[t] = "lock" /\ call'[t].then = "idle"
          /\ \A u \in Threads \ {t} : pc'[u] = pc[u] /\ call'[u] = call[u]
      BY <1>a, <3>1, ThenOf
    <3> QED BY <3>1, <3>2, OwnStep
  <2> QED BY <2>1, <2>2
<1>3. ASSUME NEW t \in Threads, handle' = handle, Return(t) PROVE RemoverHasIt'
  <2>1. /\ pc'[t] = "idle" /\ call'[t].then = "idle"
        /\ \A u \in Threads \ {t} : pc'[u] = pc[u] /\ call'[u] = call[u]
    BY <1>a, <1>3, ThenOf
  <2> QED BY <1>3, <2>1, OwnStep
<1>4. ASSUME NEW t \in Threads, handle' = handle, NEW label, Goto(t, label),
             \A u \in Threads : call'[u].then = call[u].then,
             label \notin {"lockParent", "lockSelf", "uncache"} \/ handle[t] # Nothing
      PROVE  RemoverHasIt'
  <2>1. pc'[t] = label /\ \A u \in Threads \ {t} : pc'[u] = pc[u]
    BY <1>a, <1>4, ThenOf
  <2>2. call[t].then \in {"lockParent", "lockSelf", "uncache"} => handle[t] # Nothing
    BY DEF RemoverHasIt
  <2> QED BY <1>4, <2>1, <2>2, OwnStep
<1>5. ASSUME NEW t \in Threads, handle' = handle, NEW label, NEW type,
             \/ AcquireNew(t, type, label) \/ Reenter(t, type, label) \/ ReenterFails(t, type),
             label \notin {"lockParent", "lockSelf", "uncache"} \/ handle[t] # Nothing
      PROVE  RemoverHasIt'
  <2>1. CASE AcquireNew(t, type, label)
    <3>1. Goto(t, "sync") /\ call' = [call EXCEPT ![t].then = label]
      BY <2>1 DEF AcquireNew
    <3>2. /\ pc'[t] = "sync" /\ \A u \in Threads \ {t} : pc'[u] = pc[u]
          /\ call'[t].then = label /\ \A u \in Threads \ {t} : call'[u] = call[u]
      BY <1>a, <3>1, ThenOf
    <3> QED BY <1>5, <3>2, OwnStep
  <2>2. CASE Reenter(t, type, label)
    BY <1>4, <1>5, <2>2 DEF Reenter
  <2>3. CASE ReenterFails(t, type)
    BY <1>3, <1>5, <2>3 DEF ReenterFails
  <2> QED BY <1>5, <2>1, <2>2, <2>3
<1>6. ASSUME NEW t \in Threads, GetLock(t) PROVE RemoverHasIt'
  <2>1. handle' = handle
    BY <1>6 DEF GetLock
  <2>2. \/ \E type : AcquireNew(t, type, "load")
        \/ Return(t)
        \/ Goto(t, "load") /\ UNCHANGED call
    BY <1>6 DEF GetLock
  <2> QED BY <1>3, <1>4, <1>5, <2>1, <2>2
<1>7. ASSUME NEW t \in Threads, Load(t) \/ Create(t) PROVE RemoverHasIt'
  <2>1. handle' = handle
    BY <1>7 DEF Load, Create
  <2>2. CASE Return(t)
    BY <1>3, <2>1, <2>2
  <2>3. CASE pc' = pc /\ call' = [call EXCEPT ![t].part = @ + 1]
    <3>1. \A u \in Threads : call'[u].then = call[u].then
      BY <1>a, <2>3, ThenOf
    <3> QED BY <2>1, <2>3, <3>1 DEF RemoverHasIt
  <2>4. CASE (Goto(t, "insert") \/ Goto(t, "unlock")) /\ UNCHANGED call
    BY <1>4, <2>1, <2>4
  <2>5. CASE \/ Goto(t, "create") /\ call' = [call EXCEPT ![t].part = 1, ![t].again = TRUE]
             \/ Goto(t, "load") /\ call' = [call EXCEPT ![t].part = 1]
    <3>1. \A u \in Threads : call'[u].then = call[u].then
      BY <1>a, <2>5, ThenOf
    <3> QED BY <1>4, <2>1, <2>5, <3>1
  <2>6. \/ Return(t)
        \/ pc' = pc /\ call' = [call EXCEPT ![t].part = @ + 1]
        \/ (Goto(t, "insert") \/ Goto(t, "unlock")) /\ UNCHANGED call
        \/ Goto(t, "create") /\ call' = [call EXCEPT ![t].part = 1, ![t].again = TRUE]
        \/ Goto(t, "load") /\ call' = [call EXCEPT ![t].part = 1]
    BY <1>7 DEF Load, Create
  <2> QED BY <2>2, <2>3, <2>4, <2>5, <2>6
<1>8. ASSUME NEW t \in Threads, Insert(t) PROVE RemoverHasIt'
  <2>1. PICK p \in Procs : p = ProcOf[t]
    BY <1>b
  <2>2. CASE cache[p] = Nothing
    <3>1. PICK n \in Nat : n = Len(objects[p])
      BY ObjectPositions
    <3>2. handle' = [handle EXCEPT ![t] = n + 1] /\ Goto(t, "unlock") /\ call' = call
      BY <1>8, <2>1, <2>2, <3>1 DEF Insert
    <3>3. handle'[t] # Nothing /\ \A u \in Threads \ {t} : handle'[u] = handle[u]
      BY <1>a, <3>1, <3>2 DEF Nothing
    <3>4. \A u \in Threads \ {t} : pc'[u] = pc[u]
      BY <1>a, <3>2, ThenOf
    <3> QED BY <3>2, <3>3, <3>4, OwnStep
  <2>3. CASE cache[p] # Nothing
    BY <1>3, <1>8, <2>1, <2>3 DEF Insert
  <2> QED BY <2>2, <2>3
<1>9. ASSUME NEW t \in Threads,
             \/ InitializeFails(t) \/ Unlock(t) \/ SetNodeData(t) \/ RemovedMeanwhile(t)
             \/ CallThrows(t)
      PROVE  RemoverHasIt'
  BY <1>3, <1>9 DEF InitializeFails, SetNodeData, Unlock, RemovedMeanwhile, CallThrows
<1>10. ASSUME NEW t \in Threads, Publish(t) \/ Remove(t) PROVE RemoverHasIt'
  BY <1>4, <1>10 DEF Publish, Remove, NewCall
<1>11. ASSUME NEW t \in Threads, LockParent(t) PROVE RemoverHasIt'
  <2>1. handle[t] # Nothing
    BY <1>11 DEF LockParent, RemoverHasIt
  <2> QED BY <1>5, <1>11, <2>1 DEF LockParent
<1>12. ASSUME NEW t \in Threads, LockSelf(t) PROVE RemoverHasIt'
  <2>1. handle[t] # Nothing
    BY <1>12 DEF LockSelf, RemoverHasIt
  <2>2. handle' = handle
    BY <1>12 DEF LockSelf
  <2>3. CASE Return(t)
    BY <1>3, <2>2, <2>3
  <2>4. CASE Goto(t, "sync") /\ call' = [call EXCEPT ![t].then = "uncache"]
    <3>1. /\ \A u \in Threads \ {t} : pc'[u] = pc[u] /\ call'[u] = call[u]
      BY <1>a, <2>4, ThenOf
    <3> QED BY <2>1, <2>2, <3>1, OwnStep
  <2> QED BY <1>12, <2>3, <2>4 DEF LockSelf
<1>13. ASSUME NEW t \in Threads, Uncache(t) \/ Delete(t) \/ DeleteKey(t) \/ QueueMarker(t)
       PROVE  RemoverHasIt'
  <2>1. UNCHANGED <<call, handle>>
    BY <1>13 DEF Uncache, Delete, DeleteKey, QueueMarker
  <2>2. Goto(t, "delete") \/ Goto(t, "deleteKey") \/ Goto(t, "release") \/ Goto(t, "await")
    BY <1>13 DEF Uncache, Delete, DeleteKey, QueueMarker
  <2> QED BY <1>4, <2>1, <2>2
<1>14. ASSUME NEW t \in Threads, Release(t) PROVE RemoverHasIt'
  <2>1. Goto(t, "sync") /\ call' = [call EXCEPT ![t].then = "idle"] /\ handle' = handle
    BY <1>14 DEF Release
  <2>2. /\ pc'[t] = "sync" /\ call'[t].then = "idle"
        /\ \A u \in Threads \ {t} : pc'[u] = pc[u] /\ call'[u] = call[u]
    BY <1>a, <2>1, ThenOf
  <2> QED BY <2>1, <2>2, OwnStep
<1>15. ASSUME NEW t \in Threads, NEW type \in LockTypes, UserAcquire(t, type) PROVE RemoverHasIt'
  <2>1. handle' = handle
    BY <1>15 DEF UserAcquire
  <2>2. AcquireNew(t, type, "idle") \/ Reenter(t, type, "idle") \/ ReenterFails(t, type)
    BY <1>15 DEF UserAcquire
  <2> QED BY <1>5, <2>1, <2>2
<1>16. ASSUME NEW t \in Threads, UserRelease(t) PROVE RemoverHasIt'
  <2>1. UNCHANGED <<pc, call, handle>>
    BY <1>16 DEF UserRelease
  <2> QED BY <1>1, <2>1
<1>17. ASSUME NEW p \in Procs, TakeMarker(p) PROVE RemoverHasIt'
  <2>1. PICK t \in Threads : t = Head(queue[p])
    BY <1>17 DEF TakeMarker
  <2>2. handle' = handle /\ Goto(t, call[t].then) /\ call' = [call EXCEPT ![t].then = "idle"]
    BY <1>17, <2>1 DEF TakeMarker
  <2>3. PICK label \in PC : label = call[t].then
    BY <1>a DEF Call
  <2>4. /\ pc'[t] = label /\ \A u \in Threads \ {t} : pc'[u] = pc[u]
        /\ call'[t].then = "idle" /\ \A u \in Threads \ {t} : call'[u] = call[u]
    BY <1>a, <2>2, <2>3, ThenOf
  <2>5. handle[t] = Nothing => label \notin {"lockParent", "lockSelf", "uncache"}
    BY <2>3 DEF RemoverHasIt
  <2> QED BY <2>2, <2>4, <2>5, OwnStep
<1>18. ASSUME NEW p \in Procs, LookUp(p) \/ Unset(p) \/ RemoveFound(p) \/ Rearm(p) PROVE RemoverHasIt'
  <2>1. UNCHANGED clients
    BY <1>18 DEF LookUp, Unset, RemoveFound, Rearm
  <2> QED BY <1>1, <2>1 DEF clients
<1>19. ASSUME NEW p \in Procs, Crash(p) PROVE RemoverHasIt'
  <2>1. ASSUME NEW t \in Threads,
               \/ pc'[t] \in {"lockParent", "lockSelf", "uncache"}
               \/ call'[t].then \in {"lockParent", "lockSelf", "uncache"}
        PROVE  handle'[t] # Nothing
    <3>1. NoCall.then = "idle"
      BY DEF NoCall
    <3>2. ProcOf[t] # p
      BY <1>19, <2>1, <3>1 DEF Crash
    <3>3. pc'[t] = pc[t] /\ call'[t] = call[t] /\ handle'[t] = handle[t]
      BY <1>19, <3>2 DEF Crash
    <3> QED BY <2>1, <3>3 DEF RemoverHasIt
  <2> QED BY <2>1 DEF RemoverHasIt, Nothing
<1> QED BY <1>1, <1>2, <1>6, <1>7, <1>8, <1>9, <1>10, <1>11, <1>12, <1>13,
           <1>14, <1>15, <1>16, <1>17, <1>18, <1>19 DEF Next, Step, EventStep, vars

-----------------------------------------------------------------------------
(* The queues *)

\* Whose marker is queued waits for it, in the process of the queue, and for one only.
MarkInv ==
  \A p \in Procs : \A i \in DOMAIN queue[p] :
    queue[p][i] \in Threads =>
      /\ ProcOf[queue[p][i]] = p /\ pc[queue[p][i]] = "await"
      /\ \A j \in DOMAIN queue[p] : queue[p][j] = queue[p][i] => i = j

LEMMA QueuePositions ==
  ASSUME RepositoryTypes, NEW p \in Procs
  PROVE  /\ Len(queue[p]) \in Nat /\ DOMAIN queue[p] = 1 .. Len(queue[p])
         /\ queue[p] # <<>> => 1 \in DOMAIN queue[p] /\ Head(queue[p]) = queue[p][1]
         /\ \A i \in DOMAIN queue[p] : queue[p][i] \in Event \cup Threads
<1>1. PICK s \in Seq(Event \cup Threads) : s = queue[p]
  BY DEF RepositoryTypes
<1>2. Len(s) \in Nat /\ DOMAIN s = 1 .. Len(s) /\ \A i \in DOMAIN s : s[i] \in Event \cup Threads
  OBVIOUS
<1>3. s # <<>> => 1 \in DOMAIN s /\ Head(s) = s[1]
  OBVIOUS
<1> QED BY <1>1, <1>2, <1>3

LEMMA HeadIsMarker ==
  ASSUME RepositoryTypes, MarkInv, NEW p \in Procs, queue[p] # <<>>, Head(queue[p]) \in Threads
  PROVE  ProcOf[Head(queue[p])] = p /\ pc[Head(queue[p])] = "await"
BY QueuePositions DEF MarkInv

\* The event thread takes the first of its queue.
LEMMA PoppedQueue ==
  ASSUME RepositoryTypes, NEW p \in Procs, queue[p] # <<>>,
         queue' = [queue EXCEPT ![p] = Tail(@)]
  PROVE  /\ \A i \in DOMAIN queue'[p] :
              i \in Nat /\ i + 1 \in DOMAIN queue[p] /\ queue'[p][i] = queue[p][i + 1]
         /\ \A i \in DOMAIN queue[p] :
              i = 1 \/ (i - 1 \in DOMAIN queue'[p] /\ queue'[p][i - 1] = queue[p][i])
         /\ \A q \in Procs \ {p} : queue'[q] = queue[q]
<1>1. PICK s \in Seq(Event \cup Threads) : s = queue[p]
  BY DEF RepositoryTypes
<1>2. PICK later \in Seq(Event \cup Threads) : later = Tail(s)
  <2>1. Tail(s) \in Seq(Event \cup Threads)
    BY <1>1, HeadTailProperties
  <2> QED BY <2>1
<1>3. PICK n \in Nat : n = Len(s)
  OBVIOUS
<1>4. /\ n > 0 /\ Len(later) = n - 1
      /\ \A i \in 1 .. n - 1 : later[i] = s[i + 1]
  BY <1>1, <1>2, <1>3
<1>5. DOMAIN s = 1 .. n /\ DOMAIN later = 1 .. n - 1
  BY <1>3, <1>4
<1>6. queue'[p] = later /\ \A q \in Procs \ {p} : queue'[q] = queue[q]
  BY <1>1, <1>2 DEF RepositoryTypes
<1>7. \A i \in 1 .. n - 1 : i \in Nat /\ i + 1 \in 1 .. n /\ later[i] = s[i + 1]
  BY <1>3, <1>4
<1>8. ASSUME NEW i \in 1 .. n, i # 1
      PROVE  i - 1 \in 1 .. n - 1 /\ later[i - 1] = s[i]
  <2>1. i - 1 \in 1 .. n - 1 /\ (i - 1) + 1 = i
    BY <1>3, <1>8
  <2> QED BY <1>4, <2>1
<1> QED BY <1>1, <1>5, <1>6, <1>7, <1>8

\* A marker is put at the end.
LEMMA PushedQueue ==
  ASSUME RepositoryTypes, NEW p \in Procs, NEW t \in Threads,
         queue' = [queue EXCEPT ![p] = Append(@, t)]
  PROVE  /\ \A i \in DOMAIN queue[p] : i \in DOMAIN queue'[p] /\ queue'[p][i] = queue[p][i]
         /\ \A i \in DOMAIN queue'[p] \ DOMAIN queue[p] :
              queue'[p][i] = t /\ \A j \in DOMAIN queue'[p] : j = i \/ (j < i /\ j \in DOMAIN queue[p])
         /\ \A q \in Procs \ {p} : queue'[q] = queue[q]
<1>1. PICK s \in Seq(Event \cup Threads) : s = queue[p]
  BY DEF RepositoryTypes
<1>2. PICK later \in Seq(Event \cup Threads) : later = Append(s, t)
  <2>1. Append(s, t) \in Seq(Event \cup Threads)
    OBVIOUS
  <2> QED BY <2>1
<1>3. PICK n \in Nat : n = Len(s)
  OBVIOUS
<1>4. /\ DOMAIN s = 1 .. n /\ DOMAIN later = 1 .. n + 1
      /\ later[n + 1] = t /\ \A i \in 1 .. n : later[i] = s[i]
  BY <1>2, <1>3
<1>5. queue'[p] = later /\ \A q \in Procs \ {p} : queue'[q] = queue[q]
  BY <1>1, <1>2 DEF RepositoryTypes
<1>6. \A i \in 1 .. n : i \in 1 .. n + 1
  BY <1>3
<1>7. \A i \in (1 .. n + 1) \ (1 .. n) :
        i = n + 1 /\ \A k \in 1 .. n + 1 : k = i \/ (k < i /\ k \in 1 .. n)
  BY <1>3
<1> QED BY <1>1, <1>4, <1>5, <1>6, <1>7

\* What happens to the znodes is told at the end, to who watches, once.
Told(e, p, new) ==
  /\ e \in Event /\ e.part \in watch[p]
  /\ (e.part \in nodes) # (e.part \in new)
  /\ e.kind = "deleted" <=> e.part \notin new

Joined(all, s, first, second) ==
  /\ all = s \o first \o second
  /\ \A i \in DOMAIN s : i \in DOMAIN all /\ all[i] = s[i]
  /\ \A i \in DOMAIN all \ DOMAIN s :
       \/ first # <<>> /\ i = Len(s) + 1 /\ all[i] = first[1]
       \/ second # <<>> /\ i = Len(s) + Len(first) + 1 /\ all[i] = second[1]
  /\ first # <<>> => \E i \in DOMAIN all \ DOMAIN s : all[i] = first[1]
  /\ second # <<>> => \E i \in DOMAIN all \ DOMAIN s : all[i] = second[1]

LEMMA AddedEvents ==
  ASSUME NEW s \in Seq(Event \cup Threads), NEW first \in Seq(Event \cup Threads),
         NEW second \in Seq(Event \cup Threads), Len(first) <= 1, Len(second) <= 1
  PROVE  \E all \in Seq(Event \cup Threads) : Joined(all, s, first, second)
<1>1. PICK both \in Seq(Event \cup Threads) : both = s \o first
  <2>1. s \o first \in Seq(Event \cup Threads)
    OBVIOUS
  <2> QED BY <2>1
<1>2. PICK all \in Seq(Event \cup Threads) : all = both \o second
  <2>1. both \o second \in Seq(Event \cup Threads)
    OBVIOUS
  <2> QED BY <2>1
<1>3. PICK n \in Nat, k \in Nat, m \in Nat : n = Len(s) /\ k = Len(first) /\ m = Len(second)
  OBVIOUS
<1>4. /\ k \in {0, 1} /\ m \in {0, 1}
      /\ k = 0 <=> first = <<>>
      /\ m = 0 <=> second = <<>>
  BY <1>3, EmptySeq
<1>5. /\ DOMAIN both = 1 .. n + k /\ DOMAIN s = 1 .. n /\ Len(both) = n + k
      /\ \A i \in 1 .. n : both[i] = s[i]
      /\ k = 1 => both[n + 1] = first[1]
  BY <1>1, <1>3, <1>4
<1>6. /\ DOMAIN all = 1 .. n + k + m
      /\ \A i \in 1 .. n + k : all[i] = both[i]
      /\ m = 1 => all[n + k + 1] = second[1]
  BY <1>2, <1>3, <1>4, <1>5
<1>7. /\ \A i \in 1 .. n : i \in 1 .. n + k /\ i \in 1 .. n + k + m
      /\ k = 1 => n + 1 \in 1 .. n + k /\ n + 1 \in (1 .. n + k + m) \ (1 .. n)
      /\ m = 1 => n + k + 1 \in (1 .. n + k + m) \ (1 .. n)
      /\ \A i \in (1 .. n + k + m) \ (1 .. n) : (k = 1 /\ i = n + 1) \/ (m = 1 /\ i = n + k + 1)
  <2>1. \A i \in (1 .. n + k + m) \ (1 .. n) : i \in Nat /\ n < i /\ i <= n + k + m
    BY <1>3, <1>4
  <2>2. CASE k = 0 /\ m = 0
    BY <1>3, <2>1, <2>2
  <2>3. CASE k = 0 /\ m = 1
    BY <1>3, <2>1, <2>3
  <2>4. CASE k = 1 /\ m = 0
    BY <1>3, <2>1, <2>4
  <2>5. CASE k = 1 /\ m = 1
    <3>1. \A i \in Nat : n < i /\ i <= n + 2 => i = n + 1 \/ i = n + 2
      BY <1>3
    <3>2. n + k + m = n + 2 /\ n + k + 1 = n + 2
      BY <1>3, <2>5
    <3> QED BY <2>1, <2>5, <3>1, <3>2
  <2> QED BY <1>4, <2>2, <2>3, <2>4, <2>5
<1>8. all = s \o first \o second
  BY <1>1, <1>2
<1>9. \A i \in DOMAIN s : i \in DOMAIN all /\ all[i] = s[i]
  BY <1>5, <1>6, <1>7
<1>10. \A i \in DOMAIN all \ DOMAIN s :
         \/ first # <<>> /\ i = Len(s) + 1 /\ all[i] = first[1]
         \/ second # <<>> /\ i = Len(s) + Len(first) + 1 /\ all[i] = second[1]
  <2>1. ASSUME NEW i \in DOMAIN all \ DOMAIN s
        PROVE  \/ k = 1 /\ i = n + 1 /\ all[i] = first[1]
               \/ m = 1 /\ i = n + k + 1 /\ all[i] = second[1]
    BY <1>5, <1>6, <1>7
  <2> QED BY <1>3, <1>4, <2>1
<1>11. /\ first # <<>> => \E i \in DOMAIN all \ DOMAIN s : all[i] = first[1]
       /\ second # <<>> => \E i \in DOMAIN all \ DOMAIN s : all[i] = second[1]
  BY <1>4, <1>5, <1>6, <1>7
<1> QED BY <1>8, <1>9, <1>10, <1>11 DEF Joined

LEMMA ChangedQueue ==
  ASSUME RepositoryTypes, NEW new \in SUBSET Whole, Change(new), NEW p \in Procs
  PROVE  /\ watch'[p] = {part \in watch[p] : (part \in nodes) = (part \in new)}
         /\ \A i \in DOMAIN queue[p] : i \in DOMAIN queue'[p] /\ queue'[p][i] = queue[p][i]
         /\ \A i \in DOMAIN queue'[p] \ DOMAIN queue[p] : Told(queue'[p][i], p, new)
         /\ \A i, j \in DOMAIN queue'[p] \ DOMAIN queue[p] :
              queue'[p][i].part = queue'[p][j].part => i = j
         /\ \A part \in watch[p] : (part \in nodes) # (part \in new) =>
              \E i \in DOMAIN queue'[p] \ DOMAIN queue[p] : queue'[p][i].part = part
<1> DEFINE kind(part) == IF part \in new THEN "created" ELSE "deleted"
           fired(part) == IF part \in watch[p] /\ (part \in nodes) # (part \in new)
                          THEN << [part |-> part, kind |-> kind(part)] >> ELSE <<>>
<1>1. PICK s \in Seq(Event \cup Threads) : s = queue[p]
  BY DEF RepositoryTypes
<1>2. \A part \in Whole : /\ fired(part) \in Seq(Event \cup Threads) /\ Len(fired(part)) <= 1
                          /\ fired(part) # <<>> =>
                               /\ Told(fired(part)[1], p, new) /\ fired(part)[1].part = part
  <2>1. SUFFICES ASSUME NEW part \in Whole
                 PROVE  /\ fired(part) \in Seq(Event \cup Threads) /\ Len(fired(part)) <= 1
                        /\ fired(part) # <<>> =>
                             /\ Told(fired(part)[1], p, new) /\ fired(part)[1].part = part
    OBVIOUS
  <2>2. PICK e \in Event : e = [part |-> part, kind |-> kind(part)]
    <3>1. kind(part) \in {"created", "deleted"}
      OBVIOUS
    <3> HIDE DEF kind
    <3> QED BY <2>1, <3>1 DEF Event
  <2>3. /\ e.part = part /\ (e.kind = "deleted" <=> part \notin new)
    BY <2>2
  <2>4. /\ <<e>> \in Seq(Event \cup Threads) /\ Len(<<e>>) = 1 /\ <<e>>[1] = e
        /\ <<>> \in Seq(Event \cup Threads) /\ Len(<<>>) = 0
    OBVIOUS
  <2>5. CASE part \in watch[p] /\ (part \in nodes) # (part \in new)
    <3>1. fired(part) = <<e>>
      BY <2>2, <2>5
    <3>2. Told(e, p, new)
      BY <2>3, <2>5 DEF Told
    <3> HIDE DEF fired
    <3> QED BY <2>3, <2>4, <3>1, <3>2
  <2>6. CASE ~(part \in watch[p] /\ (part \in nodes) # (part \in new))
    <3>1. fired(part) = <<>>
      BY <2>6
    <3> HIDE DEF fired
    <3> QED BY <2>4, <3>1
  <2> QED BY <2>5, <2>6
<1>3. queue'[p] = s \o fired("key") \o fired("state")
  BY <1>1 DEF Change
<1>4. watch'[p] = {part \in watch[p] : (part \in nodes) = (part \in new)}
  BY DEF Change, RepositoryTypes
<1>5. "key" \in Whole /\ "state" \in Whole /\ \A part \in watch[p] : part = "key" \/ part = "state"
  BY DEF Whole, RepositoryTypes
<1>6. PICK first \in Seq(Event \cup Threads), second \in Seq(Event \cup Threads) :
        first = fired("key") /\ second = fired("state")
  BY <1>2, <1>5
<1>7. /\ Len(first) <= 1 /\ Len(second) <= 1
      /\ first # <<>> => Told(first[1], p, new) /\ first[1].part = "key"
      /\ second # <<>> => Told(second[1], p, new) /\ second[1].part = "state"
  BY <1>2, <1>5, <1>6
<1> HIDE DEF fired, kind
<1>9. PICK all \in Seq(Event \cup Threads) : Joined(all, s, first, second)
  BY <1>7, AddedEvents
<1>8. /\ all = s \o first \o second
      /\ \A i \in DOMAIN s : i \in DOMAIN all /\ all[i] = s[i]
      /\ \A i \in DOMAIN all \ DOMAIN s :
           \/ first # <<>> /\ i = Len(s) + 1 /\ all[i] = first[1]
           \/ second # <<>> /\ i = Len(s) + Len(first) + 1 /\ all[i] = second[1]
      /\ first # <<>> => \E i \in DOMAIN all \ DOMAIN s : all[i] = first[1]
      /\ second # <<>> => \E i \in DOMAIN all \ DOMAIN s : all[i] = second[1]
  BY <1>9 DEF Joined
<1>10. queue'[p] = all
  BY <1>3, <1>6, <1>8
<1>11. \A part \in watch[p] : (part \in nodes) # (part \in new) =>
         (part = "key" /\ first # <<>>) \/ (part = "state" /\ second # <<>>)
  <2> USE DEF fired
  <2> QED BY <1>5, <1>6
<1>12. \A i \in DOMAIN all \ DOMAIN s : Told(all[i], p, new)
  BY <1>7, <1>8
<1>13. \A i, j \in DOMAIN all \ DOMAIN s : all[i].part = all[j].part => i = j
  BY <1>7, <1>8
<1>14. \A part \in watch[p] : (part \in nodes) # (part \in new) =>
         \E i \in DOMAIN all \ DOMAIN s : all[i].part = part
  BY <1>7, <1>8, <1>11
<1>15. \A i \in DOMAIN s : i \in DOMAIN all /\ all[i] = s[i]
  BY <1>8
<1> QED BY <1>1, <1>4, <1>10, <1>12, <1>13, <1>14, <1>15, ZenonT(60)

\* Events come to the end of the queue of p, one for each watch that they consume.
EventsCome(p) ==
  /\ watch'[p] \subseteq watch[p]
  /\ \A i \in DOMAIN queue[p] : i \in DOMAIN queue'[p] /\ queue'[p][i] = queue[p][i]
  /\ \A i \in DOMAIN queue'[p] \ DOMAIN queue[p] :
       queue'[p][i] \in Event /\ queue'[p][i].part \in watch[p] \ watch'[p]
  /\ \A i, j \in DOMAIN queue'[p] \ DOMAIN queue[p] :
       queue'[p][i].part = queue'[p][j].part => i = j
  /\ \A part \in watch[p] \ watch'[p] :
       \E i \in DOMAIN queue'[p] \ DOMAIN queue[p] : queue'[p][i].part = part

LEMMA ChangeTells ==
  ASSUME RepositoryTypes, NEW new \in SUBSET Whole, Change(new)
  PROVE  \A p \in Procs : EventsCome(p)
<1>1. SUFFICES ASSUME NEW p \in Procs PROVE EventsCome(p)
  OBVIOUS
<1>2. /\ watch'[p] = {part \in watch[p] : (part \in nodes) = (part \in new)}
      /\ \A i \in DOMAIN queue[p] : i \in DOMAIN queue'[p] /\ queue'[p][i] = queue[p][i]
      /\ \A i \in DOMAIN queue'[p] \ DOMAIN queue[p] :
           queue'[p][i] \in Event /\ queue'[p][i].part \in watch[p] \ watch'[p]
      /\ \A i, j \in DOMAIN queue'[p] \ DOMAIN queue[p] :
           queue'[p][i].part = queue'[p][j].part => i = j
      /\ \A part \in watch[p] \ watch'[p] :
           \E i \in DOMAIN queue'[p] \ DOMAIN queue[p] : queue'[p][i].part = part
  BY ChangedQueue DEF Told
<1> QED BY <1>2 DEF EventsCome

\* A write of the state is told to who watches it, once.
LEMMA WrittenQueue ==
  ASSUME RepositoryTypes, WriteState
  PROVE  \A p \in Procs :
           /\ EventsCome(p)
           /\ \A part \in watch[p] \ watch'[p] : part = "state"
           /\ \A i \in DOMAIN queue'[p] \ DOMAIN queue[p] : queue'[p][i].kind = "changed"
<1>1. SUFFICES ASSUME NEW p \in Procs
               PROVE  /\ EventsCome(p)
                      /\ \A part \in watch[p] \ watch'[p] : part = "state"
                      /\ \A i \in DOMAIN queue'[p] \ DOMAIN queue[p] :
                           queue'[p][i].kind = "changed"
  OBVIOUS
<1>2. PICK s \in Seq(Event \cup Threads) : s = queue[p]
  BY DEF RepositoryTypes
<1>3. PICK e \in Event : e = [part |-> "state", kind |-> "changed"]
  BY DEF Event, Whole
<1>4. e.part = "state" /\ e.kind = "changed"
  BY <1>3
<1>5. watch'[p] = watch[p] \ {"state"}
  BY DEF WriteState
<1>6. CASE "state" \notin watch[p]
  <2>1. queue'[p] = queue[p]
    BY <1>6 DEF WriteState
  <2> QED BY <1>5, <1>6, <2>1 DEF EventsCome
<1>7. CASE "state" \in watch[p]
  <2>1. PICK later \in Seq(Event \cup Threads) : later = Append(s, e)
    <3>1. Append(s, e) \in Seq(Event \cup Threads)
      OBVIOUS
    <3> QED BY <3>1
  <2>2. queue'[p] = later
    BY <1>2, <1>3, <1>7, <2>1 DEF WriteState
  <2>3. PICK n \in Nat : n = Len(s)
    OBVIOUS
  <2>4. /\ DOMAIN s = 1 .. n /\ DOMAIN later = 1 .. n + 1
        /\ later[n + 1] = e /\ \A i \in 1 .. n : later[i] = s[i]
    BY <2>1, <2>3
  <2>5. /\ \A i \in 1 .. n : i \in 1 .. n + 1
        /\ \A i \in (1 .. n + 1) \ (1 .. n) : i = n + 1
        /\ n + 1 \in (1 .. n + 1) \ (1 .. n)
    BY <2>3
  <2>6. \A i \in DOMAIN s : i \in DOMAIN later /\ later[i] = s[i]
    BY <2>4, <2>5
  <2>7. \A i \in DOMAIN later \ DOMAIN s : i = n + 1 /\ later[i] = e
    BY <2>4, <2>5
  <2>8. n + 1 \in DOMAIN later \ DOMAIN s /\ later[n + 1] = e
    BY <2>4, <2>5
  <2> QED BY <1>2, <1>4, <1>5, <1>7, <2>2, <2>6, <2>7, <2>8 DEF EventsCome
<1> QED BY <1>6, <1>7

-----------------------------------------------------------------------------
(* Who is where, and holds which lock *)

\* Where a thread is, or goes on after synchronize().
Place(t) == IF pc[t] \in {"sync", "await"} THEN call[t].then ELSE pc[t]

Placed(t) ==
  /\ pc[t] \notin {"sync", "await"} => call[t].then = "idle"
  /\ call[t].then \in {"idle", "load", "lockSelf", "uncache"}
  /\ Place(t) \in {"load", "create", "insert", "unlock", "lockSelf", "uncache",
                   "delete", "deleteKey", "release"} => lock[t].count > 0
  /\ Place(t) \in {"lockSelf", "uncache", "delete", "deleteKey", "release"} =>
       lock[t].type = "EXCL"
  /\ Place(t) \in {"load", "create", "insert", "unlock"} /\ call[t].create =>
       lock[t].type = "EXCL"
  /\ pc[t] = "create" => call[t].create

\* The lock of the parent is one writer's or the readers'.
LockInv ==
  \A t, u \in Threads :
    t # u /\ lock[t].count > 0 /\ lock[u].count > 0 => lock[t].type = "SHARED"

PlaceInv == LockInv /\ \A t \in Threads : Placed(t)

\* A step of t leaves the locals of the others.
OnlyOf(t) ==
  \A u \in Threads \ {t} : pc'[u] = pc[u] /\ call'[u] = call[u] /\ lock'[u] = lock[u]

\* What the steps of t do to its place and its locals
LEMMA MovesOf ==
  ASSUME pc \in [Threads -> PC], NEW t \in Threads, NEW label, Goto(t, label)
  PROVE  pc'[t] = label /\ \A u \in Threads \ {t} : pc'[u] = pc[u]
BY DEF Goto

LEMMA ReturnOf ==
  ASSUME pc \in [Threads -> PC], call \in [Threads -> Call], NEW t \in Threads, Return(t)
  PROVE  /\ pc'[t] = "idle" /\ call'[t] = NoCall
         /\ \A u \in Threads \ {t} : pc'[u] = pc[u] /\ call'[u] = call[u]
BY DEF Return, Goto

LEMMA SyncOf ==
  ASSUME call \in [Threads -> Call], NEW t \in Threads, NEW label,
         call' = [call EXCEPT ![t].then = label]
  PROVE  /\ call'[t].then = label
         /\ call'[t].create = call[t].create /\ call'[t].part = call[t].part
         /\ \A u \in Threads \ {t} : call'[u] = call[u]
<1>1. PICK record \in [create : BOOLEAN, part : 1 .. 2, again : BOOLEAN, then : PC] :
        record = call[t]
  BY DEF Call
<1>2. call'[t] = [record EXCEPT !.then = label] /\ \A u \in Threads \ {t} : call'[u] = call[u]
  BY <1>1
<1>3. /\ [record EXCEPT !.then = label].then = label
      /\ [record EXCEPT !.then = label].create = record.create
      /\ [record EXCEPT !.then = label].part = record.part
  BY <1>1
<1> QED BY <1>1, <1>2, <1>3

LEMMA PartOf ==
  ASSUME call \in [Threads -> Call], NEW t \in Threads,
         \/ call' = [call EXCEPT ![t].part = 1, ![t].again = TRUE]
         \/ call' = [call EXCEPT ![t].part = 1]
         \/ call' = [call EXCEPT ![t].part = @ + 1]
  PROVE  /\ call'[t].then = call[t].then /\ call'[t].create = call[t].create
         /\ call'[t].part = 1 \/ call'[t].part = call[t].part + 1
         /\ call' # [call EXCEPT ![t].part = @ + 1] => call'[t].part = 1
         /\ \A u \in Threads \ {t} : call'[u] = call[u]
<1>1. PICK record \in [create : BOOLEAN, part : 1 .. 2, again : BOOLEAN, then : PC] :
        record = call[t]
  BY DEF Call
<1>2. PICK n : n = record.part + 1
  OBVIOUS
<1>3. /\ [record EXCEPT !.part = 1, !.again = TRUE].then = record.then
      /\ [record EXCEPT !.part = 1, !.again = TRUE].create = record.create
      /\ [record EXCEPT !.part = 1, !.again = TRUE].part = 1
  BY <1>1
<1>4. \A m : /\ [record EXCEPT !.part = m].then = record.then
             /\ [record EXCEPT !.part = m].create = record.create
             /\ [record EXCEPT !.part = m].part = m
  BY <1>1
<1>5. CASE call' = [call EXCEPT ![t].part = 1, ![t].again = TRUE]
  <2>1. call'[t] = [record EXCEPT !.part = 1, !.again = TRUE]
        /\ \A u \in Threads \ {t} : call'[u] = call[u]
    BY <1>1, <1>5
  <2> QED BY <1>1, <1>3, <2>1
<1>6. CASE call' = [call EXCEPT ![t].part = 1]
  <2>1. call'[t] = [record EXCEPT !.part = 1] /\ \A u \in Threads \ {t} : call'[u] = call[u]
    BY <1>1, <1>6
  <2> QED BY <1>1, <1>4, <2>1
<1>7. CASE call' = [call EXCEPT ![t].part = @ + 1]
  <2>1. call'[t] = [record EXCEPT !.part = n] /\ \A u \in Threads \ {t} : call'[u] = call[u]
    BY <1>1, <1>2, <1>7
  <2> QED BY <1>1, <1>2, <1>4, <1>7, <2>1
<1> QED BY <1>5, <1>6, <1>7

LEMMA BeginOf ==
  ASSUME call \in [Threads -> Call], NEW t \in Threads, NEW create,
         call' = [call EXCEPT ![t] = [NoCall EXCEPT !.create = create]]
  PROVE  /\ call'[t].then = "idle" /\ call'[t].part = 1
         /\ \A u \in Threads \ {t} : call'[u] = call[u]
<1>1. [NoCall EXCEPT !.create = create].then = "idle" /\ [NoCall EXCEPT !.create = create].part = 1
  BY DEF NoCall
<1> QED BY <1>1

\* The lock that a release leaves is of the type it was.
LEMMA ReleasedOf ==
  ASSUME lock \in LockRecords, NEW t \in Threads, lock' = Released(t)
  PROVE  /\ lock'[t].count > 0 => lock[t].count > 0 /\ lock'[t].type = lock[t].type
         /\ \A u \in Threads \ {t} : lock'[u] = lock[u]
<1>1. PICK record \in [type : LockTypes, count : Nat] : record = lock[t]
  BY DEF LockRecords
<1>2. PICK n : n = record.count - 1
  OBVIOUS
<1>3. [record EXCEPT !.count = n].type = record.type
  BY <1>1
<1>4. Free.count = 0
  BY DEF Free
<1>5. CASE record.count > 1
  <2>1. lock'[t] = [record EXCEPT !.count = n] /\ \A u \in Threads \ {t} : lock'[u] = lock[u]
    BY <1>1, <1>2, <1>5 DEF Released, LockRecords
  <2> QED BY <1>1, <1>3, <1>5, <2>1
<1>6. CASE record.count = 1
  <2>1. lock'[t] = Free /\ \A u \in Threads \ {t} : lock'[u] = lock[u]
    BY <1>1, <1>6 DEF Released, LockRecords
  <2> QED BY <1>4, <2>1
<1>7. CASE record.count = 0
  <2>1. lock' = lock
    BY <1>1, <1>7 DEF Released
  <2> QED BY <2>1
<1> QED BY <1>1, <1>5, <1>6, <1>7

LEMMA ReenterOf ==
  ASSUME lock \in LockRecords, NEW t \in Threads, lock' = [lock EXCEPT ![t].count = @ + 1]
  PROVE  /\ lock'[t].count > 0 /\ lock'[t].type = lock[t].type
         /\ \A u \in Threads \ {t} : lock'[u] = lock[u]
<1>1. PICK record \in [type : LockTypes, count : Nat] : record = lock[t]
  BY DEF LockRecords
<1>2. PICK n \in Nat : n = record.count + 1 /\ n > 0
  BY <1>1
<1>3. [record EXCEPT !.count = n].type = record.type /\ [record EXCEPT !.count = n].count = n
  BY <1>1
<1>4. lock'[t] = [record EXCEPT !.count = n] /\ \A u \in Threads \ {t} : lock'[u] = lock[u]
  BY <1>1, <1>2 DEF LockRecords
<1> QED BY <1>1, <1>2, <1>3, <1>4

\* Locks are taken where they can be: the places of t aside, the invariant holds.
LEMMA LockStep ==
  ASSUME LockInv, NEW t \in Threads,
         \A u \in Threads \ {t} : lock'[u] = lock[u],
         \/ lock'[t].count > 0 => lock[t].count > 0 /\ lock'[t].type = lock[t].type
         \/ Compatible(t, lock'[t].type) /\ lock'[t].type \in {"SHARED", "EXCL"}
  PROVE  LockInv'
<1>1. ASSUME NEW u \in Threads, NEW v \in Threads, u # v, lock'[u].count > 0, lock'[v].count > 0
      PROVE  lock'[u].type = "SHARED"
  <2>1. CASE u # t /\ v # t
    BY <1>1, <2>1 DEF LockInv
  <2>2. CASE lock'[t].count > 0 => lock[t].count > 0 /\ lock'[t].type = lock[t].type
    <3>1. /\ lock[u].count > 0 /\ lock[v].count > 0 /\ lock'[u].type = lock[u].type
      BY <1>1, <2>2
    <3> QED BY <1>1, <3>1 DEF LockInv
  <2>3. CASE Compatible(t, lock'[t].type) /\ (u = t \/ v = t)
    BY <1>1, <2>3 DEF Compatible
  <2> QED BY <2>1, <2>2, <2>3
<1> QED BY <1>1 DEF LockInv

LEMMA PlaceStep ==
  ASSUME PlaceInv, NEW t \in Threads, OnlyOf(t), LockInv', Placed(t)'
  PROVE  PlaceInv'
<1>1. ASSUME NEW u \in Threads \ {t} PROVE Placed(u)'
  BY DEF PlaceInv, Placed, Place, OnlyOf
<1> QED BY <1>1 DEF PlaceInv

\* A step of t within its call: its lock stays, or comes and goes as LockStep says.
LEMMA GoOn ==
  ASSUME PlaceInv, NEW t \in Threads,
         \A u \in Threads \ {t} : pc'[u] = pc[u] /\ call'[u] = call[u],
         lock' = lock, Placed(t)'
  PROVE  PlaceInv'
<1>1. LockInv'
  BY DEF PlaceInv, LockInv
<1>2. OnlyOf(t)
  BY DEF OnlyOf
<1> QED BY <1>1, <1>2, PlaceStep

LEMMA EndsCall ==
  ASSUME ClientTypes, PlaceInv, NEW t \in Threads, Return(t), lock' = lock \/ lock' = Released(t)
  PROVE  PlaceInv'
<1>1. lock \in LockRecords /\ pc \in [Threads -> PC] /\ call \in [Threads -> Call]
  BY DEF ClientTypes
<1>2. /\ pc'[t] = "idle" /\ call'[t] = NoCall
      /\ \A u \in Threads \ {t} : pc'[u] = pc[u] /\ call'[u] = call[u]
  BY <1>1, ReturnOf
<1>3. /\ lock'[t].count > 0 => lock[t].count > 0 /\ lock'[t].type = lock[t].type
      /\ \A u \in Threads \ {t} : lock'[u] = lock[u]
  BY <1>1, ReleasedOf
<1>4. LockInv'
  BY <1>3, LockStep DEF PlaceInv
<1>5. Placed(t)'
  BY <1>2 DEF Placed, Place, NoCall
<1> QED BY <1>2, <1>3, <1>4, <1>5, PlaceStep DEF OnlyOf

LEMMA Acquires ==
  ASSUME ClientTypes, PlaceInv, NEW t \in Threads, NEW type \in LockTypes, NEW label,
         AcquireNew(t, type, label),
         label \in {"load", "lockSelf", "idle"},
         label = "lockSelf" => type = "EXCL",
         label = "load" /\ call[t].create => type = "EXCL"
  PROVE  PlaceInv'
<1>1. lock \in LockRecords /\ pc \in [Threads -> PC] /\ call \in [Threads -> Call]
  BY DEF ClientTypes
<1>2. pc'[t] = "sync" /\ \A u \in Threads \ {t} : pc'[u] = pc[u]
  BY <1>1, MovesOf DEF AcquireNew
<1>3. /\ call'[t].then = label /\ call'[t].create = call[t].create
      /\ \A u \in Threads \ {t} : call'[u] = call[u]
  BY <1>1, SyncOf DEF AcquireNew
<1>4. /\ lock'[t].type = type /\ lock'[t].count > 0
      /\ \A u \in Threads \ {t} : lock'[u] = lock[u]
  BY <1>1 DEF AcquireNew, LockRecords
<1>5. LockInv'
  BY <1>4, LockStep DEF PlaceInv, AcquireNew, LockTypes
<1>6. Placed(t)'
  BY <1>2, <1>3, <1>4 DEF Placed, Place
<1> QED BY <1>2, <1>3, <1>4, <1>5, <1>6, PlaceStep DEF OnlyOf

LEMMA Reenters ==
  ASSUME ClientTypes, PlaceInv, NEW t \in Threads, NEW type, NEW label, Reenter(t, type, label),
         pc[t] \in {"idle", "lockParent"}, label \in {"lockSelf", "idle"},
         label = "lockSelf" => type = "EXCL"
  PROVE  PlaceInv'
<1>1. lock \in LockRecords /\ pc \in [Threads -> PC] /\ call \in [Threads -> Call]
  BY DEF ClientTypes
<1>2. pc'[t] = label /\ \A u \in Threads \ {t} : pc'[u] = pc[u]
  BY <1>1, MovesOf DEF Reenter
<1>3. /\ lock'[t].type = type /\ lock'[t].count > 0 /\ lock[t].count > 0 /\ lock[t].type = type
      /\ \A u \in Threads \ {t} : lock'[u] = lock[u]
  BY <1>1, ReenterOf DEF Reenter
<1>4. LockInv'
  BY <1>3, LockStep DEF PlaceInv
<1>5. call' = call /\ call[t].then = "idle"
  BY DEF Reenter, PlaceInv, Placed
<1>6. Placed(t)'
  BY <1>2, <1>3, <1>5 DEF Placed, Place
<1> QED BY <1>2, <1>3, <1>4, <1>5, <1>6, PlaceStep DEF OnlyOf

LEMMA StepPlace ==
  ASSUME RepositoryTypes, ClientTypes, MarkInv, PlaceInv, [Next]_vars
  PROVE  PlaceInv'
<1>a. lock \in LockRecords /\ pc \in [Threads -> PC] /\ call \in [Threads -> Call]
  BY DEF ClientTypes
<1>b. "SHARED" \in LockTypes /\ "EXCL" \in LockTypes
  BY DEF LockTypes
<1>1. ASSUME UNCHANGED <<lock, pc, call>> PROVE PlaceInv'
  BY <1>1 DEF PlaceInv, LockInv, Placed, Place
<1>c. ASSUME NEW t \in Threads, NEW label, Goto(t, label), UNCHANGED <<lock, call>>,
             \/ /\ label \in {"idle", "lock", "publish", "lockParent"}
                /\ pc[t] \notin {"sync", "await"}
             \/ label = "insert" /\ pc[t] = "load"
             \/ label = "unlock" /\ pc[t] \in {"load", "insert"}
             \/ label = "load" /\ pc[t] = "lock" /\ lock[t].count > 0
                /\ (call[t].create => lock[t].type = "EXCL")
             \/ label = "delete" /\ pc[t] = "uncache"
             \/ label = "deleteKey" /\ pc[t] = "delete"
             \/ label = "release" /\ pc[t] = "deleteKey"
             \/ label = "await" /\ pc[t] = "sync"
      PROVE  PlaceInv'
  <2>1. pc'[t] = label /\ \A u \in Threads \ {t} : pc'[u] = pc[u]
    BY <1>a, <1>c, MovesOf
  <2>2. Placed(t)
    BY DEF PlaceInv
  <2>3. Placed(t)'
    BY <1>c, <2>1, <2>2 DEF Placed, Place
  <2> QED BY <1>c, <2>1, <2>3, GoOn
<1>2. ASSUME NEW t \in Threads, NEW create \in BOOLEAN, Get(t, create) PROVE PlaceInv'
  <2>1. CASE UNCHANGED <<pc, call>>
    BY <1>1, <1>2, <2>1 DEF Get
  <2>2. CASE Goto(t, "lock") /\ call' = [call EXCEPT ![t] = [NoCall EXCEPT !.create = create]]
    <3>1. pc'[t] = "lock" /\ \A u \in Threads \ {t} : pc'[u] = pc[u]
      BY <1>a, <2>2, MovesOf
    <3>2. call'[t].then = "idle" /\ \A u \in Threads \ {t} : call'[u] = call[u]
      BY <1>a, <2>2, BeginOf
    <3>3. Placed(t)'
      BY <3>1, <3>2 DEF Placed, Place
    <3> QED BY <1>2, <3>1, <3>2, <3>3, GoOn DEF Get
  <2> QED BY <1>2, <2>1, <2>2 DEF Get
<1>3. ASSUME NEW t \in Threads, GetLock(t) PROVE PlaceInv'
  <2>1. PICK type \in LockTypes : type = IF call[t].create THEN "EXCL" ELSE "SHARED"
    BY <1>b
  <2>2. CASE AcquireNew(t, type, "load")
    BY <2>1, <2>2, Acquires
  <2>3. CASE Return(t) /\ UNCHANGED lock
    BY <2>3, EndsCall
  <2>4. CASE /\ Goto(t, "load") /\ UNCHANGED <<lock, call>> /\ lock[t].count > 0
             /\ ~(call[t].create /\ lock[t].type = "SHARED")
    <3>1. lock[t].type \in {"SHARED", "EXCL"}
      BY <1>a DEF LockRecords, LockTypes
    <3> QED BY <1>3, <1>c, <2>4, <3>1 DEF GetLock
  <2> QED BY <1>3, <2>1, <2>2, <2>3, <2>4 DEF GetLock
<1>4. ASSUME NEW t \in Threads, Load(t) PROVE PlaceInv'
  <2>1. lock' = lock /\ pc[t] = "load"
    BY <1>4 DEF Load
  <2>2. CASE Return(t)
    BY <2>1, <2>2, EndsCall
  <2>3. CASE (Goto(t, "insert") \/ Goto(t, "unlock")) /\ call' = call
    BY <1>c, <2>1, <2>3
  <2>4. CASE pc' = pc /\ call' = [call EXCEPT ![t].part = @ + 1]
    <3>1. /\ call'[t].then = call[t].then /\ call'[t].create = call[t].create
          /\ \A u \in Threads \ {t} : call'[u] = call[u]
      BY <1>a, <2>4, PartOf
    <3>2. Placed(t)'
      BY <2>1, <2>4, <3>1 DEF PlaceInv, Placed, Place
    <3> QED BY <2>1, <2>4, <3>1, <3>2, GoOn
  <2>5. CASE /\ Goto(t, "create") /\ call[t].create
             /\ call' = [call EXCEPT ![t].part = 1, ![t].again = TRUE]
    <3>1. pc'[t] = "create" /\ \A u \in Threads \ {t} : pc'[u] = pc[u]
      BY <1>a, <2>5, MovesOf
    <3>2. /\ call'[t].then = call[t].then /\ call'[t].create = call[t].create
          /\ \A u \in Threads \ {t} : call'[u] = call[u]
      BY <1>a, <2>5, PartOf
    <3>3. Placed(t)'
      BY <2>1, <2>5, <3>1, <3>2 DEF PlaceInv, Placed, Place
    <3> QED BY <2>1, <3>1, <3>2, <3>3, GoOn
  <2> QED BY <1>4, <2>2, <2>3, <2>4, <2>5 DEF Load
<1>5. ASSUME NEW t \in Threads, Create(t) PROVE PlaceInv'
  <2>1. lock' = lock /\ pc[t] = "create"
    BY <1>5 DEF Create
  <2>2. \/ pc' = pc /\ call' = [call EXCEPT ![t].part = @ + 1]
        \/ Goto(t, "load") /\ call' = [call EXCEPT ![t].part = 1]
    BY <1>5 DEF Create
  <2>3. /\ call'[t].then = call[t].then /\ call'[t].create = call[t].create
        /\ \A u \in Threads \ {t} : call'[u] = call[u]
    BY <1>a, <2>2, PartOf
  <2>4. pc'[t] \in {"create", "load"} /\ \A u \in Threads \ {t} : pc'[u] = pc[u]
    BY <1>a, <2>1, <2>2, MovesOf
  <2>5. Placed(t)'
    BY <2>1, <2>3, <2>4 DEF PlaceInv, Placed, Place
  <2> QED BY <2>1, <2>3, <2>4, <2>5, GoOn
<1>6. ASSUME NEW t \in Threads, Insert(t) PROVE PlaceInv'
  <2>1. CASE Goto(t, "unlock") /\ UNCHANGED call
    BY <1>6, <1>c, <2>1 DEF Insert
  <2> QED BY <1>6, <2>1, EndsCall DEF Insert
<1>7. ASSUME NEW t \in Threads,
             \/ InitializeFails(t) \/ Unlock(t) \/ SetNodeData(t) \/ RemovedMeanwhile(t)
             \/ CallThrows(t)
      PROVE  PlaceInv'
  <2>1. Return(t) /\ (lock' = lock \/ lock' = Released(t))
    BY <1>7 DEF InitializeFails, Unlock, SetNodeData, RemovedMeanwhile, CallThrows
  <2> QED BY <2>1, EndsCall
<1>8. ASSUME NEW t \in Threads, Publish(t) \/ Remove(t) PROVE PlaceInv'
  BY <1>8, <1>c DEF Publish, Remove, NewCall
<1>9. ASSUME NEW t \in Threads, LockParent(t) PROVE PlaceInv'
  <2>1. CASE AcquireNew(t, "EXCL", "lockSelf")
    BY <1>b, <2>1, Acquires
  <2>2. CASE Reenter(t, "EXCL", "lockSelf")
    BY <1>9, <2>2, Reenters DEF LockParent
  <2>3. CASE ReenterFails(t, "EXCL")
    BY <2>3, EndsCall DEF ReenterFails
  <2> QED BY <1>9, <2>1, <2>2, <2>3 DEF LockParent
<1>10. ASSUME NEW t \in Threads, LockSelf(t) PROVE PlaceInv'
  <2>1. lock' = lock /\ pc[t] = "lockSelf"
    BY <1>10 DEF LockSelf
  <2>2. CASE Return(t)
    BY <2>1, <2>2, EndsCall
  <2>3. CASE Goto(t, "sync") /\ call' = [call EXCEPT ![t].then = "uncache"]
    <3>1. pc'[t] = "sync" /\ \A u \in Threads \ {t} : pc'[u] = pc[u]
      BY <1>a, <2>3, MovesOf
    <3>2. /\ call'[t].then = "uncache" /\ call'[t].create = call[t].create
          /\ \A u \in Threads \ {t} : call'[u] = call[u]
      BY <1>a, <2>3, SyncOf
    <3>3. Placed(t)'
      BY <2>1, <3>1, <3>2 DEF PlaceInv, Placed, Place
    <3> QED BY <2>1, <3>1, <3>2, <3>3, GoOn
  <2> QED BY <1>10, <2>2, <2>3 DEF LockSelf
<1>11. ASSUME NEW t \in Threads, Uncache(t) \/ Delete(t) \/ DeleteKey(t) \/ QueueMarker(t)
       PROVE  PlaceInv'
  <2>1. UNCHANGED <<lock, call>>
    BY <1>11 DEF Uncache, Delete, DeleteKey, QueueMarker
  <2>2. \/ Goto(t, "delete") /\ pc[t] = "uncache"
        \/ Goto(t, "deleteKey") /\ pc[t] = "delete"
        \/ Goto(t, "release") /\ pc[t] = "deleteKey"
        \/ Goto(t, "await") /\ pc[t] = "sync"
    BY <1>11 DEF Uncache, Delete, DeleteKey, QueueMarker
  <2> QED BY <1>c, <2>1, <2>2
<1>12. ASSUME NEW t \in Threads, Release(t) PROVE PlaceInv'
  <2>1. lock' = Released(t) /\ Goto(t, "sync") /\ call' = [call EXCEPT ![t].then = "idle"]
    BY <1>12 DEF Release
  <2>2. pc'[t] = "sync" /\ \A u \in Threads \ {t} : pc'[u] = pc[u]
    BY <1>a, <2>1, MovesOf
  <2>3. call'[t].then = "idle" /\ \A u \in Threads \ {t} : call'[u] = call[u]
    BY <1>a, <2>1, SyncOf
  <2>4. /\ lock'[t].count > 0 => lock[t].count > 0 /\ lock'[t].type = lock[t].type
        /\ \A u \in Threads \ {t} : lock'[u] = lock[u]
    BY <1>a, <2>1, ReleasedOf
  <2>5. LockInv'
    BY <2>4, LockStep DEF PlaceInv
  <2>6. Placed(t)'
    BY <2>2, <2>3 DEF Placed, Place
  <2> QED BY <2>2, <2>3, <2>4, <2>5, <2>6, PlaceStep DEF OnlyOf
<1>13. ASSUME NEW t \in Threads, NEW type \in LockTypes, UserAcquire(t, type) PROVE PlaceInv'
  <2>1. CASE AcquireNew(t, type, "idle")
    BY <2>1, Acquires
  <2>2. CASE Reenter(t, type, "idle")
    BY <1>13, <2>2, Reenters DEF UserAcquire
  <2>3. CASE ReenterFails(t, type)
    BY <2>3, EndsCall DEF ReenterFails
  <2> QED BY <1>13, <2>1, <2>2, <2>3 DEF UserAcquire
<1>14. ASSUME NEW t \in Threads, UserRelease(t) PROVE PlaceInv'
  <2>1. lock' = Released(t) /\ pc[t] = "idle" /\ UNCHANGED <<pc, call>>
    BY <1>14 DEF UserRelease
  <2>2. /\ lock'[t].count > 0 => lock[t].count > 0 /\ lock'[t].type = lock[t].type
        /\ \A u \in Threads \ {t} : lock'[u] = lock[u]
    BY <1>a, <2>1, ReleasedOf
  <2>3. LockInv'
    BY <2>2, LockStep DEF PlaceInv
  <2>4. Placed(t)'
    BY <2>1 DEF PlaceInv, Placed, Place
  <2> QED BY <2>1, <2>2, <2>3, <2>4, PlaceStep DEF OnlyOf
<1>15. ASSUME NEW p \in Procs, Crash(p) PROVE PlaceInv'
  <2>1. \A t \in Threads :
          \/ pc'[t] = pc[t] /\ call'[t] = call[t] /\ lock'[t] = lock[t]
          \/ pc'[t] = "idle" /\ call'[t] = NoCall /\ lock'[t] = Free
    BY <1>15 DEF Crash
  <2>2. Free.count = 0 /\ NoCall.then = "idle"
    BY DEF Free, NoCall
  <2>3. \A t \in Threads : Placed(t)'
    BY <2>1, <2>2 DEF PlaceInv, Placed, Place
  <2>4. LockInv'
    BY <2>1, <2>2 DEF PlaceInv, LockInv
  <2> QED BY <2>3, <2>4 DEF PlaceInv
<1>16. ASSUME NEW p \in Procs, TakeMarker(p) PROVE PlaceInv'
  <2>1. PICK t \in Threads : t = Head(queue[p])
    BY <1>16 DEF TakeMarker
  <2>2. lock' = lock /\ Goto(t, call[t].then) /\ call' = [call EXCEPT ![t].then = "idle"]
    BY <1>16, <2>1 DEF TakeMarker
  <2>3. pc[t] = "await"
    BY <1>16, <2>1, HeadIsMarker DEF TakeMarker
  <2>4. pc'[t] = call[t].then /\ \A u \in Threads \ {t} : pc'[u] = pc[u]
    BY <1>a, <2>2, MovesOf
  <2>5. /\ call'[t].then = "idle" /\ call'[t].create = call[t].create
        /\ \A u \in Threads \ {t} : call'[u] = call[u]
    BY <1>a, <2>2, SyncOf
  <2>6. Placed(t)'
    BY <2>2, <2>3, <2>4, <2>5 DEF PlaceInv, Placed, Place
  <2> QED BY <2>2, <2>4, <2>5, <2>6, GoOn
<1>17. ASSUME NEW p \in Procs, LookUp(p) \/ Unset(p) \/ RemoveFound(p) \/ Rearm(p) PROVE PlaceInv'
  <2>1. UNCHANGED clients
    BY <1>17 DEF LookUp, Unset, RemoveFound, Rearm
  <2> QED BY <1>1, <2>1 DEF clients
<1> QED BY <1>1, <1>2, <1>3, <1>4, <1>5, <1>6, <1>7, <1>8, <1>9, <1>10, <1>11, <1>12, <1>13,
           <1>14, <1>15, <1>16, <1>17 DEF Next, Step, EventStep, vars

\* A step of t, which is not waiting for its marker, leaves the places of the others.
LEMMA MarkStep ==
  ASSUME MarkInv, NEW t \in Threads, pc[t] # "await",
         \A u \in Threads \ {t} : pc'[u] = pc[u], queue' = queue
  PROVE  MarkInv'
BY DEF MarkInv

LEMMA MarkChange ==
  ASSUME MarkInv, NEW t \in Threads, pc[t] # "await",
         \A u \in Threads \ {t} : pc'[u] = pc[u], \A p \in Procs : EventsCome(p)
  PROVE  MarkInv'
<1>1. SUFFICES ASSUME NEW p \in Procs, NEW i \in DOMAIN queue'[p], queue'[p][i] \in Threads
               PROVE  /\ ProcOf[queue'[p][i]] = p /\ pc'[queue'[p][i]] = "await"
                      /\ \A j \in DOMAIN queue'[p] : queue'[p][j] = queue'[p][i] => i = j
  BY DEF MarkInv
<1>2. /\ \A k \in DOMAIN queue[p] : k \in DOMAIN queue'[p] /\ queue'[p][k] = queue[p][k]
      /\ \A k \in DOMAIN queue'[p] \ DOMAIN queue[p] : queue'[p][k] \in Event
  BY DEF EventsCome
<1>3. \A k \in DOMAIN queue'[p] : queue'[p][k] \in Threads => k \in DOMAIN queue[p]
  BY <1>2, ThreadsAreNoEvents
<1>4. i \in DOMAIN queue[p] /\ queue[p][i] \in Threads /\ queue'[p][i] = queue[p][i]
  BY <1>1, <1>2, <1>3
<1> QED BY <1>1, <1>2, <1>3, <1>4 DEF MarkInv

LEMMA StepMark ==
  ASSUME RepositoryTypes, ClientTypes, MarkInv, [Next]_vars
  PROVE  MarkInv'
<1>a. pc \in [Threads -> PC] /\ call \in [Threads -> Call]
  BY DEF ClientTypes
<1>b. \A t \in Threads : ProcOf[t] \in Procs
  BY LifecycleAssumption
<1>1. ASSUME UNCHANGED <<pc, queue>> PROVE MarkInv'
  BY <1>1 DEF MarkInv
<1>2. ASSUME NEW t \in Threads, NEW label, Goto(t, label), queue' = queue, pc[t] # "await"
      PROVE  MarkInv'
  BY <1>a, <1>2, MovesOf, MarkStep
<1>3. ASSUME NEW t \in Threads, Return(t), queue' = queue, pc[t] # "await"
      PROVE  MarkInv'
  BY <1>2, <1>3 DEF Return
<1>4. ASSUME NEW t \in Threads, NEW create \in BOOLEAN, Get(t, create) PROVE MarkInv'
  <2>1. pc[t] # "await" /\ queue' = queue /\ (pc' = pc \/ Goto(t, "lock"))
    BY <1>4 DEF Get, repository
  <2> QED BY <1>1, <1>2, <2>1
<1>5. ASSUME NEW t \in Threads,
             \/ Publish(t) \/ Remove(t) \/ GetLock(t) \/ Load(t) \/ Insert(t)
             \/ InitializeFails(t) \/ Unlock(t)
             \/ LockParent(t) \/ LockSelf(t) \/ Uncache(t) \/ RemovedMeanwhile(t)
             \/ Release(t) \/ CallThrows(t)
      PROVE  MarkInv'
  <2>1. pc[t] # "await" /\ queue' = queue
    BY <1>5 DEF Publish, Remove, NewCall, GetLock, Load, Insert, InitializeFails, Unlock,
                LockParent, LockSelf, Uncache, RemovedMeanwhile, Release, CallThrows, repository
  <2>2. pc' = pc \/ Return(t) \/ \E label : Goto(t, label)
    BY <1>5 DEF Publish, Remove, NewCall, GetLock, Load, Insert, InitializeFails, Unlock,
                LockParent, LockSelf, Uncache, RemovedMeanwhile, Release, CallThrows, AcquireNew,
                Reenter, ReenterFails
  <2> QED BY <1>1, <1>2, <1>3, <2>1, <2>2
<1>6. ASSUME NEW t \in Threads, NEW type \in LockTypes, UserAcquire(t, type) PROVE MarkInv'
  <2>1. pc[t] # "await" /\ queue' = queue
    BY <1>6 DEF UserAcquire, repository
  <2>2. Return(t) \/ \E label : Goto(t, label)
    BY <1>6 DEF UserAcquire, AcquireNew, Reenter, ReenterFails
  <2> QED BY <1>2, <1>3, <2>1, <2>2
<1>7. ASSUME NEW t \in Threads, UserRelease(t) PROVE MarkInv'
  BY <1>1, <1>7 DEF UserRelease, repository
<1>8. ASSUME NEW t \in Threads, Create(t) PROVE MarkInv'
  <2>1. pc[t] # "await" /\ (pc' = pc \/ Goto(t, "load"))
    BY <1>8 DEF Create
  <2>2. \A u \in Threads \ {t} : pc'[u] = pc[u]
    BY <1>a, <2>1, MovesOf
  <2>3. nodes \cup {Parts[i] : i \in 1 .. call[t].part} \in SUBSET Whole
    <3>1. call[t].part \in 1 .. 2 /\ \A i \in 1 .. 2 : Parts[i] \in Whole
      BY <1>a DEF Call, Parts, Whole
    <3>2. \A i \in 1 .. call[t].part : Parts[i] \in Whole
      BY <3>1
    <3> QED BY <3>2 DEF RepositoryTypes
  <2>4. CASE Change(nodes \cup {Parts[i] : i \in 1 .. call[t].part})
    BY <2>1, <2>2, <2>3, <2>4, ChangeTells, MarkChange
  <2>5. CASE queue' = queue
    BY <2>1, <2>2, <2>5, MarkStep
  <2> QED BY <1>8, <2>4, <2>5 DEF Create
<1>9. ASSUME NEW t \in Threads, Delete(t) \/ DeleteKey(t) PROVE MarkInv'
  <2>1. pc[t] # "await" /\ \E label : Goto(t, label)
    BY <1>9 DEF Delete, DeleteKey
  <2>2. \A u \in Threads \ {t} : pc'[u] = pc[u]
    BY <1>a, <2>1, MovesOf
  <2>3. \E new \in SUBSET Whole : Change(new)
    BY <1>9 DEF Delete, DeleteKey, RepositoryTypes
  <2> QED BY <2>1, <2>2, <2>3, ChangeTells, MarkChange
<1>16. ASSUME NEW t \in Threads, SetNodeData(t) PROVE MarkInv'
  <2>1. pc[t] # "await" /\ Return(t)
    BY <1>16 DEF SetNodeData
  <2>2. \A u \in Threads \ {t} : pc'[u] = pc[u]
    BY <1>a, <2>1, ReturnOf
  <2>3. CASE queue' = queue
    BY <1>3, <2>1, <2>3
  <2>4. CASE WriteState
    BY <2>1, <2>2, <2>4, WrittenQueue, MarkChange
  <2> QED BY <1>16, <2>3, <2>4 DEF SetNodeData
<1>10. ASSUME NEW t \in Threads, QueueMarker(t) PROVE MarkInv'
  <2>1. PICK p \in Procs : p = ProcOf[t]
    BY <1>b
  <2>2. pc[t] = "sync" /\ queue' = [queue EXCEPT ![p] = Append(@, t)] /\ Goto(t, "await")
    BY <1>10, <2>1 DEF QueueMarker
  <2>3. pc'[t] = "await" /\ \A u \in Threads \ {t} : pc'[u] = pc[u]
    BY <1>a, <2>2, MovesOf
  <2>4. /\ \A i \in DOMAIN queue[p] : i \in DOMAIN queue'[p] /\ queue'[p][i] = queue[p][i]
        /\ \A i \in DOMAIN queue'[p] \ DOMAIN queue[p] :
             queue'[p][i] = t /\ \A j \in DOMAIN queue'[p] : j = i \/ j \in DOMAIN queue[p]
        /\ \A q \in Procs \ {p} : queue'[q] = queue[q]
    BY <2>2, PushedQueue
  <2>5. \A q \in Procs : \A i \in DOMAIN queue[q] : queue[q][i] # t
    BY <2>2 DEF MarkInv
  <2>6. ASSUME NEW q \in Procs, NEW i \in DOMAIN queue'[q], queue'[q][i] \in Threads
        PROVE  /\ ProcOf[queue'[q][i]] = q /\ pc'[queue'[q][i]] = "await"
               /\ \A j \in DOMAIN queue'[q] : queue'[q][j] = queue'[q][i] => i = j
    <3>1. CASE q # p
      <4>1. queue'[q] = queue[q]
        BY <2>4, <3>1
      <4> QED BY <2>3, <2>6, <4>1 DEF MarkInv
    <3>2. CASE q = p /\ i \in DOMAIN queue[p]
      <4>1. queue'[p][i] = queue[p][i] /\ queue[p][i] # t /\ queue[p][i] \in Threads
        BY <2>4, <2>5, <2>6, <3>2
      <4>2. /\ ProcOf[queue[p][i]] = p /\ pc[queue[p][i]] = "await"
            /\ \A j \in DOMAIN queue[p] : queue[p][j] = queue[p][i] => i = j
        BY <3>2, <4>1 DEF MarkInv
      <4> QED BY <2>3, <2>4, <3>2, <4>1, <4>2
    <3>3. CASE q = p /\ i \notin DOMAIN queue[p]
      <4>1. queue'[p][i] = t /\ \A j \in DOMAIN queue'[p] : j = i \/ j \in DOMAIN queue[p]
        BY <2>4, <2>6, <3>3
      <4>2. \A j \in DOMAIN queue[p] : queue'[p][j] # t
        BY <2>4, <2>5
      <4> QED BY <2>1, <2>3, <3>3, <4>1, <4>2
    <3> QED BY <3>1, <3>2, <3>3
  <2> QED BY <2>6 DEF MarkInv
<1>11. ASSUME NEW p \in Procs, queue[p] # <<>>, queue' = [queue EXCEPT ![p] = Tail(@)],
              \A u \in Threads : pc'[u] = pc[u] \/ u = Head(queue[p])
       PROVE  MarkInv'
  <2>1. /\ \A i \in DOMAIN queue'[p] :
             i \in Nat /\ i + 1 \in DOMAIN queue[p] /\ queue'[p][i] = queue[p][i + 1]
        /\ \A q \in Procs \ {p} : queue'[q] = queue[q]
    BY <1>11, PoppedQueue
  <2>2. 1 \in DOMAIN queue[p] /\ Head(queue[p]) = queue[p][1]
    BY <1>11, QueuePositions
  <2>3. ASSUME NEW q \in Procs, NEW i \in DOMAIN queue'[q], queue'[q][i] \in Threads
        PROVE  /\ ProcOf[queue'[q][i]] = q /\ pc'[queue'[q][i]] = "await"
               /\ \A j \in DOMAIN queue'[q] : queue'[q][j] = queue'[q][i] => i = j
    <3>1. CASE q # p
      <4>1. /\ queue'[q] = queue[q] /\ ProcOf[queue[q][i]] = q /\ pc[queue[q][i]] = "await"
            /\ \A j \in DOMAIN queue[q] : queue[q][j] = queue[q][i] => i = j
        BY <2>1, <2>3, <3>1 DEF MarkInv
      <4>2. queue[q][i] # Head(queue[p])
        BY <1>11, <3>1, <4>1, <2>2, <2>3 DEF MarkInv
      <4> QED BY <1>11, <2>3, <4>1, <4>2
    <3>2. CASE q = p
      <4>1. /\ i \in Nat /\ i + 1 \in DOMAIN queue[p] /\ queue'[p][i] = queue[p][i + 1]
            /\ \A j \in DOMAIN queue'[p] :
                 j \in Nat /\ j + 1 \in DOMAIN queue[p] /\ queue'[p][j] = queue[p][j + 1]
        BY <2>1, <2>3, <3>2
      <4>2. /\ ProcOf[queue[p][i + 1]] = p /\ pc[queue[p][i + 1]] = "await"
            /\ \A j \in DOMAIN queue[p] : queue[p][j] = queue[p][i + 1] => i + 1 = j
        BY <2>3, <3>2, <4>1 DEF MarkInv
      <4>3. queue[p][i + 1] # Head(queue[p])
        <5>1. i + 1 # 1
          <6>1. i \in 1 .. Len(queue'[p])
            <7>1. queue'[p] \in Seq(Event \cup Threads)
              BY <1>11, HeadTypes
            <7> QED BY <2>3, <3>2, <7>1
          <6> QED BY <4>1, <6>1
        <5> QED BY <2>2, <4>2, <5>1
      <4>4. pc'[queue[p][i + 1]] = "await"
        BY <1>11, <2>3, <3>2, <4>1, <4>2, <4>3
      <4>5. \A j \in DOMAIN queue'[p] : queue'[p][j] = queue'[p][i] => i = j
        <5>1. \A j \in DOMAIN queue'[p] : queue'[p][j] = queue'[p][i] => i + 1 = j + 1 /\ j \in Nat
          BY <4>1, <4>2
        <5> QED BY <4>1, <5>1
      <4> QED BY <3>2, <4>1, <4>2, <4>4, <4>5
    <3> QED BY <3>1, <3>2
  <2> QED BY <2>3 DEF MarkInv
<1>12. ASSUME NEW p \in Procs, TakeMarker(p) PROVE MarkInv'
  <2>1. PICK t \in Threads : t = Head(queue[p])
    BY <1>12 DEF TakeMarker
  <2>2. /\ queue[p] # <<>> /\ queue' = [queue EXCEPT ![p] = Tail(@)]
        /\ Goto(t, call[t].then)
    BY <1>12, <2>1 DEF TakeMarker
  <2>3. \A u \in Threads \ {t} : pc'[u] = pc[u]
    BY <1>a, <2>2, MovesOf
  <2> QED BY <1>11, <2>1, <2>2, <2>3
<1>13. ASSUME NEW p \in Procs, LookUp(p) PROVE MarkInv'
  BY <1>11, <1>13 DEF LookUp, clients
<1>14. ASSUME NEW p \in Procs, Unset(p) \/ RemoveFound(p) \/ Rearm(p) PROVE MarkInv'
  BY <1>1, <1>14 DEF Unset, RemoveFound, Rearm, clients, repository
<1>15. ASSUME NEW p \in Procs, Crash(p) PROVE MarkInv'
  <2>1. /\ queue' = [queue EXCEPT ![p] = <<>>]
        /\ \A t \in Threads : ProcOf[t] # p => pc'[t] = pc[t]
    BY <1>15 DEF Crash
  <2>2. queue'[p] = <<>> /\ \A q \in Procs \ {p} : queue'[q] = queue[q]
    BY <2>1 DEF RepositoryTypes
  <2>3. DOMAIN queue'[p] = {}
    BY <2>2
  <2> QED BY <2>1, <2>2, <2>3 DEF MarkInv
<1> QED BY <1>1, <1>4, <1>5, <1>6, <1>7, <1>8, <1>9, <1>10, <1>12, <1>13, <1>14, <1>15, <1>16
        DEF Next, Step, EventStep, vars

-----------------------------------------------------------------------------
(* The znodes, while nothing fails *)

CounterTypes == faults \in Nat /\ crashes \in Nat

\* What a thread that is somewhere knows of the znodes
Shape(t) ==
  /\ pc[t] \notin {"load", "create", "insert", "unlock"} => call[t].part = 1
  /\ pc[t] = "load" /\ call[t].part = 2 => nodes = Whole
  /\ pc[t] = "create" => nodes = IF call[t].part = 1 THEN {} ELSE {"key"}
  /\ pc[t] = "insert" => nodes = Whole
  /\ Place(t) \in {"uncache", "delete"} => nodes = Whole
  /\ pc[t] = "deleteKey" => nodes = {"key"}

\* Half of them are there only while somebody makes or deletes the rest.
Shapes ==
  /\ nodes \in {{}, {"key"}, Whole}
  /\ nodes = {"key"} =>
       \E t \in Threads : pc[t] = "deleteKey" \/ (pc[t] = "create" /\ call[t].part = 2)
  /\ \A t \in Threads : Shape(t)

ShapeInv == CounterTypes /\ (Undisturbed => Shapes)

\* Who is there holds the lock of the parent; who changes something, alone.
Holding == {"load", "create", "insert", "unlock", "lockSelf", "uncache", "delete",
            "deleteKey", "release"}
Changing == {"create", "lockSelf", "uncache", "delete", "deleteKey", "release"}

LEMMA Alone ==
  ASSUME PlaceInv, NEW t \in Threads, NEW u \in Threads, t # u, Place(t) \in Changing
  PROVE  lock[u].count > 0 => FALSE
<1>1. lock[t].count > 0 /\ lock[t].type = "EXCL"
  BY DEF PlaceInv, Placed, Changing, Place
<1> QED BY <1>1 DEF PlaceInv, LockInv

LEMMA AloneThere ==
  ASSUME PlaceInv, NEW t \in Threads, NEW u \in Threads, t # u, Place(t) \in Changing
  PROVE  Place(u) \notin Holding
<1>1. Place(u) \in Holding => lock[u].count > 0
  BY DEF PlaceInv, Placed, Holding
<1> QED BY <1>1, Alone

\* Who holds the lock and finds the key finds the Notifyable whole.
LEMMA WholeSeen ==
  ASSUME PlaceInv, Shapes, NEW t \in Threads, lock[t].count > 0,
         pc[t] \notin {"create", "deleteKey"}, "key" \in nodes
  PROVE  nodes = Whole
<1>1. SUFFICES ASSUME nodes = {"key"} PROVE FALSE
  BY DEF Shapes, Whole
<1>2. PICK u \in Threads : pc[u] \in {"deleteKey", "create"}
  BY <1>1 DEF Shapes
<1>3. Place(u) \in Changing /\ u # t
  BY <1>2 DEF Place, Changing
<1> QED BY <1>3, Alone

\* A step of t that leaves the znodes
LEMMA ShapesStay ==
  ASSUME Shapes, nodes' = nodes, NEW t \in Threads,
         \A u \in Threads \ {t} : pc'[u] = pc[u] /\ call'[u] = call[u],
         pc[t] \notin {"create", "deleteKey"}, Shape(t)'
  PROVE  Shapes'
<1>1. ASSUME NEW u \in Threads \ {t} PROVE Shape(u)'
  BY <1>1 DEF Shapes, Shape, Place
<1>2. \A u \in Threads : Shape(u)'
  BY <1>1
<1>3. nodes' = {"key"} =>
        \E u \in Threads : pc'[u] = "deleteKey" \/ (pc'[u] = "create" /\ call'[u].part = 2)
  <2>1. SUFFICES ASSUME nodes = {"key"}
                 PROVE  \E u \in Threads :
                          pc'[u] = "deleteKey" \/ (pc'[u] = "create" /\ call'[u].part = 2)
    OBVIOUS
  <2>2. PICK u \in Threads : pc[u] = "deleteKey" \/ (pc[u] = "create" /\ call[u].part = 2)
    BY <2>1 DEF Shapes
  <2>3. u # t
    BY <2>2
  <2> QED BY <2>2, <2>3
<1> QED BY <1>2, <1>3 DEF Shapes

\* A step of t, alone, that makes or deletes znodes
LEMMA ShapesChange ==
  ASSUME PlaceInv, Shapes, NEW t \in Threads, Place(t) \in Changing,
         \A u \in Threads \ {t} : pc'[u] = pc[u] /\ call'[u] = call[u],
         nodes' \in {{}, {"key"}, Whole}, Shape(t)',
         nodes' = {"key"} => pc'[t] = "deleteKey" \/ (pc'[t] = "create" /\ call'[t].part = 2)
  PROVE  Shapes'
<1>1. ASSUME NEW u \in Threads \ {t} PROVE Shape(u)'
  <2>1. Place(u) \notin Holding
    BY AloneThere
  <2>2. pc[u] \notin {"load", "create", "insert", "unlock", "deleteKey"}
    BY <2>1 DEF Place, Holding
  <2>3. Place(u) \notin {"uncache", "delete"} /\ Place(u)' = Place(u)
    BY <2>1 DEF Holding, Place
  <2>4. call[u].part = 1
    BY <2>2 DEF Shapes, Shape
  <2> QED BY <2>2, <2>3, <2>4 DEF Shape
<1>2. \A u \in Threads : Shape(u)'
  BY <1>1
<1> QED BY <1>2 DEF Shapes

LEMMA StepCounters ==
  ASSUME CounterTypes, [Next]_vars
  PROVE  /\ CounterTypes'
         /\ faults' = 0 => faults = 0 /\ \A t \in Threads : ~CallThrows(t) /\ ~InitializeFails(t)
         /\ Undisturbed' => /\ Undisturbed
                            /\ \A t \in Threads : ~CallThrows(t) /\ ~InitializeFails(t)
                            /\ \A p \in Procs : ~Crash(p)
                            /\ \A t \in Threads : ~(Create(t) /\ Fault)
<1>a. faults \in Nat /\ crashes \in Nat
  BY DEF CounterTypes
<1>b. (faults + 1 = 0 => FALSE) /\ (crashes + 1 = 0 => FALSE) /\ faults + 1 \in Nat /\ crashes + 1 \in Nat
  BY <1>a
<1>1. CASE UNCHANGED <<faults, crashes>>
  <2>1. \A p \in Procs : ~Crash(p)
    BY <1>1, <1>a DEF Crash
  <2>2. ~Fault
    BY <1>1, <1>a DEF Fault
  <2> QED BY <1>1, <2>1, <2>2 DEF CounterTypes, Undisturbed, CallThrows, InitializeFails
<1>2. CASE Fault /\ crashes' = crashes
  BY <1>2, <1>a, <1>b DEF Fault, CounterTypes, Undisturbed
<1>3. CASE \E p \in Procs : Crash(p)
  <2>1. faults' = faults /\ crashes' = crashes + 1
    BY <1>3 DEF Crash
  <2>2. ~Fault
    BY <2>1, <1>a DEF Fault
  <2> QED BY <2>1, <2>2, <1>a, <1>b DEF CounterTypes, Undisturbed, CallThrows, InitializeFails
<1>4. UNCHANGED <<faults, crashes>> \/ (Fault /\ crashes' = crashes) \/ (\E p \in Procs : Crash(p))
  <2>1. CASE UNCHANGED vars
    BY <2>1 DEF vars
  <2>2. ASSUME NEW t \in Threads,
               \/ \E create \in BOOLEAN : Get(t, create)
               \/ Publish(t) \/ Remove(t)
               \/ \E type \in LockTypes : UserAcquire(t, type)
               \/ UserRelease(t)
        PROVE  UNCHANGED <<faults, crashes>>
    BY <2>2 DEF Get, Publish, Remove, UserAcquire, UserRelease, counters
  <2>3. ASSUME NEW t \in Threads, Step(t)
        PROVE  UNCHANGED <<faults, crashes>> \/ (Fault /\ crashes' = crashes)
    BY <2>3 DEF Step, SetNodeData, GetLock, Load, Create, Insert, InitializeFails, Unlock,
                LockParent, LockSelf, Uncache, RemovedMeanwhile, Delete, DeleteKey, Release,
                CallThrows, QueueMarker, counters
  <2>4. ASSUME NEW p \in Procs, EventStep(p) PROVE UNCHANGED <<faults, crashes>>
    BY <2>4 DEF EventStep, TakeMarker, LookUp, Unset, RemoveFound, Rearm, counters
  <2> QED BY <2>1, <2>2, <2>3, <2>4 DEF Next
<1> QED BY <1>1, <1>2, <1>3, <1>4

LEMMA StepShape ==
  ASSUME RepositoryTypes, ClientTypes, MarkInv, PlaceInv, ShapeInv, [Next]_vars
  PROVE  ShapeInv'
<1>a. lock \in LockRecords /\ pc \in [Threads -> PC] /\ call \in [Threads -> Call]
  BY DEF ClientTypes
<1>b. NoCall.part = 1 /\ NoCall.then = "idle"
  BY DEF NoCall
<1>c. SUFFICES ASSUME Undisturbed' PROVE Shapes'
  BY StepCounters DEF ShapeInv
<1>d. /\ Shapes
      /\ \A t \in Threads : ~CallThrows(t) /\ ~InitializeFails(t) /\ ~(Create(t) /\ Fault)
      /\ \A p \in Procs : ~Crash(p)
  BY <1>c, StepCounters DEF ShapeInv
<1>1. ASSUME UNCHANGED <<nodes, pc, call>> PROVE Shapes'
  BY <1>1, <1>d DEF Shapes, Shape, Place
\* The call ends, or goes on where nothing is asked of the znodes.
<1>2. ASSUME NEW t \in Threads, Return(t), nodes' = nodes, pc[t] \notin {"create", "deleteKey"}
      PROVE  Shapes'
  <2>1. /\ pc'[t] = "idle" /\ call'[t] = NoCall
        /\ \A u \in Threads \ {t} : pc'[u] = pc[u] /\ call'[u] = call[u]
    BY <1>a, <1>2, ReturnOf
  <2>2. Shape(t)'
    BY <1>b, <2>1 DEF Shape, Place
  <2> QED BY <1>d, <1>2, <2>1, <2>2, ShapesStay
<1>3. ASSUME NEW t \in Threads, NEW label, Goto(t, label), UNCHANGED <<nodes, call>>,
             pc[t] \notin {"create", "deleteKey"},
             \/ /\ label \in {"lock", "load", "publish", "lockParent", "lockSelf", "idle"}
                /\ call[t].part = 1
             \/ label = "unlock"
             \/ label = "insert" /\ nodes = Whole
             \/ label = "delete" /\ pc[t] = "uncache"
             \/ label = "await" /\ pc[t] = "sync"
      PROVE  Shapes'
  <2>1. pc'[t] = label /\ \A u \in Threads \ {t} : pc'[u] = pc[u]
    BY <1>a, <1>3, MovesOf
  <2>2. Shape(t)
    BY <1>d DEF Shapes
  <2>3. Shape(t)'
    BY <1>3, <2>1, <2>2 DEF Shape, Place
  <2> QED BY <1>d, <1>3, <2>1, <2>3, ShapesStay
<1>4. ASSUME NEW t \in Threads, NEW label, Goto(t, "sync"), call' = [call EXCEPT ![t].then = label],
             nodes' = nodes, pc[t] \notin {"create", "deleteKey"},
             call[t].part = 1, label \in {"idle", "load", "lockSelf"} \/ nodes = Whole
      PROVE  Shapes'
  <2>1. pc'[t] = "sync" /\ \A u \in Threads \ {t} : pc'[u] = pc[u]
    BY <1>a, <1>4, MovesOf
  <2>2. /\ call'[t].then = label /\ call'[t].part = call[t].part
        /\ \A u \in Threads \ {t} : call'[u] = call[u]
    BY <1>a, <1>4, SyncOf
  <2>3. Shape(t)'
    BY <1>4, <2>1, <2>2 DEF Shape, Place
  <2> QED BY <1>d, <1>4, <2>1, <2>2, <2>3, ShapesStay
<1>e. \A t \in Threads : pc[t] \notin {"load", "create", "insert", "unlock"} => call[t].part = 1
  BY <1>d DEF Shapes, Shape
<1>5. ASSUME NEW t \in Threads, NEW create \in BOOLEAN, Get(t, create) PROVE Shapes'
  <2>1. CASE UNCHANGED <<pc, call>>
    BY <1>1, <1>5, <2>1 DEF Get, repository
  <2>2. CASE Goto(t, "lock") /\ call' = [call EXCEPT ![t] = [NoCall EXCEPT !.create = create]]
    <3>1. pc'[t] = "lock" /\ \A u \in Threads \ {t} : pc'[u] = pc[u]
      BY <1>a, <2>2, MovesOf
    <3>2. call'[t].part = 1 /\ \A u \in Threads \ {t} : call'[u] = call[u]
      BY <1>a, <2>2, BeginOf
    <3>3. Shape(t)'
      BY <3>1, <3>2 DEF Shape, Place
    <3>4. pc[t] = "idle" /\ nodes' = nodes
      BY <1>5 DEF Get, repository
    <3> QED BY <1>d, <3>1, <3>2, <3>3, <3>4, ShapesStay
  <2> QED BY <1>5, <2>1, <2>2 DEF Get
<1>6. ASSUME NEW t \in Threads, GetLock(t) PROVE Shapes'
  <2>1. pc[t] = "lock" /\ nodes' = nodes
    BY <1>6 DEF GetLock, repository
  <2>2. CASE Return(t)
    BY <1>2, <2>1, <2>2
  <2>3. CASE Goto(t, "load") /\ UNCHANGED call
    BY <1>3, <1>e, <2>1, <2>3
  <2>4. CASE Goto(t, "sync") /\ call' = [call EXCEPT ![t].then = "load"]
    <3>1. call[t].part = 1
      BY <1>e, <2>1
    <3> QED BY <1>4, <2>1, <2>4, <3>1
  <2> QED BY <1>6, <2>2, <2>3, <2>4 DEF GetLock, AcquireNew
<1>7. ASSUME NEW t \in Threads, Load(t) PROVE Shapes'
  <2>1. pc[t] = "load" /\ nodes' = nodes /\ call[t].part \in 1 .. 2
    BY <1>7, <1>a DEF Load, Call
  <2>2. /\ Parts[1] = "key" /\ Parts[2] = "state" /\ Len(Parts) = 2
        /\ {"key", "state"} = Whole
    BY DEF Parts, Whole
  <2>3. lock[t].count > 0
    BY <2>1 DEF PlaceInv, Placed, Place
  <2>4. call[t].part = 1 \/ nodes = Whole
    BY <1>d, <2>1 DEF Shapes, Shape
  <2>5. CASE Return(t)
    BY <1>2, <2>1, <2>5
  <2>6. CASE Goto(t, "unlock") /\ UNCHANGED call
    BY <1>3, <2>1, <2>6
  <2>7. CASE Goto(t, "insert") /\ UNCHANGED call /\ call[t].part = Len(Parts)
    <3>1. nodes = Whole
      BY <2>2, <2>4, <2>7
    <3> QED BY <1>3, <2>1, <2>7, <3>1
  <2>8. CASE /\ Parts[call[t].part] \in nodes /\ call[t].part < Len(Parts)
             /\ call' = [call EXCEPT ![t].part = @ + 1] /\ UNCHANGED pc
    <3>1. call[t].part = 1
      BY <2>1, <2>2, <2>8
    <3>2. nodes = Whole
      BY <1>d, <2>1, <2>2, <2>3, <2>8, <3>1, WholeSeen
    <3>3. /\ call'[t].then = call[t].then /\ \A u \in Threads \ {t} : call'[u] = call[u]
      BY <1>a, <2>8, PartOf
    <3>4. Shape(t)'
      BY <2>1, <2>8, <3>2 DEF Shape, Place
    <3> QED BY <1>d, <2>1, <2>8, <3>3, <3>4, ShapesStay
  <2>9. CASE /\ Parts[call[t].part] \notin nodes /\ Goto(t, "create")
             /\ call' = [call EXCEPT ![t].part = 1, ![t].again = TRUE]
    <3>1. Parts[call[t].part] \in Whole
      BY <2>1, <2>2
    <3>2. nodes # Whole /\ call[t].part = 1
      BY <2>4, <2>9, <3>1
    <3>3. nodes = {}
      BY <1>d, <2>2, <2>9, <3>2 DEF Shapes
    <3>4. pc'[t] = "create" /\ \A u \in Threads \ {t} : pc'[u] = pc[u]
      BY <1>a, <2>9, MovesOf
    <3>5. /\ call'[t].part = 1 /\ \A u \in Threads \ {t} : call'[u] = call[u]
      <4>1. \/ call'[t].part = 1
            \/ call' = [call EXCEPT ![t].part = @ + 1]
        BY <1>a, <2>9, PartOf
      <4>2. call[t].part + 1 = 2
        BY <3>2
      <4>3. call'[t].part = 1
        <5>1. PICK record \in [create : BOOLEAN, part : 1 .. 2, again : BOOLEAN, then : PC] :
                record = call[t]
          BY <1>a DEF Call
        <5>2. [record EXCEPT !.part = 1, !.again = TRUE].part = 1
          BY <5>1
        <5>3. call'[t] = [record EXCEPT !.part = 1, !.again = TRUE]
          BY <1>a, <2>9, <5>1
        <5> QED BY <5>2, <5>3
      <4> QED BY <1>a, <2>9, <4>3, PartOf
    <3>6. Shape(t)'
      BY <2>1, <3>3, <3>4, <3>5 DEF Shape, Place
    <3> QED BY <1>d, <2>1, <3>4, <3>5, <3>6, ShapesStay
  <2> QED BY <1>7, <2>5, <2>6, <2>7, <2>8, <2>9 DEF Load
<1>8. ASSUME NEW t \in Threads, Create(t) PROVE Shapes'
  <2>1. pc[t] = "create" /\ Change(nodes \cup {Parts[i] : i \in 1 .. call[t].part})
    BY <1>8, <1>d DEF Create
  <2>2. /\ Parts[1] = "key" /\ Parts[2] = "state" /\ Len(Parts) = 2
        /\ {"key", "state"} = Whole
    BY DEF Parts, Whole
  <2>3. /\ call[t].part \in {1, 2} /\ nodes = IF call[t].part = 1 THEN {} ELSE {"key"}
        /\ Place(t) \in Changing
    BY <1>a, <1>d, <2>1 DEF Call, Shapes, Shape, Place, Changing
  <2>4. CASE call[t].part = 1
    <3>1. nodes' = {"key"}
      <4>1. {Parts[i] : i \in 1 .. 1} = {"key"}
        BY <2>2
      <4> QED BY <2>1, <2>3, <2>4, <4>1 DEF Change
    <3>2. pc' = pc /\ call' = [call EXCEPT ![t].part = @ + 1]
      BY <1>8, <2>2, <2>4 DEF Create
    <3>3. call'[t].part = 2 /\ \A u \in Threads \ {t} : call'[u] = call[u]
      <4>1. PICK record \in [create : BOOLEAN, part : 1 .. 2, again : BOOLEAN, then : PC] :
              record = call[t]
        BY <1>a DEF Call
      <4>2. [record EXCEPT !.part = 2].part = 2
        BY <4>1
      <4>3. call'[t] = [record EXCEPT !.part = 2]
        BY <1>a, <2>4, <3>2, <4>1
      <4> QED BY <1>a, <3>2, <4>2, <4>3
    <3>4. Shape(t)'
      BY <2>1, <3>1, <3>2, <3>3 DEF Shape, Place
    <3> QED BY <1>d, <2>1, <2>3, <3>1, <3>2, <3>3, <3>4, ShapesChange
  <2>5. CASE call[t].part = 2
    <3>1. nodes' = Whole
      <4>1. {Parts[i] : i \in 1 .. 2} = {"key", "state"}
        BY <2>2
      <4> QED BY <2>1, <2>2, <2>3, <2>5, <4>1 DEF Change
    <3>2. Goto(t, "load") /\ call' = [call EXCEPT ![t].part = 1]
      BY <1>8, <2>2, <2>5 DEF Create
    <3>3. pc'[t] = "load" /\ \A u \in Threads \ {t} : pc'[u] = pc[u]
      BY <1>a, <3>2, MovesOf
    <3>4. \A u \in Threads \ {t} : call'[u] = call[u]
      BY <1>a, <3>2, PartOf
    <3>5. Shape(t)'
      BY <3>1, <3>3 DEF Shape, Place
    <3>6. nodes' # {"key"}
      BY <3>1 DEF Whole
    <3> QED BY <1>d, <2>1, <2>3, <3>1, <3>3, <3>4, <3>5, <3>6, ShapesChange
  <2> QED BY <2>3, <2>4, <2>5
<1>9. ASSUME NEW t \in Threads, Delete(t) PROVE Shapes'
  <2>1. pc[t] = "delete" /\ Goto(t, "deleteKey") /\ call' = call /\ nodes' = nodes \ {"state"}
    BY <1>9 DEF Delete, Change
  <2>2. pc'[t] = "deleteKey" /\ \A u \in Threads \ {t} : pc'[u] = pc[u]
    BY <1>a, <2>1, MovesOf
  <2>3. nodes = Whole /\ Place(t) \in Changing /\ call[t].part = 1
    BY <1>d, <2>1 DEF Shapes, Shape, Place, Changing
  <2>4. nodes' = {"key"}
    BY <2>1, <2>3 DEF Whole
  <2>5. Shape(t)'
    BY <2>1, <2>2, <2>3, <2>4 DEF Shape, Place
  <2> QED BY <1>d, <2>1, <2>2, <2>3, <2>4, <2>5, ShapesChange
<1>10. ASSUME NEW t \in Threads, DeleteKey(t) PROVE Shapes'
  <2>1. pc[t] = "deleteKey" /\ Goto(t, "release") /\ call' = call /\ nodes' = nodes \ {"key"}
    BY <1>10 DEF DeleteKey, Change
  <2>2. pc'[t] = "release" /\ \A u \in Threads \ {t} : pc'[u] = pc[u]
    BY <1>a, <2>1, MovesOf
  <2>3. nodes = {"key"} /\ Place(t) \in Changing /\ call[t].part = 1
    BY <1>d, <2>1 DEF Shapes, Shape, Place, Changing
  <2>4. nodes' = {}
    BY <2>1, <2>3
  <2>5. Shape(t)'
    BY <2>1, <2>2, <2>3, <2>4 DEF Shape, Place
  <2> QED BY <1>d, <2>1, <2>2, <2>3, <2>4, <2>5, ShapesChange
<1>11. ASSUME NEW t \in Threads, Insert(t) PROVE Shapes'
  <2>1. pc[t] = "insert" /\ nodes' = nodes
    BY <1>11 DEF Insert, repository
  <2>2. Return(t) \/ (Goto(t, "unlock") /\ UNCHANGED call)
    BY <1>11 DEF Insert
  <2> QED BY <1>2, <1>3, <2>1, <2>2
<1>12. ASSUME NEW t \in Threads, Unlock(t) \/ RemovedMeanwhile(t) PROVE Shapes'
  BY <1>2, <1>12 DEF Unlock, RemovedMeanwhile, repository
<1>13. ASSUME NEW t \in Threads, Publish(t) \/ Remove(t) PROVE Shapes'
  BY <1>3, <1>e, <1>13 DEF Publish, Remove, NewCall, repository
<1>14. ASSUME NEW t \in Threads, LockParent(t) PROVE Shapes'
  <2>1. pc[t] = "lockParent" /\ nodes' = nodes
    BY <1>14 DEF LockParent, repository
  <2>2. \/ Return(t)
        \/ Goto(t, "lockSelf") /\ UNCHANGED call
        \/ Goto(t, "sync") /\ call' = [call EXCEPT ![t].then = "lockSelf"]
    BY <1>14 DEF LockParent, AcquireNew, Reenter, ReenterFails
  <2> QED BY <1>2, <1>3, <1>4, <1>e, <2>1, <2>2
<1>15. ASSUME NEW t \in Threads, LockSelf(t) PROVE Shapes'
  <2>1. pc[t] = "lockSelf" /\ nodes' = nodes
    BY <1>15 DEF LockSelf, repository
  <2>2. CASE Return(t)
    BY <1>2, <2>1, <2>2
  <2>3. CASE /\ "key" \in nodes /\ Goto(t, "sync")
             /\ call' = [call EXCEPT ![t].then = "uncache"]
    <3>1. lock[t].count > 0
      BY <2>1 DEF PlaceInv, Placed, Place
    <3>2. nodes = Whole
      BY <1>d, <2>1, <2>3, <3>1, WholeSeen
    <3> QED BY <1>4, <1>e, <2>1, <2>3, <3>2
  <2> QED BY <1>15, <2>2, <2>3 DEF LockSelf
<1>23. ASSUME NEW t \in Threads, SetNodeData(t) PROVE Shapes'
  <2>1. pc[t] = "publish" /\ nodes' = nodes /\ Return(t)
    BY <1>23 DEF SetNodeData, WriteState
  <2> QED BY <1>2, <2>1
<1>16. ASSUME NEW t \in Threads, Uncache(t) PROVE Shapes'
  BY <1>3, <1>16 DEF Uncache, repository
<1>17. ASSUME NEW t \in Threads, Release(t) PROVE Shapes'
  <2>1. /\ pc[t] = "release" /\ nodes' = nodes
        /\ Goto(t, "sync") /\ call' = [call EXCEPT ![t].then = "idle"]
    BY <1>17 DEF Release, repository
  <2>2. call[t].part = 1
    BY <1>e, <2>1
  <2> QED BY <1>4, <2>1, <2>2
<1>18. ASSUME NEW t \in Threads, QueueMarker(t) PROVE Shapes'
  BY <1>3, <1>18 DEF QueueMarker
<1>19. ASSUME NEW t \in Threads, NEW type \in LockTypes, UserAcquire(t, type) PROVE Shapes'
  <2>1. pc[t] = "idle" /\ nodes' = nodes
    BY <1>19 DEF UserAcquire, repository
  <2>2. \/ Return(t)
        \/ Goto(t, "idle") /\ UNCHANGED call
        \/ Goto(t, "sync") /\ call' = [call EXCEPT ![t].then = "idle"]
    BY <1>19 DEF UserAcquire, AcquireNew, Reenter, ReenterFails
  <2> QED BY <1>2, <1>3, <1>4, <1>e, <2>1, <2>2
<1>20. ASSUME NEW t \in Threads, UserRelease(t) PROVE Shapes'
  BY <1>1, <1>20 DEF UserRelease, repository
<1>21. ASSUME NEW p \in Procs, TakeMarker(p) PROVE Shapes'
  <2>1. PICK t \in Threads : t = Head(queue[p])
    BY <1>21 DEF TakeMarker
  <2>2. nodes' = nodes /\ Goto(t, call[t].then) /\ call' = [call EXCEPT ![t].then = "idle"]
    BY <1>21, <2>1 DEF TakeMarker
  <2>3. pc[t] = "await"
    BY <1>21, <2>1, HeadIsMarker DEF TakeMarker
  <2>4. pc'[t] = call[t].then /\ \A u \in Threads \ {t} : pc'[u] = pc[u]
    BY <1>a, <2>2, MovesOf
  <2>5. /\ call'[t].then = "idle" /\ call'[t].part = call[t].part
        /\ \A u \in Threads \ {t} : call'[u] = call[u]
    BY <1>a, <2>2, SyncOf
  <2>6. call[t].then \in {"idle", "load", "lockSelf", "uncache"}
    BY DEF PlaceInv, Placed
  <2>7. call[t].part = 1 /\ (call[t].then = "uncache" => nodes = Whole)
    BY <1>d, <2>3 DEF Shapes, Shape, Place
  <2>8. Shape(t)'
    BY <2>2, <2>4, <2>5, <2>6, <2>7 DEF Shape, Place
  <2> QED BY <1>d, <2>2, <2>3, <2>4, <2>5, <2>8, ShapesStay
<1>22. ASSUME NEW p \in Procs, LookUp(p) \/ Unset(p) \/ RemoveFound(p) \/ Rearm(p) PROVE Shapes'
  BY <1>1, <1>22 DEF LookUp, Unset, RemoveFound, Rearm, clients, repository
<1> QED BY <1>d, <1>1, <1>5, <1>6, <1>7, <1>8, <1>9, <1>10, <1>11, <1>12, <1>13,
           <1>14, <1>15, <1>16, <1>17, <1>18, <1>19, <1>20, <1>21, <1>22, <1>23
        DEF Next, Step, EventStep, vars

-----------------------------------------------------------------------------
(* Watches and events *)

HandlingTypes ==
  handling \in [Procs -> [part : Whole, kind : {"created", "changed", "deleted"}, object : Nat,
                          at : {"none", "found", "unset"}]]

Made(t) == nodes \cup {Parts[i] : i \in 1 .. call[t].part}

LEMMA MadeTypes ==
  ASSUME RepositoryTypes, ClientTypes, NEW t \in Threads
  PROVE  Made(t) \in SUBSET Whole /\ nodes \subseteq Made(t)
<1>1. call[t].part \in 1 .. 2 /\ \A i \in 1 .. 2 : Parts[i] \in Whole
  BY DEF ClientTypes, Call, Parts, Whole
<1>2. \A i \in 1 .. call[t].part : Parts[i] \in Whole
  BY <1>1
<1> QED BY <1>2 DEF RepositoryTypes, Made

\* The steps that have to do with znodes, watches and events
LEMMA Kinds ==
  ASSUME [Next]_vars
  PROVE  \/ UNCHANGED <<nodes, watch, ready, queue, handling>>
         \/ \E t \in Threads :
              \/ Load(t) \/ Delete(t) \/ DeleteKey(t) \/ QueueMarker(t)
              \/ Create(t) /\ Change(Made(t))
              \/ SetNodeData(t) /\ WriteState
         \/ \E p \in Procs :
              TakeMarker(p) \/ LookUp(p) \/ Unset(p) \/ RemoveFound(p) \/ Rearm(p) \/ Crash(p)
<1>1. CASE UNCHANGED vars
  BY <1>1 DEF vars
<1>2. ASSUME NEW t \in Threads,
             \/ \E create \in BOOLEAN : Get(t, create)
             \/ Publish(t) \/ Remove(t) \/ GetLock(t) \/ Insert(t) \/ InitializeFails(t) \/ Unlock(t)
             \/ LockParent(t) \/ LockSelf(t) \/ Uncache(t) \/ RemovedMeanwhile(t)
             \/ Release(t) \/ CallThrows(t)
             \/ \E type \in LockTypes : UserAcquire(t, type)
             \/ UserRelease(t)
      PROVE  UNCHANGED <<nodes, watch, ready, queue, handling>>
  BY <1>2 DEF repository, Get, Publish, Remove, GetLock, Insert, InitializeFails, Unlock,
              LockParent, LockSelf, Uncache, RemovedMeanwhile, Release, CallThrows, UserAcquire,
              UserRelease
<1>3. ASSUME NEW t \in Threads, Create(t)
      PROVE  UNCHANGED <<nodes, watch, ready, queue, handling>> \/ Change(Made(t))
  BY <1>3 DEF Create, Made
<1>4. ASSUME NEW t \in Threads, SetNodeData(t)
      PROVE  UNCHANGED <<nodes, watch, ready, queue, handling>> \/ WriteState
  BY <1>4 DEF SetNodeData
<1> QED BY <1>1, <1>2, <1>3, <1>4 DEF Next, Step, EventStep

\* An event is on its way to p, or found by its event thread.
Pending(p, part) ==
  \/ handling[p].at = "found" /\ handling[p].part = part
  \/ \E i \in DOMAIN queue[p] : queue[p][i] \notin Threads /\ queue[p][i].part = part

\* A watch counts as set until its event has been found; at most one event is pending.
Watched(p) ==
  /\ watch[p] \subseteq ready[p]
  /\ \A part \in ready[p] \ watch[p] : Pending(p, part)
  /\ \A i \in DOMAIN queue[p] : queue[p][i] \notin Threads =>
       /\ queue[p][i].part \in ready[p] \ watch[p]
       /\ \A j \in DOMAIN queue[p] :
            queue[p][j] \notin Threads /\ queue[p][j].part = queue[p][i].part => i = j
  /\ handling[p].at = "found" =>
       /\ handling[p].part \in ready[p] \ watch[p]
       /\ \A i \in DOMAIN queue[p] :
            queue[p][i] \notin Threads => queue[p][i].part # handling[p].part
  /\ handling[p].at = "none" => handling[p] = NoEvent

WatchInv == \A p \in Procs : Watched(p)

LEMMA WatchSet ==
  ASSUME RepositoryTypes, WatchInv, NEW p \in Procs, NEW part \in Whole, SetWatch(p, part),
         queue' = queue, handling' = handling
  PROVE  WatchInv'
<1>1. /\ ready'[p] = ready[p] \cup {part}
      /\ watch'[p] = IF part \in ready[p] THEN watch[p] ELSE watch[p] \cup {part}
      /\ \A q \in Procs \ {p} : ready'[q] = ready[q] /\ watch'[q] = watch[q]
  BY DEF SetWatch, RepositoryTypes
<1>2. ASSUME NEW q \in Procs PROVE Watched(q)'
  <2>1. CASE q # p
    BY <1>1, <2>1 DEF WatchInv, Watched, Pending
  <2>2. CASE q = p /\ part \in ready[p]
    <3>1. ready'[p] = ready[p] /\ watch'[p] = watch[p]
      BY <1>1, <2>2
    <3> QED BY <2>2, <3>1 DEF WatchInv, Watched, Pending
  <2>3. CASE q = p /\ part \notin ready[p]
    <3>1. ready'[p] = ready[p] \cup {part} /\ watch'[p] = watch[p] \cup {part}
      BY <1>1, <2>3
    <3> QED BY <2>3, <3>1 DEF WatchInv, Watched, Pending
  <2> QED BY <2>1, <2>2, <2>3
<1> QED BY <1>2 DEF WatchInv

LEMMA WatchChange ==
  ASSUME WatchInv, \A p \in Procs : EventsCome(p), ready' = ready, handling' = handling
  PROVE  WatchInv'
<1>1. SUFFICES ASSUME NEW p \in Procs PROVE Watched(p)'
  BY DEF WatchInv
<1>2. /\ watch'[p] \subseteq watch[p]
      /\ \A i \in DOMAIN queue[p] : i \in DOMAIN queue'[p] /\ queue'[p][i] = queue[p][i]
      /\ \A i \in DOMAIN queue'[p] \ DOMAIN queue[p] :
           queue'[p][i] \in Event /\ queue'[p][i].part \in watch[p] \ watch'[p]
      /\ \A i, j \in DOMAIN queue'[p] \ DOMAIN queue[p] :
           queue'[p][i].part = queue'[p][j].part => i = j
      /\ \A part \in watch[p] \ watch'[p] :
           \E i \in DOMAIN queue'[p] \ DOMAIN queue[p] : queue'[p][i].part = part
  BY DEF EventsCome
<1>3. Watched(p)
  BY DEF WatchInv
<1>4. \A e \in Event : e \notin Threads
  BY ThreadsAreNoEvents
<1>5. watch'[p] \subseteq ready'[p]
  BY <1>2, <1>3 DEF Watched
<1>6. \A part \in ready'[p] \ watch'[p] : Pending(p, part)'
  <2>1. SUFFICES ASSUME NEW part \in ready[p], part \notin watch'[p] PROVE Pending(p, part)'
    OBVIOUS
  <2>2. CASE part \in watch[p]
    <3>1. PICK i \in DOMAIN queue'[p] \ DOMAIN queue[p] : queue'[p][i].part = part
      BY <1>2, <2>1, <2>2
    <3> QED BY <1>2, <1>4, <3>1 DEF Pending
  <2>3. CASE part \notin watch[p]
    <3>1. Pending(p, part)
      BY <1>3, <2>1, <2>3 DEF Watched
    <3> QED BY <1>2, <3>1 DEF Pending
  <2> QED BY <2>2, <2>3
<1>7. ASSUME NEW i \in DOMAIN queue'[p], queue'[p][i] \notin Threads
      PROVE  /\ queue'[p][i].part \in ready'[p] \ watch'[p]
             /\ \A j \in DOMAIN queue'[p] :
                  queue'[p][j] \notin Threads /\ queue'[p][j].part = queue'[p][i].part => i = j
  <2>1. CASE i \in DOMAIN queue[p]
    <3>1. queue'[p][i] = queue[p][i] /\ queue[p][i].part \in ready[p] \ watch[p]
      BY <1>2, <1>3, <1>7, <2>1 DEF Watched
    <3>2. \A j \in DOMAIN queue'[p] :
            queue'[p][j] \notin Threads /\ queue'[p][j].part = queue'[p][i].part =>
              j \in DOMAIN queue[p]
      BY <1>2, <3>1
    <3>3. watch'[p] \subseteq watch[p]
      BY <1>2
    <3> QED BY <1>2, <1>3, <1>7, <2>1, <3>1, <3>2, <3>3 DEF Watched
  <2>2. CASE i \notin DOMAIN queue[p]
    <3>1. queue'[p][i].part \in watch[p] \ watch'[p]
      BY <1>2, <2>2
    <3>2. \A j \in DOMAIN queue[p] : queue[p][j] \notin Threads => queue[p][j].part \notin watch[p]
      BY <1>3 DEF Watched
    <3>3. queue'[p][i].part \in ready'[p] \ watch'[p]
      BY <1>3, <3>1 DEF Watched
    <3>4. \A j \in DOMAIN queue'[p] :
            queue'[p][j] \notin Threads /\ queue'[p][j].part = queue'[p][i].part =>
              j \notin DOMAIN queue[p]
      BY <1>2, <3>1, <3>2
    <3> QED BY <1>2, <2>2, <3>3, <3>4
  <2> QED BY <2>1, <2>2
<1>8. handling'[p].at = "found" =>
        /\ handling'[p].part \in ready'[p] \ watch'[p]
        /\ \A i \in DOMAIN queue'[p] :
             queue'[p][i] \notin Threads => queue'[p][i].part # handling'[p].part
  <2>1. SUFFICES ASSUME handling[p].at = "found"
                 PROVE  /\ handling[p].part \in ready[p] \ watch'[p]
                        /\ \A i \in DOMAIN queue'[p] :
                             queue'[p][i] \notin Threads => queue'[p][i].part # handling[p].part
    OBVIOUS
  <2>2. /\ handling[p].part \in ready[p] \ watch[p]
        /\ \A i \in DOMAIN queue[p] :
             queue[p][i] \notin Threads => queue[p][i].part # handling[p].part
    BY <1>3, <2>1 DEF Watched
  <2> QED BY <1>2, <2>2
<1>9. handling'[p].at = "none" => handling'[p] = NoEvent
  BY <1>3 DEF Watched
<1> QED BY <1>5, <1>6, <1>7, <1>8, <1>9 DEF Watched

LEMMA WatchPush ==
  ASSUME RepositoryTypes, WatchInv, NEW t \in Threads, QueueMarker(t)
  PROVE  WatchInv'
<1>1. PICK p \in Procs : p = ProcOf[t]
  BY LifecycleAssumption
<1>2. queue' = [queue EXCEPT ![p] = Append(@, t)] /\ UNCHANGED <<watch, ready, handling>>
  BY <1>1 DEF QueueMarker
<1>3. /\ \A i \in DOMAIN queue[p] : i \in DOMAIN queue'[p] /\ queue'[p][i] = queue[p][i]
      /\ \A i \in DOMAIN queue'[p] \ DOMAIN queue[p] : queue'[p][i] \in Threads
      /\ \A q \in Procs \ {p} : queue'[q] = queue[q]
  BY <1>2, PushedQueue
<1>4. ASSUME NEW q \in Procs PROVE Watched(q)'
  <2>1. Watched(q)
    BY DEF WatchInv
  <2>2. CASE q # p
    BY <1>2, <1>3, <2>1, <2>2 DEF Watched, Pending
  <2>3. CASE q = p
    <3>1. \A part : Pending(p, part) => Pending(p, part)'
      BY <1>2, <1>3 DEF Pending
    <3>2. \A i \in DOMAIN queue'[p] :
            queue'[p][i] \notin Threads => i \in DOMAIN queue[p] /\ queue'[p][i] = queue[p][i]
      BY <1>3
    <3> QED BY <1>2, <2>1, <2>3, <3>1, <3>2 DEF Watched
  <2> QED BY <2>2, <2>3
<1> QED BY <1>4 DEF WatchInv

\* The event thread takes a marker, or an event that it finds the object for.
LEMMA WatchPop ==
  ASSUME RepositoryTypes, HandlingTypes, WatchInv, NEW p \in Procs, TakeMarker(p) \/ LookUp(p)
  PROVE  WatchInv'
<1>1. /\ queue[p] # <<>> /\ queue' = [queue EXCEPT ![p] = Tail(@)] /\ UNCHANGED <<watch, ready>>
      /\ handling[p] = NoEvent
  BY DEF TakeMarker, LookUp
<1>2. /\ \A i \in DOMAIN queue'[p] :
           i \in Nat /\ i + 1 \in DOMAIN queue[p] /\ queue'[p][i] = queue[p][i + 1]
      /\ \A i \in DOMAIN queue[p] :
           i = 1 \/ (i - 1 \in DOMAIN queue'[p] /\ queue'[p][i - 1] = queue[p][i])
      /\ \A q \in Procs \ {p} : queue'[q] = queue[q]
  BY <1>1, PoppedQueue
<1>3. 1 \in DOMAIN queue[p] /\ Head(queue[p]) = queue[p][1]
  BY <1>1, QueuePositions
<1>4. Watched(p) /\ \A q \in Procs : Watched(q)
  BY DEF WatchInv
<1>5. NoEvent.at # "found" /\ NoEvent.at = "none"
  BY DEF NoEvent
<1>6. \A q \in Procs \ {p} : handling'[q] = handling[q]
  BY DEF TakeMarker, LookUp, HandlingTypes
<1>7. \A i \in DOMAIN queue'[p] : i + 1 # 1
  <2>1. queue'[p] \in Seq(Event \cup Threads)
    BY <1>1, HeadTypes
  <2>2. PICK s \in Seq(Event \cup Threads) : s = queue'[p]
    BY <2>1
  <2>3. \A i \in DOMAIN s : i + 1 # 1
    OBVIOUS
  <2> QED BY <2>2, <2>3
<1>8. \A q \in Procs \ {p} : Watched(q)'
  BY <1>1, <1>2, <1>4, <1>6 DEF Watched, Pending
<1>9. ASSUME NEW i \in DOMAIN queue'[p], queue'[p][i] \notin Threads
      PROVE  /\ queue'[p][i].part \in ready'[p] \ watch'[p]
             /\ \A j \in DOMAIN queue'[p] :
                  queue'[p][j] \notin Threads /\ queue'[p][j].part = queue'[p][i].part => i = j
  <2>1. i \in Nat /\ i + 1 \in DOMAIN queue[p] /\ queue'[p][i] = queue[p][i + 1]
    BY <1>2
  <2>2. queue[p][i + 1].part \in ready[p] \ watch[p]
    BY <1>4, <1>9, <2>1 DEF Watched
  <2>3. ASSUME NEW j \in DOMAIN queue'[p], queue'[p][j] \notin Threads,
               queue'[p][j].part = queue'[p][i].part
        PROVE  i = j
    <3>1. j \in Nat /\ j + 1 \in DOMAIN queue[p] /\ queue'[p][j] = queue[p][j + 1]
      BY <1>2
    <3>2. i + 1 = j + 1
      BY <1>4, <1>9, <2>1, <2>3, <3>1 DEF Watched
    <3> QED BY <2>1, <3>1, <3>2
  <2> QED BY <1>1, <2>1, <2>2, <2>3
<1>10. CASE TakeMarker(p)
  <2>1. handling' = handling /\ queue[p][1] \in Threads
    BY <1>3, <1>10 DEF TakeMarker
  <2>2. \A part \in ready'[p] \ watch'[p] : Pending(p, part)'
    <3>1. SUFFICES ASSUME NEW part \in ready[p] \ watch[p] PROVE Pending(p, part)'
      BY <1>1
    <3>2. PICK i \in DOMAIN queue[p] : queue[p][i] \notin Threads /\ queue[p][i].part = part
      BY <1>1, <1>4, <1>5 DEF Watched, Pending
    <3>3. i - 1 \in DOMAIN queue'[p] /\ queue'[p][i - 1] = queue[p][i]
      BY <1>2, <2>1, <3>2
    <3> QED BY <3>2, <3>3 DEF Pending
  <2>3. Watched(p)'
    BY <1>1, <1>4, <1>5, <1>9, <2>1, <2>2 DEF Watched
  <2> QED BY <1>8, <2>3 DEF WatchInv
<1>11. CASE LookUp(p)
  <2>1. PICK e \in [part : Whole, kind : {"created", "changed", "deleted"}] : e = queue[p][1]
    BY <1>3, <1>11, HeadTypes DEF LookUp, Event
  <2>2. queue[p][1] \notin Threads
    BY <1>3, <1>11 DEF LookUp
  <2>3. PICK work : work = [part |-> e.part, kind |-> e.kind, object |-> cache[p], at |-> "found"]
    OBVIOUS
  <2>4. handling' = [handling EXCEPT ![p] = work]
    BY <1>3, <1>11, <2>1, <2>3 DEF LookUp
  <2>5. handling'[p].at = "found" /\ handling'[p].part = e.part
    BY <2>3, <2>4 DEF HandlingTypes
  <2>6. \A part \in ready'[p] \ watch'[p] : Pending(p, part)'
    <3>1. SUFFICES ASSUME NEW part \in ready[p] \ watch[p] PROVE Pending(p, part)'
      BY <1>1
    <3>2. PICK i \in DOMAIN queue[p] : queue[p][i] \notin Threads /\ queue[p][i].part = part
      BY <1>1, <1>4, <1>5 DEF Watched, Pending
    <3>3. CASE i = 1
      BY <2>1, <2>5, <3>2, <3>3 DEF Pending
    <3>4. CASE i # 1
      <4>1. i - 1 \in DOMAIN queue'[p] /\ queue'[p][i - 1] = queue[p][i]
        BY <1>2, <3>4
      <4> QED BY <3>2, <4>1 DEF Pending
    <3> QED BY <3>3, <3>4
  <2>7. e.part \in ready'[p] \ watch'[p]
    BY <1>1, <1>3, <1>4, <2>1, <2>2 DEF Watched
  <2>8. ASSUME NEW i \in DOMAIN queue'[p], queue'[p][i] \notin Threads
        PROVE  queue'[p][i].part # e.part
    <3>1. i + 1 \in DOMAIN queue[p] /\ queue'[p][i] = queue[p][i + 1] /\ i + 1 # 1
      BY <1>2, <1>7
    <3> QED BY <1>3, <1>4, <2>1, <2>2, <2>8, <3>1 DEF Watched
  <2>9. Watched(p)'
    BY <1>1, <1>4, <1>9, <2>5, <2>6, <2>7, <2>8 DEF Watched
  <2> QED BY <1>8, <2>9 DEF WatchInv
<1> QED BY <1>10, <1>11

LEMMA StepWatch ==
  ASSUME RepositoryTypes, ClientTypes, HandlingTypes, WatchInv, [Next]_vars
  PROVE  WatchInv'
<1>b. \A t \in Threads : ProcOf[t] \in Procs
  BY LifecycleAssumption
<1>1. CASE UNCHANGED <<nodes, watch, ready, queue, handling>>
  BY <1>1 DEF WatchInv, Watched, Pending
<1>2. ASSUME NEW t \in Threads, Load(t) PROVE WatchInv'
  <2>1. /\ SetWatch(ProcOf[t], Parts[call[t].part]) /\ UNCHANGED <<queue, handling>>
    BY <1>2 DEF Load
  <2>2. Parts[call[t].part] \in Whole
    BY DEF ClientTypes, Call, Parts, Whole
  <2> QED BY <1>b, <2>1, <2>2, WatchSet
<1>3. ASSUME NEW t \in Threads, Delete(t) \/ DeleteKey(t) \/ (Create(t) /\ Change(Made(t)))
      PROVE  WatchInv'
  <2>1. \E new \in SUBSET Whole : Change(new)
    BY <1>3, MadeTypes DEF Delete, DeleteKey, RepositoryTypes
  <2>2. UNCHANGED <<ready, handling>>
    BY <1>3 DEF Delete, DeleteKey, Create
  <2> QED BY <2>1, <2>2, ChangeTells, WatchChange
<1>10. ASSUME NEW t \in Threads, SetNodeData(t) /\ WriteState PROVE WatchInv'
  <2>1. UNCHANGED <<ready, handling>>
    BY <1>10 DEF SetNodeData
  <2> QED BY <1>10, <2>1, WrittenQueue, WatchChange
<1>4. ASSUME NEW p \in Procs, Unset(p) PROVE WatchInv'
  <2>1. /\ handling[p].at = "found" /\ UNCHANGED <<watch, queue>>
        /\ ready' = [ready EXCEPT ![p] = @ \ {handling[p].part}]
        /\ handling' = [handling EXCEPT ![p].at = "unset"]
    BY <1>4 DEF Unset, repository
  <2>2. /\ ready'[p] = ready[p] \ {handling[p].part}
        /\ \A q \in Procs \ {p} : ready'[q] = ready[q] /\ handling'[q] = handling[q]
    BY <2>1 DEF RepositoryTypes, HandlingTypes
  <2>3. handling'[p].at = "unset"
    BY <2>1 DEF HandlingTypes
  <2>4. Watched(p) /\ \A q \in Procs : Watched(q)
    BY DEF WatchInv
  <2>5. \A q \in Procs \ {p} : Watched(q)'
    BY <2>1, <2>2, <2>4 DEF Watched, Pending
  <2>6. \A part \in ready'[p] \ watch'[p] : Pending(p, part)'
    BY <2>1, <2>2, <2>4 DEF Watched, Pending
  <2>7. Watched(p)'
    BY <2>1, <2>2, <2>3, <2>4, <2>6 DEF Watched
  <2> QED BY <2>5, <2>7 DEF WatchInv
<1>5. NoEvent.at = "none"
  BY DEF NoEvent
<1>6. ASSUME NEW p \in Procs, handling[p].at = "unset", handling' = [handling EXCEPT ![p] = NoEvent],
             UNCHANGED <<watch, ready, queue>>
      PROVE  WatchInv'
  <2>1. handling'[p] = NoEvent /\ \A q \in Procs \ {p} : handling'[q] = handling[q]
    BY <1>6 DEF HandlingTypes
  <2>2. Watched(p) /\ \A q \in Procs : Watched(q)
    BY DEF WatchInv
  <2>3. \A q \in Procs \ {p} : Watched(q)'
    BY <1>6, <2>1, <2>2 DEF Watched, Pending
  <2>4. Watched(p)'
    BY <1>5, <1>6, <2>1, <2>2 DEF Watched, Pending
  <2> QED BY <2>3, <2>4 DEF WatchInv
<1>7. ASSUME NEW p \in Procs, RemoveFound(p) PROVE WatchInv'
  BY <1>6, <1>7 DEF RemoveFound, repository
<1>8. ASSUME NEW p \in Procs, Rearm(p) PROVE WatchInv'
  <2>1. /\ handling[p].at = "unset" /\ SetWatch(p, handling[p].part) /\ queue' = queue
        /\ handling' = [handling EXCEPT ![p] = NoEvent]
    BY <1>8 DEF Rearm
  <2>2. handling'[p] = NoEvent /\ \A q \in Procs \ {p} : handling'[q] = handling[q]
    BY <2>1 DEF HandlingTypes
  <2>3. PICK part \in Whole : part = handling[p].part
    BY DEF HandlingTypes
  <2>4. /\ ready'[p] = ready[p] \cup {part}
        /\ watch'[p] = IF part \in ready[p] THEN watch[p] ELSE watch[p] \cup {part}
        /\ \A q \in Procs \ {p} : ready'[q] = ready[q] /\ watch'[q] = watch[q]
    BY <2>1, <2>3 DEF SetWatch, RepositoryTypes
  <2>5. Watched(p) /\ \A q \in Procs : Watched(q)
    BY DEF WatchInv
  <2>6. \A q \in Procs \ {p} : Watched(q)'
    BY <2>1, <2>2, <2>4, <2>5 DEF Watched, Pending
  <2>7. CASE part \in ready[p]
    <3>1. ready'[p] = ready[p] /\ watch'[p] = watch[p]
      BY <2>4, <2>7
    <3>2. Watched(p)'
      BY <1>5, <2>1, <2>2, <2>5, <3>1 DEF Watched, Pending
    <3> QED BY <2>6, <3>2 DEF WatchInv
  <2>8. CASE part \notin ready[p]
    <3>1. ready'[p] = ready[p] \cup {part} /\ watch'[p] = watch[p] \cup {part}
      BY <2>4, <2>8
    <3>2. Watched(p)'
      BY <1>5, <2>1, <2>2, <2>5, <2>8, <3>1 DEF Watched, Pending
    <3> QED BY <2>6, <3>2 DEF WatchInv
  <2> QED BY <2>7, <2>8
<1>9. ASSUME NEW p \in Procs, Crash(p) PROVE WatchInv'
  <2>1. /\ watch' = [watch EXCEPT ![p] = {}] /\ ready' = [ready EXCEPT ![p] = {}]
        /\ queue' = [queue EXCEPT ![p] = <<>>] /\ handling' = [handling EXCEPT ![p] = NoEvent]
    BY <1>9 DEF Crash
  <2>2. /\ watch'[p] = {} /\ ready'[p] = {} /\ queue'[p] = <<>> /\ handling'[p] = NoEvent
        /\ \A q \in Procs \ {p} : /\ watch'[q] = watch[q] /\ ready'[q] = ready[q]
                                  /\ queue'[q] = queue[q] /\ handling'[q] = handling[q]
    BY <2>1 DEF RepositoryTypes, HandlingTypes
  <2>3. DOMAIN queue'[p] = {}
    BY <2>2
  <2>4. Watched(p)'
    BY <1>5, <2>2, <2>3 DEF Watched
  <2>5. \A q \in Procs \ {p} : Watched(q)'
    BY <2>2 DEF WatchInv, Watched, Pending
  <2> QED BY <2>4, <2>5 DEF WatchInv
<1> QED BY <1>1, <1>2, <1>3, <1>4, <1>7, <1>8, <1>9, <1>10, Kinds, WatchPush, WatchPop

-----------------------------------------------------------------------------
(* What a step of a thread leaves alone *)

LEMMA Only ==
  ASSUME ClientTypes, NEW t \in Threads,
         \/ \E create \in BOOLEAN : Get(t, create)
         \/ Publish(t) \/ Remove(t) \/ Step(t) \/ UserRelease(t)
         \/ \E type \in LockTypes : UserAcquire(t, type)
  PROVE  /\ OnlyOf(t)
         /\ lock'[t].count > 0 => lock[t].count > 0 \/ pc'[t] = "sync"
         /\ pc[t] # "await"
<1>a. lock \in LockRecords /\ pc \in [Threads -> PC] /\ call \in [Threads -> Call]
  BY DEF ClientTypes
<1>1. \/ pc' = pc \/ Return(t) \/ \E label : Goto(t, label)
  BY DEF Get, Publish, SetNodeData, Remove, NewCall, Step, GetLock, Load, Create, Insert,
         InitializeFails, Unlock, LockParent, LockSelf, Uncache, RemovedMeanwhile, Delete,
         DeleteKey, Release, CallThrows, QueueMarker, UserAcquire, UserRelease, AcquireNew,
         Reenter, ReenterFails
<1>2. \/ call' = call \/ Return(t) \/ \E label : call' = [call EXCEPT ![t].then = label]
      \/ \E create : call' = [call EXCEPT ![t] = [NoCall EXCEPT !.create = create]]
      \/ call' = [call EXCEPT ![t].part = 1, ![t].again = TRUE]
      \/ call' = [call EXCEPT ![t].part = 1]
      \/ call' = [call EXCEPT ![t].part = @ + 1]
  BY DEF Get, Publish, SetNodeData, Remove, NewCall, Step, GetLock, Load, Create, Insert,
         InitializeFails, Unlock, LockParent, LockSelf, Uncache, RemovedMeanwhile, Delete,
         DeleteKey, Release, CallThrows, QueueMarker, UserAcquire, UserRelease, AcquireNew,
         Reenter, ReenterFails
<1>3. \/ lock' = lock \/ lock' = Released(t)
      \/ lock[t].count > 0 /\ lock' = [lock EXCEPT ![t].count = @ + 1]
      \/ Goto(t, "sync") /\ \E type : lock' = [lock EXCEPT ![t] = [type |-> type, count |-> 1]]
  BY DEF Get, Publish, SetNodeData, Remove, Step, GetLock, Load, Create, Insert, InitializeFails,
         Unlock, LockParent, LockSelf, Uncache, RemovedMeanwhile, Delete, DeleteKey, Release,
         CallThrows, QueueMarker, UserAcquire, UserRelease, AcquireNew, Reenter, ReenterFails
<1>4. \A u \in Threads \ {t} : pc'[u] = pc[u]
  BY <1>a, <1>1, MovesOf, ReturnOf
<1>5. \A u \in Threads \ {t} : call'[u] = call[u]
  BY <1>a, <1>2, ReturnOf, SyncOf, PartOf, BeginOf
<1>6. /\ \A u \in Threads \ {t} : lock'[u] = lock[u]
      /\ lock'[t].count > 0 => lock[t].count > 0 \/ pc'[t] = "sync"
  <2>1. CASE lock' = lock \/ lock' = Released(t)
    BY <1>a, <2>1, ReleasedOf
  <2>2. CASE lock[t].count > 0 /\ lock' = [lock EXCEPT ![t].count = @ + 1]
    BY <1>a, <2>2, ReenterOf
  <2>3. CASE Goto(t, "sync") /\ \E type : lock' = [lock EXCEPT ![t] = [type |-> type, count |-> 1]]
    BY <1>a, <2>3, MovesOf DEF LockRecords
  <2> QED BY <1>3, <2>1, <2>2, <2>3
<1>7. pc[t] # "await"
  BY DEF Get, Publish, SetNodeData, Remove, NewCall, Step, GetLock, Load, Create, Insert,
         InitializeFails, Unlock, LockParent, LockSelf, Uncache, RemovedMeanwhile, Delete,
         DeleteKey, Release, CallThrows, QueueMarker, UserAcquire, UserRelease
<1> QED BY <1>4, <1>5, <1>6, <1>7 DEF OnlyOf

-----------------------------------------------------------------------------
(* Who holds the lock has heard of all deletions *)

Deleted(e) == e \notin Threads /\ e.kind = "deleted"

\* No deletion is on its way to p or being handled there.
NoDeletion(p) ==
  /\ handling[p].kind # "deleted"
  /\ \A i \in DOMAIN queue[p] : ~Deleted(queue[p][i])

Cleared(t) ==
  /\ pc[t] \notin {"sync", "await", "deleteKey", "release"} => NoDeletion(ProcOf[t])
  /\ pc[t] = "await" =>
       \A i, j \in DOMAIN queue[ProcOf[t]] :
         queue[ProcOf[t]][i] = t /\ i < j => ~Deleted(queue[ProcOf[t]][j])

\* A thread that ended a call with the lock, by a fault, may not have heard.
ClearInv ==
  \A t \in Threads :
    lock[t].count > 0 /\ (faults = 0 \/ Place(t) = "uncache") => Cleared(t)

LEMMA ClearOwn ==
  ASSUME ClearInv, NEW t \in Threads, OnlyOf(t), queue' = queue, handling' = handling,
         faults' = 0 => faults = 0,
         lock'[t].count > 0 => lock[t].count > 0 \/ pc'[t] = "sync",
         \/ pc'[t] \in {"sync", "deleteKey", "release"}
         \/ faults' # 0 /\ pc'[t] \notin {"sync", "await", "uncache"}
         \/ /\ pc[t] \notin {"sync", "await", "deleteKey", "release"}
            /\ pc'[t] \notin {"await", "uncache"}
  PROVE  ClearInv'
<1>1. ASSUME NEW u \in Threads \ {t}, lock'[u].count > 0, faults' = 0 \/ Place(u)' = "uncache"
      PROVE  Cleared(u)'
  <2>1. Place(u)' = Place(u) /\ pc'[u] = pc[u] /\ lock[u].count > 0
    BY <1>1 DEF OnlyOf, Place
  <2>2. Cleared(u)
    BY <1>1, <2>1 DEF ClearInv
  <2> QED BY <2>1, <2>2 DEF Cleared, NoDeletion
<1>2. ASSUME lock'[t].count > 0, faults' = 0 \/ Place(t)' = "uncache"
      PROVE  Cleared(t)'
  <2>1. CASE pc'[t] \in {"sync", "deleteKey", "release"}
    BY <2>1 DEF Cleared
  <2>2. CASE faults' # 0 /\ pc'[t] \notin {"sync", "await", "uncache"}
    BY <1>2, <2>2 DEF Place
  <2>3. CASE /\ pc[t] \notin {"sync", "await", "deleteKey", "release"}
             /\ pc'[t] \notin {"sync", "await", "uncache"}
    <3>1. faults = 0 /\ lock[t].count > 0
      BY <1>2, <2>3 DEF Place
    <3>2. NoDeletion(ProcOf[t])
      BY <2>3, <3>1 DEF ClearInv, Cleared
    <3> QED BY <2>3, <3>2 DEF Cleared, NoDeletion
  <2> QED BY <2>1, <2>2, <2>3
<1> QED BY <1>1, <1>2 DEF ClearInv

\* Events come that are no deletions, in a step of t: nobody has more to hear of.
LEMMA ClearTell ==
  ASSUME ClearInv, NEW t \in Threads, OnlyOf(t), handling' = handling, faults' = 0 => faults = 0,
         lock'[t].count > 0 => lock[t].count > 0,
         pc[t] \in {"create", "publish"}, pc'[t] \in {"create", "load", "idle"},
         \A p \in Procs :
           /\ \A i \in DOMAIN queue[p] : i \in DOMAIN queue'[p] /\ queue'[p][i] = queue[p][i]
           /\ \A i \in DOMAIN queue'[p] \ DOMAIN queue[p] :
                ~Deleted(queue'[p][i]) /\ queue'[p][i] \notin Threads
  PROVE  ClearInv'
<1>1. \A p \in Procs : NoDeletion(p) => NoDeletion(p)'
  BY DEF NoDeletion, Deleted
<1>2. \A u \in Threads : ProcOf[u] \in Procs
  BY LifecycleAssumption
<1>3. ASSUME NEW u \in Threads, pc'[u] = "await", pc[u] = "await", Cleared(u) PROVE Cleared(u)'
  <2>1. PICK p \in Procs : p = ProcOf[u]
    BY <1>2
  <2>2. ASSUME NEW i \in DOMAIN queue'[p], NEW j \in DOMAIN queue'[p], queue'[p][i] = u, i < j
        PROVE  ~Deleted(queue'[p][j])
    <3>1. i \in DOMAIN queue[p] /\ queue[p][i] = u
      BY <2>2
    <3>2. CASE j \in DOMAIN queue[p]
      BY <1>3, <2>1, <2>2, <3>1, <3>2 DEF Cleared, Deleted
    <3>3. CASE j \notin DOMAIN queue[p]
      BY <2>2, <3>3
    <3> QED BY <3>2, <3>3
  <2> QED BY <1>3, <2>1, <2>2 DEF Cleared, Deleted
<1>4. ASSUME NEW u \in Threads, lock'[u].count > 0, faults' = 0 \/ Place(u)' = "uncache"
      PROVE  Cleared(u)'
  <2>1. CASE u = t
    <3>1. faults = 0 /\ lock[t].count > 0
      BY <1>4, <2>1 DEF Place
    <3>2. NoDeletion(ProcOf[t])
      BY <3>1 DEF ClearInv, Cleared
    <3> QED BY <1>1, <1>2, <2>1, <3>2 DEF Cleared
  <2>2. CASE u # t
    <3>1. lock[u].count > 0 /\ pc'[u] = pc[u] /\ Place(u)' = Place(u)
      BY <1>4, <2>2 DEF OnlyOf, Place
    <3>2. Cleared(u)
      BY <1>4, <3>1 DEF ClearInv
    <3>3. CASE pc[u] = "await"
      BY <1>3, <3>1, <3>2, <3>3
    <3>4. CASE pc[u] # "await"
      BY <1>1, <1>2, <3>1, <3>2, <3>4 DEF Cleared
    <3> QED BY <3>3, <3>4
  <2> QED BY <2>1, <2>2
<1> QED BY <1>4 DEF ClearInv

\* The repository changes: who holds the lock, too, hears of no deletion by it.
LEMMA ClearChange ==
  ASSUME RepositoryTypes, ClearInv, NEW t \in Threads, OnlyOf(t), NEW new \in SUBSET Whole,
         Change(new), handling' = handling, faults' = 0 => faults = 0,
         lock'[t].count > 0 => lock[t].count > 0,
         \/ /\ nodes \subseteq new /\ pc[t] = "create" /\ pc'[t] \in {"create", "load"}
         \/ /\ \A u \in Threads \ {t} : lock[u].count > 0 => FALSE
            /\ pc'[t] \in {"deleteKey", "release"}
  PROVE  ClearInv'
<1>1. CASE nodes \subseteq new /\ pc[t] = "create" /\ pc'[t] \in {"create", "load"}
  <2>1. ASSUME NEW p \in Procs
        PROVE  /\ \A i \in DOMAIN queue[p] : i \in DOMAIN queue'[p] /\ queue'[p][i] = queue[p][i]
               /\ \A i \in DOMAIN queue'[p] \ DOMAIN queue[p] :
                    ~Deleted(queue'[p][i]) /\ queue'[p][i] \notin Threads
    <3>1. /\ \A i \in DOMAIN queue[p] : i \in DOMAIN queue'[p] /\ queue'[p][i] = queue[p][i]
          /\ \A i \in DOMAIN queue'[p] \ DOMAIN queue[p] : Told(queue'[p][i], p, new)
      BY ChangedQueue
    <3>2. \A e : Told(e, p, new) => ~Deleted(e) /\ e \notin Threads
      BY <1>1, ThreadsAreNoEvents DEF Told, Deleted
    <3> QED BY <3>1, <3>2
  <2> QED BY <1>1, <2>1, ClearTell
<1>2. CASE /\ \A u \in Threads \ {t} : lock[u].count > 0 => FALSE
           /\ pc'[t] \in {"deleteKey", "release"}
  <2>1. \A u \in Threads \ {t} : ~(lock'[u].count > 0)
    BY <1>2 DEF OnlyOf
  <2>2. Cleared(t)'
    BY <1>2 DEF Cleared
  <2> QED BY <2>1, <2>2 DEF ClearInv
<1> QED BY <1>1, <1>2

LEMMA ClearPush ==
  ASSUME RepositoryTypes, ClientTypes, MarkInv, ClearInv, NEW t \in Threads, QueueMarker(t)
  PROVE  ClearInv'
<1>1. PICK p \in Procs : p = ProcOf[t]
  BY LifecycleAssumption
<1>2. /\ queue' = [queue EXCEPT ![p] = Append(@, t)] /\ pc[t] = "sync" /\ Goto(t, "await")
      /\ UNCHANGED <<handling, lock, call, faults>>
  BY <1>1 DEF QueueMarker, counters
<1>3. /\ \A i \in DOMAIN queue[p] : i \in DOMAIN queue'[p] /\ queue'[p][i] = queue[p][i]
      /\ \A i \in DOMAIN queue'[p] \ DOMAIN queue[p] :
           queue'[p][i] = t /\ \A j \in DOMAIN queue'[p] : j = i \/ (j < i /\ j \in DOMAIN queue[p])
      /\ \A q \in Procs \ {p} : queue'[q] = queue[q]
  BY <1>2, PushedQueue
<1>4. pc'[t] = "await" /\ \A u \in Threads \ {t} : pc'[u] = pc[u]
  BY <1>2, MovesOf DEF ClientTypes
<1>5. \A i \in DOMAIN queue[p] : queue[p][i] # t
  BY <1>2 DEF MarkInv
<1>6. /\ queue[p] \in Seq(Event \cup Threads) /\ queue'[p] \in Seq(Event \cup Threads)
  <2>1. PICK s \in Seq(Event \cup Threads) : s = queue[p]
    BY DEF RepositoryTypes
  <2>2. Append(s, t) \in Seq(Event \cup Threads)
    OBVIOUS
  <2> QED BY <1>2, <2>1, <2>2 DEF RepositoryTypes
<1>7. \A i, j \in DOMAIN queue'[p] : i < j /\ j < i => FALSE
  <2>1. PICK s \in Seq(Event \cup Threads) : s = queue'[p]
    BY <1>6
  <2>2. \A i, j \in DOMAIN s : i < j /\ j < i => FALSE
    OBVIOUS
  <2> QED BY <2>1, <2>2
<1>8. \A i \in DOMAIN queue'[p] : i < i => FALSE
  BY <1>7
<1>9. \A q \in Procs : NoDeletion(q) => NoDeletion(q)'
  BY <1>2, <1>3 DEF NoDeletion, Deleted
<1>10. Cleared(t)'
  <2>1. ASSUME NEW i \in DOMAIN queue'[p], NEW j \in DOMAIN queue'[p], queue'[p][i] = t, i < j
        PROVE  FALSE
    <3>1. i \notin DOMAIN queue[p]
      BY <1>3, <1>5, <2>1
    <3> QED BY <1>3, <1>7, <1>8, <2>1, <3>1
  <2> QED BY <1>1, <1>4, <2>1 DEF Cleared
<1>11. ASSUME NEW u \in Threads \ {t}, Cleared(u) PROVE Cleared(u)'
  <2>1. PICK q \in Procs : q = ProcOf[u]
    BY LifecycleAssumption
  <2>2. ASSUME pc[u] = "await", NEW i \in DOMAIN queue'[q], NEW j \in DOMAIN queue'[q],
               queue'[q][i] = u, i < j
        PROVE  ~Deleted(queue'[q][j])
    <3>1. CASE q # p
      BY <1>3, <1>11, <2>1, <2>2, <3>1 DEF Cleared, Deleted
    <3>2. CASE q = p
      <4>1. i \in DOMAIN queue[p] /\ queue[p][i] = u
        BY <1>3, <1>11, <2>2, <3>2
      <4>2. CASE j \in DOMAIN queue[p]
        BY <1>3, <1>11, <2>1, <2>2, <3>2, <4>1, <4>2 DEF Cleared, Deleted
      <4>3. CASE j \notin DOMAIN queue[p]
        BY <1>3, <2>2, <3>2, <4>3 DEF Deleted
      <4> QED BY <4>2, <4>3
    <3> QED BY <3>1, <3>2
  <2> QED BY <1>4, <1>9, <1>11, <2>1, <2>2 DEF Cleared, Deleted
<1>12. \A u \in Threads \ {t} : Place(u)' = Place(u)
  BY <1>2, <1>4 DEF Place
<1> QED BY <1>2, <1>10, <1>11, <1>12 DEF ClearInv

LEMMA ClearPop ==
  ASSUME RepositoryTypes, ClientTypes, HandlingTypes, MarkInv, PlaceInv, ClearInv,
         NEW p \in Procs, TakeMarker(p) \/ LookUp(p)
  PROVE  ClearInv'
<1>1. /\ queue[p] # <<>> /\ queue' = [queue EXCEPT ![p] = Tail(@)]
      /\ handling[p] = NoEvent /\ UNCHANGED <<lock, faults>>
  BY DEF TakeMarker, LookUp, clients, counters
<1>2. /\ \A i \in DOMAIN queue'[p] :
           i \in Nat /\ i + 1 \in DOMAIN queue[p] /\ queue'[p][i] = queue[p][i + 1]
      /\ \A q \in Procs \ {p} : queue'[q] = queue[q]
  BY <1>1, PoppedQueue
<1>3. 1 \in DOMAIN queue[p] /\ Head(queue[p]) = queue[p][1]
  BY <1>1, QueuePositions
<1>4. NoEvent.kind # "deleted"
  BY DEF NoEvent
<1>5. \A q \in Procs \ {p} : handling'[q] = handling[q]
  BY DEF TakeMarker, LookUp, HandlingTypes
<1>6. \A u \in Threads : ProcOf[u] \in Procs
  BY LifecycleAssumption
<1>7. handling'[p].kind = "deleted" => Deleted(queue[p][1])
  <2>1. CASE TakeMarker(p)
    BY <1>1, <1>4, <2>1 DEF TakeMarker
  <2>2. CASE LookUp(p)
    <3>1. PICK work : work = [part |-> Head(queue[p]).part, kind |-> Head(queue[p]).kind,
                               object |-> cache[p], at |-> "found"]
      OBVIOUS
    <3>2. handling'[p] = work /\ work.kind = queue[p][1].kind
      BY <1>3, <2>2, <3>1 DEF LookUp, HandlingTypes
    <3> QED BY <1>3, <2>2, <3>2 DEF LookUp, Deleted
  <2> QED BY <2>1, <2>2
<1>8. \A q \in Procs : NoDeletion(q) => NoDeletion(q)'
  <2>1. \A q \in Procs \ {p} : NoDeletion(q) => NoDeletion(q)'
    BY <1>2, <1>5 DEF NoDeletion, Deleted
  <2>2. NoDeletion(p) => NoDeletion(p)'
    BY <1>2, <1>3, <1>7 DEF NoDeletion, Deleted
  <2> QED BY <2>1, <2>2
<1>9. \A i, j \in DOMAIN queue'[p] : i < j => i + 1 < j + 1
  BY <1>2
<1>10. ASSUME NEW u \in Threads, pc[u] = "await", Cleared(u),
              NEW i \in DOMAIN queue'[ProcOf[u]], NEW j \in DOMAIN queue'[ProcOf[u]],
              queue'[ProcOf[u]][i] = u, i < j
       PROVE  ~Deleted(queue'[ProcOf[u]][j])
  <2>1. CASE ProcOf[u] # p
    BY <1>2, <1>6, <1>10, <2>1 DEF Cleared, Deleted
  <2>2. CASE ProcOf[u] = p
    <3>1. /\ i + 1 \in DOMAIN queue[p] /\ queue'[p][i] = queue[p][i + 1]
          /\ j + 1 \in DOMAIN queue[p] /\ queue'[p][j] = queue[p][j + 1]
          /\ i + 1 < j + 1
      BY <1>2, <1>9, <1>10, <2>2
    <3> QED BY <1>10, <2>2, <3>1 DEF Cleared, Deleted
  <2> QED BY <2>1, <2>2
<1>11. ASSUME NEW u \in Threads, pc'[u] = pc[u], Cleared(u) PROVE Cleared(u)'
  BY <1>6, <1>8, <1>10, <1>11 DEF Cleared, Deleted
<1>12. CASE LookUp(p)
  <2>1. UNCHANGED <<pc, call>>
    BY <1>12 DEF LookUp, clients
  <2>2. \A u \in Threads : Place(u)' = Place(u)
    BY <2>1 DEF Place
  <2> QED BY <1>1, <1>11, <2>1, <2>2 DEF ClearInv
<1>13. CASE TakeMarker(p)
  <2>1. PICK t \in Threads : t = Head(queue[p])
    BY <1>13 DEF TakeMarker
  <2>2. /\ Goto(t, call[t].then) /\ call' = [call EXCEPT ![t].then = "idle"]
        /\ handling' = handling
    BY <1>13, <2>1 DEF TakeMarker
  <2>3. pc[t] = "await" /\ ProcOf[t] = p
    BY <1>1, <2>1, HeadIsMarker
  <2>4. pc'[t] = call[t].then /\ \A u \in Threads \ {t} : pc'[u] = pc[u]
    BY <2>2, MovesOf DEF ClientTypes
  <2>5. \A u \in Threads \ {t} : call'[u] = call[u]
    BY <2>2, SyncOf DEF ClientTypes
  <2>6. \A u \in Threads \ {t} : Place(u)' = Place(u)
    BY <2>4, <2>5 DEF Place
  <2>7. call[t].then \in {"idle", "load", "lockSelf", "uncache"}
    BY DEF PlaceInv, Placed
  <2>8. Cleared(t) => NoDeletion(p)'
    <3>1. SUFFICES ASSUME Cleared(t) PROVE NoDeletion(p)'
      OBVIOUS
    <3>2. \A j \in DOMAIN queue[p] : 1 < j => ~Deleted(queue[p][j])
      BY <1>3, <2>1, <2>3, <3>1 DEF Cleared
    <3>3. \A i \in DOMAIN queue'[p] : 1 < i + 1
      <4>1. queue'[p] \in Seq(Event \cup Threads)
        BY <1>1, HeadTypes
      <4>2. PICK s \in Seq(Event \cup Threads) : s = queue'[p]
        BY <4>1
      <4>3. \A i \in DOMAIN s : 1 < i + 1
        OBVIOUS
      <4> QED BY <4>2, <4>3
    <3>4. \A i \in DOMAIN queue'[p] : ~Deleted(queue'[p][i])
      BY <1>2, <3>2, <3>3
    <3> QED BY <1>1, <1>4, <2>2, <3>4 DEF NoDeletion, Deleted
  <2>9. ASSUME lock'[t].count > 0, faults' = 0 \/ Place(t)' = "uncache"
        PROVE  Cleared(t)'
    <3>1. Place(t)' = Place(t)
      BY <2>3, <2>4, <2>7 DEF Place
    <3>2. Cleared(t)
      BY <1>1, <2>9, <3>1 DEF ClearInv
    <3>3. pc'[t] # "await"
      BY <2>4, <2>7
    <3> QED BY <2>3, <2>8, <3>2, <3>3 DEF Cleared
  <2> QED BY <1>1, <1>11, <2>4, <2>6, <2>9 DEF ClearInv
<1> QED BY <1>12, <1>13

\* The event thread goes on with its event, or is done with it; or a process crashes.
LEMMA ClearLess ==
  ASSUME ClearInv,
         faults' = faults, NEW p \in Procs, handling'[p].kind # "deleted" \/ handling'[p].kind = handling[p].kind,
         \A q \in Procs \ {p} : handling'[q] = handling[q] /\ queue'[q] = queue[q],
         queue'[p] = queue[p] \/ DOMAIN queue'[p] = {},
         \A u \in Threads : \/ pc'[u] = pc[u] /\ call'[u] = call[u] /\ lock'[u] = lock[u]
                            \/ ~(lock'[u].count > 0)
  PROVE  ClearInv'
<1>1. \A u \in Threads : ProcOf[u] \in Procs
  BY LifecycleAssumption
<1>2. \A q \in Procs : NoDeletion(q) => NoDeletion(q)'
  BY DEF NoDeletion, Deleted
<1>3. ASSUME NEW u \in Threads, pc'[u] = pc[u], Cleared(u) PROVE Cleared(u)'
  <2>1. pc[u] = "await" =>
          \A i, j \in DOMAIN queue'[ProcOf[u]] :
            queue'[ProcOf[u]][i] = u /\ i < j => ~Deleted(queue'[ProcOf[u]][j])
    BY <1>1, <1>3 DEF Cleared, Deleted
  <2> QED BY <1>1, <1>2, <1>3, <2>1 DEF Cleared, Deleted
<1>4. ASSUME NEW u \in Threads, lock'[u].count > 0, faults' = 0 \/ Place(u)' = "uncache"
      PROVE  Cleared(u)'
  <2>1. pc'[u] = pc[u] /\ Place(u)' = Place(u) /\ lock'[u] = lock[u]
    BY <1>4 DEF Place
  <2>2. Cleared(u)
    BY <1>4, <2>1 DEF ClearInv
  <2> QED BY <1>3, <2>1, <2>2
<1> QED BY <1>4 DEF ClearInv

LEMMA StepClear ==
  ASSUME RepositoryTypes, ClientTypes, HandlingTypes, CounterTypes, MarkInv, PlaceInv, ClearInv,
         [Next]_vars
  PROVE  ClearInv'
<1>a. /\ lock \in LockRecords /\ pc \in [Threads -> PC] /\ call \in [Threads -> Call]
      /\ faults' = 0 => faults = 0
  BY StepCounters DEF ClientTypes
<1>b. NoEvent.kind # "deleted"
  BY DEF NoEvent
<1>1. CASE UNCHANGED vars
  BY <1>1 DEF vars, ClearInv, Cleared, NoDeletion, Deleted, Place
\* A step of t that has nothing to do with events
<1>2. ASSUME NEW t \in Threads,
             \/ \E create \in BOOLEAN : Get(t, create)
             \/ Publish(t) \/ Remove(t) \/ Step(t) \/ UserRelease(t)
             \/ \E type \in LockTypes : UserAcquire(t, type),
             queue' = queue, handling' = handling,
             \/ pc'[t] \in {"sync", "deleteKey", "release"}
             \/ faults' # 0 /\ pc'[t] \notin {"sync", "await", "uncache"}
             \/ /\ pc[t] \notin {"sync", "await", "deleteKey", "release"}
                /\ pc'[t] \notin {"await", "uncache"}
      PROVE  ClearInv'
  BY <1>a, <1>2, Only, ClearOwn
<1>3. ASSUME NEW t \in Threads,
             \/ \E create \in BOOLEAN : Get(t, create)
             \/ Publish(t) \/ Remove(t) \/ GetLock(t) \/ Load(t) \/ Insert(t)
             \/ InitializeFails(t) \/ Unlock(t)
             \/ LockParent(t) \/ LockSelf(t) \/ Uncache(t) \/ RemovedMeanwhile(t)
             \/ \E type \in LockTypes : UserAcquire(t, type)
             \/ UserRelease(t)
      PROVE  ClearInv'
  <2>1. queue' = queue /\ handling' = handling
    BY <1>3 DEF repository, Get, Publish, Remove, GetLock, Load, Insert, InitializeFails, Unlock,
                LockParent, LockSelf, Uncache, RemovedMeanwhile, UserAcquire, UserRelease
  <2>2. pc[t] \notin {"sync", "await", "deleteKey", "release"}
    BY <1>3 DEF Get, Publish, Remove, NewCall, GetLock, Load, Insert, InitializeFails, Unlock,
                LockParent, LockSelf, Uncache, RemovedMeanwhile, UserAcquire, UserRelease
  <2>3. \/ pc' = pc /\ pc[t] \in {"idle", "load"}
        \/ Return(t)
        \/ \E label \in {"idle", "lock", "sync", "load", "create", "insert", "unlock",
                         "publish", "lockParent", "lockSelf", "delete"} : Goto(t, label)
    BY <1>3 DEF Get, Publish, Remove, NewCall, GetLock, Load, Insert, InitializeFails, Unlock,
                LockParent, LockSelf, Uncache, RemovedMeanwhile, UserAcquire, UserRelease,
                AcquireNew, Reenter, ReenterFails
  <2>4. pc'[t] \notin {"await", "uncache"}
    BY <1>a, <2>3, MovesOf, ReturnOf
  <2> QED BY <1>2, <1>3, <2>1, <2>2, <2>4 DEF Step
<1>4. ASSUME NEW t \in Threads, Release(t) PROVE ClearInv'
  <2>1. queue' = queue /\ handling' = handling /\ Goto(t, "sync")
    BY <1>4 DEF Release, repository
  <2>2. pc'[t] = "sync"
    BY <1>a, <2>1, MovesOf
  <2> QED BY <1>2, <1>4, <2>1, <2>2 DEF Step
<1>5. ASSUME NEW t \in Threads, CallThrows(t) PROVE ClearInv'
  <2>1. queue' = queue /\ handling' = handling /\ Return(t) /\ faults' # 0
    BY <1>5, StepCounters DEF CallThrows, repository
  <2>2. pc'[t] = "idle"
    BY <1>a, <2>1, ReturnOf
  <2> QED BY <1>2, <1>5, <2>1, <2>2 DEF Step
<1>6. ASSUME NEW t \in Threads, Create(t) PROVE ClearInv'
  <2>1. pc[t] = "create" /\ handling' = handling /\ lock' = lock /\ (pc' = pc \/ Goto(t, "load"))
    BY <1>6 DEF Create
  <2>2. pc'[t] \in {"create", "load"}
    BY <1>a, <2>1, MovesOf
  <2>3. CASE queue' = queue
    BY <1>2, <1>6, <2>1, <2>2, <2>3 DEF Step
  <2>4. CASE Change(Made(t))
    <3>1. Made(t) \in SUBSET Whole /\ nodes \subseteq Made(t)
      BY MadeTypes
    <3>2. OnlyOf(t)
      BY <1>6, Only DEF Step
    <3> QED BY <1>a, <2>1, <2>2, <2>4, <3>1, <3>2, ClearChange
  <2> QED BY <1>6, <2>3, <2>4 DEF Create, Made
<1>10. ASSUME NEW t \in Threads, SetNodeData(t) PROVE ClearInv'
  <2>1. pc[t] = "publish" /\ handling' = handling /\ lock' = lock /\ Return(t)
    BY <1>10 DEF SetNodeData
  <2>2. pc'[t] = "idle"
    BY <1>a, <2>1, ReturnOf
  <2>3. CASE queue' = queue
    BY <1>2, <1>10, <2>1, <2>2, <2>3 DEF Step
  <2>4. CASE WriteState
    <3>1. OnlyOf(t)
      BY <1>10, Only DEF Step
    <3>2. \A p \in Procs :
            /\ \A i \in DOMAIN queue[p] : i \in DOMAIN queue'[p] /\ queue'[p][i] = queue[p][i]
            /\ \A i \in DOMAIN queue'[p] \ DOMAIN queue[p] :
                 ~Deleted(queue'[p][i]) /\ queue'[p][i] \notin Threads
      BY <2>4, WrittenQueue, ThreadsAreNoEvents DEF EventsCome, Deleted
    <3> QED BY <1>a, <2>1, <2>2, <3>1, <3>2, ClearTell
  <2> QED BY <1>10, <2>3, <2>4 DEF SetNodeData
<1>7. ASSUME NEW t \in Threads, Delete(t) \/ DeleteKey(t) PROVE ClearInv'
  <2>1. /\ pc[t] \in {"delete", "deleteKey"} /\ handling' = handling /\ lock' = lock
        /\ Goto(t, "deleteKey") \/ Goto(t, "release")
    BY <1>7 DEF Delete, DeleteKey
  <2>2. pc'[t] \in {"deleteKey", "release"}
    BY <1>a, <2>1, MovesOf
  <2>3. PICK new \in SUBSET Whole : Change(new)
    BY <1>7 DEF Delete, DeleteKey, RepositoryTypes
  <2>4. OnlyOf(t)
    BY <1>7, Only DEF Step
  <2>5. Place(t) \in Changing
    BY <2>1 DEF Place, Changing
  <2>6. \A u \in Threads \ {t} : lock[u].count > 0 => FALSE
    BY <2>5, Alone
  <2> QED BY <1>a, <2>1, <2>2, <2>3, <2>4, <2>6, ClearChange
<1>8. ASSUME NEW p \in Procs, Unset(p) \/ RemoveFound(p) \/ Rearm(p) PROVE ClearInv'
  <2>1. /\ queue' = queue /\ UNCHANGED <<lock, pc, call, faults>>
        /\ handling' = [handling EXCEPT ![p].at = "unset"] \/ handling' = [handling EXCEPT ![p] = NoEvent]
    BY <1>8 DEF Unset, RemoveFound, Rearm, repository, clients, counters
  <2>2. /\ handling'[p].kind # "deleted" \/ handling'[p].kind = handling[p].kind
        /\ \A q \in Procs \ {p} : handling'[q] = handling[q]
    BY <1>b, <2>1 DEF HandlingTypes
  <2> QED BY <2>1, <2>2, ClearLess
<1>9. ASSUME NEW p \in Procs, Crash(p) PROVE ClearInv'
  <2>1. /\ queue' = [queue EXCEPT ![p] = <<>>] /\ handling' = [handling EXCEPT ![p] = NoEvent]
        /\ faults' = faults
        /\ \A t \in Threads :
             \/ pc'[t] = pc[t] /\ call'[t] = call[t] /\ lock'[t] = lock[t]
             \/ lock'[t] = Free
    BY <1>9 DEF Crash
  <2>2. /\ queue'[p] = <<>> /\ handling'[p] = NoEvent
        /\ \A q \in Procs \ {p} : handling'[q] = handling[q] /\ queue'[q] = queue[q]
    BY <2>1 DEF RepositoryTypes, HandlingTypes
  <2>3. DOMAIN queue'[p] = {}
    BY <2>2
  <2>4. \A t \in Threads : lock'[t] = Free => ~(lock'[t].count > 0)
    BY DEF Free
  <2> QED BY <1>b, <2>1, <2>2, <2>3, <2>4, ClearLess
<1> QED BY <1>1, <1>3, <1>4, <1>5, <1>6, <1>7, <1>8, <1>9, <1>10, ClearPush, ClearPop
        DEF Next, Step, EventStep

-----------------------------------------------------------------------------
(* The event thread removes what is cached *)

HandlerInv ==
  \A p \in Procs :
    handling[p].kind = "deleted" /\ handling[p].object # Nothing =>
      cache[p] = handling[p].object

\* The steps that have to do with the cache
LEMMA MemoryKinds ==
  ASSUME [Next]_vars
  PROVE  \/ UNCHANGED <<objects, cache, handling>>
         \/ \E t \in Threads :
              \/ Uncache(t)
              \/ (Insert(t) \/ InitializeFails(t)) /\ cache[ProcOf[t]] = Nothing
         \/ \E p \in Procs : LookUp(p) \/ Unset(p) \/ RemoveFound(p) \/ Rearm(p) \/ Crash(p)
<1>1. CASE UNCHANGED vars
  BY <1>1 DEF vars
<1>2. ASSUME NEW t \in Threads,
             \/ \E create \in BOOLEAN : Get(t, create)
             \/ Publish(t) \/ SetNodeData(t) \/ Remove(t)
             \/ GetLock(t) \/ Load(t) \/ Create(t) \/ Unlock(t)
             \/ LockParent(t) \/ LockSelf(t) \/ RemovedMeanwhile(t)
             \/ Delete(t) \/ DeleteKey(t) \/ Release(t) \/ CallThrows(t) \/ QueueMarker(t)
             \/ \E type \in LockTypes : UserAcquire(t, type)
             \/ UserRelease(t)
      PROVE  UNCHANGED <<objects, cache, handling>>
  BY <1>2 DEF cached, Get, Publish, SetNodeData, Remove, GetLock, Load, Create, Unlock, LockParent,
              LockSelf, RemovedMeanwhile, Delete, DeleteKey, Release, CallThrows, QueueMarker,
              UserAcquire, UserRelease
<1>3. ASSUME NEW t \in Threads, Insert(t) \/ InitializeFails(t)
      PROVE  UNCHANGED <<objects, cache, handling>> \/ cache[ProcOf[t]] = Nothing
  BY <1>3 DEF Insert, InitializeFails, cached
<1>4. ASSUME NEW p \in Procs, TakeMarker(p) PROVE UNCHANGED <<objects, cache, handling>>
  BY <1>4 DEF TakeMarker, cached
<1> QED BY <1>1, <1>2, <1>3, <1>4 DEF Next, Step, EventStep

LEMMA StepHandler ==
  ASSUME ObjectInv, PlaceInv, ClearInv, HandlerInv, [Next]_vars
  PROVE  HandlerInv'
<1>a. HandlingTypes /\ cache \in [Procs -> Nat] /\ NoEvent.kind # "deleted"
  BY DEF ObjectInv, MemoryTypes, HandlingTypes, NoEvent
<1>b. \A t \in Threads : ProcOf[t] \in Procs
  BY LifecycleAssumption
<1>1. CASE UNCHANGED <<objects, cache, handling>>
  BY <1>1 DEF HandlerInv
<1>2. ASSUME NEW t \in Threads, Uncache(t) PROVE HandlerInv'
  <2>1. PICK p \in Procs : p = ProcOf[t]
    BY <1>b
  <2>2. cache' = [cache EXCEPT ![p] = Nothing] /\ handling' = handling /\ pc[t] = "uncache"
    BY <1>2, <2>1 DEF Uncache
  <2>3. Place(t) = "uncache" /\ lock[t].count > 0
    BY <2>2 DEF Place, PlaceInv, Placed
  <2>4. NoDeletion(p)
    BY <2>1, <2>2, <2>3 DEF ClearInv, Cleared
  <2> QED BY <1>a, <2>2, <2>4 DEF HandlerInv, NoDeletion
<1>3. ASSUME NEW t \in Threads, Insert(t) \/ InitializeFails(t), cache[ProcOf[t]] = Nothing
      PROVE  HandlerInv'
  <2>1. PICK p \in Procs : p = ProcOf[t]
    BY <1>b
  <2>2. cache' = [cache EXCEPT ![p] = Len(objects[p]) + 1] /\ handling' = handling
    BY <1>3, <2>1 DEF Insert, InitializeFails
  <2>3. \A q \in Procs \ {p} : cache'[q] = cache[q]
    BY <1>a, <2>2
  <2> QED BY <1>3, <2>1, <2>2, <2>3 DEF HandlerInv
<1>4. ASSUME NEW p \in Procs, LookUp(p) PROVE HandlerInv'
  <2>1. PICK work : work = [part |-> Head(queue[p]).part, kind |-> Head(queue[p]).kind,
                             object |-> cache[p], at |-> "found"]
    OBVIOUS
  <2>2. handling' = [handling EXCEPT ![p] = work] /\ work.object = cache[p] /\ cache' = cache
    BY <1>4, <2>1 DEF LookUp, cached
  <2>3. handling'[p] = work /\ \A q \in Procs \ {p} : handling'[q] = handling[q]
    BY <1>a, <2>2 DEF HandlingTypes
  <2> QED BY <2>2, <2>3 DEF HandlerInv
<1>5. ASSUME NEW p \in Procs, Unset(p) PROVE HandlerInv'
  <2>1. handling' = [handling EXCEPT ![p].at = "unset"] /\ cache' = cache
    BY <1>5 DEF Unset, cached
  <2>2. /\ handling'[p].kind = handling[p].kind /\ handling'[p].object = handling[p].object
        /\ \A q \in Procs \ {p} : handling'[q] = handling[q]
    BY <1>a, <2>1 DEF HandlingTypes
  <2> QED BY <2>1, <2>2 DEF HandlerInv
<1>6. ASSUME NEW p \in Procs, RemoveFound(p) \/ Rearm(p) \/ Crash(p) PROVE HandlerInv'
  <2>1. /\ handling' = [handling EXCEPT ![p] = NoEvent]
        /\ cache' = cache \/ cache' = [cache EXCEPT ![p] = Nothing]
    BY <1>6 DEF RemoveFound, Rearm, Crash, cached
  <2>2. /\ handling'[p] = NoEvent
        /\ \A q \in Procs \ {p} : handling'[q] = handling[q] /\ cache'[q] = cache[q]
    BY <1>a, <2>1 DEF HandlingTypes
  <2> QED BY <1>a, <2>2 DEF HandlerInv
<1> QED BY <1>1, <1>2, <1>3, <1>4, <1>5, <1>6, MemoryKinds

-----------------------------------------------------------------------------
(* Deletions and the objects they are for *)

\* Only who deletes sends deletions.
LEMMA Heard ==
  ASSUME RepositoryTypes, ClientTypes, HandlingTypes, [Next]_vars
  PROVE  \/ \E t \in Threads : Delete(t) \/ DeleteKey(t)
         \/ \A p \in Procs : NoDeletion(p) => NoDeletion(p)'
<1>a. NoEvent.kind # "deleted"
  BY DEF NoEvent
<1>1. CASE UNCHANGED <<nodes, watch, ready, queue, handling>>
  BY <1>1 DEF NoDeletion, Deleted
<1>2. ASSUME NEW t \in Threads, Load(t), NEW p \in Procs, NoDeletion(p) PROVE NoDeletion(p)'
  BY <1>2 DEF Load, NoDeletion, Deleted
<1>3. ASSUME NEW t \in Threads, Create(t), Change(Made(t)), NEW p \in Procs, NoDeletion(p)
      PROVE  NoDeletion(p)'
  <2>1. Made(t) \in SUBSET Whole /\ nodes \subseteq Made(t) /\ handling' = handling
    BY <1>3, MadeTypes DEF Create
  <2>2. /\ \A i \in DOMAIN queue[p] : queue'[p][i] = queue[p][i]
        /\ \A i \in DOMAIN queue'[p] \ DOMAIN queue[p] : Told(queue'[p][i], p, Made(t))
    BY <1>3, <2>1, ChangedQueue
  <2>3. \A i \in DOMAIN queue'[p] \ DOMAIN queue[p] : ~Deleted(queue'[p][i])
    BY <2>1, <2>2 DEF Told, Deleted
  <2> QED BY <1>3, <2>1, <2>2, <2>3 DEF NoDeletion, Deleted
<1>8. ASSUME NEW t \in Threads, SetNodeData(t), WriteState, NEW p \in Procs, NoDeletion(p)
      PROVE  NoDeletion(p)'
  <2>1. handling' = handling
    BY <1>8 DEF SetNodeData
  <2>2. /\ \A i \in DOMAIN queue[p] : queue'[p][i] = queue[p][i]
        /\ \A i \in DOMAIN queue'[p] \ DOMAIN queue[p] : ~Deleted(queue'[p][i])
    BY <1>8, WrittenQueue DEF EventsCome, Deleted
  <2> QED BY <1>8, <2>1, <2>2 DEF NoDeletion, Deleted
<1>4. ASSUME NEW t \in Threads, QueueMarker(t), NEW p \in Procs, NoDeletion(p) PROVE NoDeletion(p)'
  <2>1. PICK q \in Procs : q = ProcOf[t]
    BY LifecycleAssumption
  <2>2. queue' = [queue EXCEPT ![q] = Append(@, t)] /\ handling' = handling
    BY <1>4, <2>1 DEF QueueMarker
  <2>3. /\ \A i \in DOMAIN queue[q] : queue'[q][i] = queue[q][i]
        /\ \A i \in DOMAIN queue'[q] \ DOMAIN queue[q] : queue'[q][i] = t
        /\ \A r \in Procs \ {q} : queue'[r] = queue[r]
    BY <2>2, PushedQueue
  <2> QED BY <1>4, <2>2, <2>3 DEF NoDeletion, Deleted
<1>5. ASSUME NEW p \in Procs, TakeMarker(p) \/ LookUp(p), NEW q \in Procs, NoDeletion(q)
      PROVE  NoDeletion(q)'
  <2>1. queue[p] # <<>> /\ queue' = [queue EXCEPT ![p] = Tail(@)]
    BY <1>5 DEF TakeMarker, LookUp
  <2>2. /\ \A i \in DOMAIN queue'[p] : i + 1 \in DOMAIN queue[p] /\ queue'[p][i] = queue[p][i + 1]
        /\ \A r \in Procs \ {p} : queue'[r] = queue[r]
    BY <2>1, PoppedQueue
  <2>3. 1 \in DOMAIN queue[p] /\ Head(queue[p]) = queue[p][1]
    BY <2>1, QueuePositions
  <2>4. CASE TakeMarker(p)
    <3>1. handling' = handling
      BY <2>4 DEF TakeMarker
    <3> QED BY <1>5, <2>2, <3>1 DEF NoDeletion, Deleted
  <2>5. CASE LookUp(p)
    <3>1. PICK work : work = [part |-> Head(queue[p]).part, kind |-> Head(queue[p]).kind,
                               object |-> cache[p], at |-> "found"]
      OBVIOUS
    <3>2. /\ handling'[p] = work /\ work.kind = queue[p][1].kind
          /\ \A r \in Procs \ {p} : handling'[r] = handling[r]
      BY <2>3, <2>5, <3>1 DEF LookUp, HandlingTypes
    <3>3. queue[p][1] \notin Threads
      BY <2>3, <2>5 DEF LookUp
    <3> QED BY <1>5, <2>2, <2>3, <3>2, <3>3 DEF NoDeletion, Deleted
  <2> QED BY <1>5, <2>4, <2>5
<1>6. ASSUME NEW p \in Procs, Unset(p) \/ RemoveFound(p) \/ Rearm(p), NEW q \in Procs, NoDeletion(q)
      PROVE  NoDeletion(q)'
  <2>1. /\ queue' = queue
        /\ handling' = [handling EXCEPT ![p].at = "unset"] \/ handling' = [handling EXCEPT ![p] = NoEvent]
    BY <1>6 DEF Unset, RemoveFound, Rearm, repository
  <2>2. handling'[q].kind # "deleted"
    BY <1>a, <1>6, <2>1 DEF HandlingTypes, NoDeletion
  <2> QED BY <1>6, <2>1, <2>2 DEF NoDeletion, Deleted
<1>7. ASSUME NEW p \in Procs, Crash(p), NEW q \in Procs, NoDeletion(q) PROVE NoDeletion(q)'
  <2>1. queue' = [queue EXCEPT ![p] = <<>>] /\ handling' = [handling EXCEPT ![p] = NoEvent]
    BY <1>7 DEF Crash
  <2>2. queue'[q] = queue[q] \/ DOMAIN queue'[q] = {}
    BY <2>1 DEF RepositoryTypes
  <2>3. handling'[q].kind # "deleted"
    BY <1>a, <1>7, <2>1 DEF HandlingTypes, NoDeletion
  <2> QED BY <1>7, <2>2, <2>3 DEF NoDeletion, Deleted
<1> QED BY <1>1, <1>2, <1>3, <1>4, <1>5, <1>6, <1>7, <1>8, Kinds

\* Deleting ends where it does, and nobody else starts to.
LEMMA Deleters ==
  ASSUME RepositoryTypes, ClientTypes, ObjectInv, CounterTypes, MarkInv, PlaceInv, [Next]_vars
  PROVE  \/ \E t \in Threads : Delete(t)
         \/ \E p \in Procs : Crash(p)
         \/ /\ \A u \in Threads : pc'[u] = "deleteKey" => pc[u] = "deleteKey"
            /\ faults' = 0 => \A u \in Threads :
                                pc[u] = "delete" => pc'[u] = "delete" /\ handle'[u] = handle[u]
            /\ age' = age
<1>a. /\ lock \in LockRecords /\ pc \in [Threads -> PC] /\ call \in [Threads -> Call]
      /\ handle \in [Threads -> Nat]
  BY DEF ClientTypes, ObjectInv, MemoryTypes
<1> DEFINE Goal == /\ \A u \in Threads : pc'[u] = "deleteKey" => pc[u] = "deleteKey"
                   /\ faults' = 0 => \A u \in Threads :
                                       pc[u] = "delete" => pc'[u] = "delete" /\ handle'[u] = handle[u]
                   /\ age' = age
<1>1. ASSUME UNCHANGED <<pc, handle, age>> PROVE Goal
  BY <1>1
<1>2. ASSUME NEW t \in Threads,
             \/ \E create \in BOOLEAN : Get(t, create)
             \/ Publish(t) \/ SetNodeData(t) \/ Remove(t)
             \/ GetLock(t) \/ Load(t) \/ Create(t) \/ Insert(t) \/ InitializeFails(t)
             \/ Unlock(t) \/ LockParent(t) \/ LockSelf(t) \/ Uncache(t) \/ RemovedMeanwhile(t)
             \/ DeleteKey(t) \/ Release(t) \/ CallThrows(t) \/ QueueMarker(t)
             \/ \E type \in LockTypes : UserAcquire(t, type)
             \/ UserRelease(t)
      PROVE  Goal
  <2>1. \A u \in Threads \ {t} : pc'[u] = pc[u]
    BY <1>2, Only DEF OnlyOf, Step
  <2>2. handle' = handle \/ \E new : handle' = [handle EXCEPT ![t] = new]
    BY <1>2 DEF Get, Publish, SetNodeData, Remove, GetLock, Load, Create, Insert, InitializeFails,
                Unlock, LockParent, LockSelf, Uncache, RemovedMeanwhile, DeleteKey, Release,
                CallThrows, QueueMarker, UserAcquire, UserRelease
  <2>3. \/ pc' = pc \/ Return(t)
        \/ \E label \in {"idle", "lock", "sync", "await", "load", "create", "insert", "unlock",
                         "publish", "lockParent", "lockSelf", "delete", "release"} : Goto(t, label)
    BY <1>2 DEF Get, Publish, SetNodeData, Remove, NewCall, GetLock, Load, Create, Insert,
                InitializeFails, Unlock, LockParent, LockSelf, Uncache, RemovedMeanwhile, DeleteKey,
                Release, CallThrows, QueueMarker, UserAcquire, UserRelease, AcquireNew, Reenter,
                ReenterFails
  <2>4. pc'[t] = "deleteKey" => pc[t] = "deleteKey"
    BY <1>a, <2>3, MovesOf, ReturnOf
  <2>5. pc[t] = "delete" => CallThrows(t)
    BY <1>2 DEF Get, Publish, SetNodeData, Remove, NewCall, GetLock, Load, Create, Insert,
                InitializeFails, Unlock, LockParent, LockSelf, Uncache, RemovedMeanwhile, DeleteKey,
                Release, QueueMarker, UserAcquire, UserRelease
  <2>6. faults' = 0 => ~CallThrows(t)
    BY StepCounters
  <2>7. age' = age
    BY <1>2 DEF repository, Get, Publish, SetNodeData, Remove, GetLock, Load, Create, Insert,
                InitializeFails, Unlock, LockParent, LockSelf, Uncache, RemovedMeanwhile, DeleteKey,
                Release, CallThrows, QueueMarker, UserAcquire, UserRelease
  <2> QED BY <1>a, <2>1, <2>2, <2>4, <2>5, <2>6, <2>7
<1>3. ASSUME NEW p \in Procs, TakeMarker(p) PROVE Goal
  <2>1. PICK t \in Threads : t = Head(queue[p])
    BY <1>3 DEF TakeMarker
  <2>2. Goto(t, call[t].then) /\ handle' = handle /\ age' = age /\ pc[t] = "await"
    BY <1>3, <2>1, HeadIsMarker DEF TakeMarker
  <2>3. pc'[t] = call[t].then /\ \A u \in Threads \ {t} : pc'[u] = pc[u]
    BY <1>a, <2>2, MovesOf
  <2>4. call[t].then \in {"idle", "load", "lockSelf", "uncache"}
    BY DEF PlaceInv, Placed
  <2> QED BY <2>2, <2>3, <2>4
<1>4. ASSUME NEW p \in Procs, LookUp(p) \/ Unset(p) \/ RemoveFound(p) \/ Rearm(p) PROVE Goal
  <2>1. UNCHANGED <<pc, handle, age>>
    BY <1>4 DEF LookUp, Unset, RemoveFound, Rearm, clients, repository
  <2> QED BY <1>1, <2>1
<1> QED BY <1>1, <1>2, <1>3, <1>4 DEF Next, Step, EventStep, vars

\* The objects that a process has, after it loaded one or one became REMOVED
LEMMA AppendedObject ==
  ASSUME ObjectInv, NEW p \in Procs, NEW born \in Nat,
         objects' = [objects EXCEPT ![p] = Append(@, [state |-> "READY", born |-> born])]
  PROVE  /\ \A i \in DOMAIN objects[p] : i \in DOMAIN objects'[p] /\ objects'[p][i] = objects[p][i]
         /\ \A i \in DOMAIN objects'[p] \ DOMAIN objects[p] :
              objects'[p][i].born = born /\ objects'[p][i].state = "READY"
         /\ \A q \in Procs \ {p} : objects'[q] = objects[q]
<1>1. PICK s \in Seq(Object) : s = objects[p]
  BY DEF ObjectInv, ObjectTypes
<1>2. PICK new \in Object : new = [state |-> "READY", born |-> born]
  BY DEF Object
<1>3. /\ \A i \in DOMAIN s : i \in DOMAIN Append(s, new) /\ Append(s, new)[i] = s[i]
      /\ \A i \in DOMAIN Append(s, new) \ DOMAIN s : Append(s, new)[i] = new
  OBVIOUS
<1>4. objects'[p] = Append(s, new) /\ \A q \in Procs \ {p} : objects'[q] = objects[q]
  BY <1>1, <1>2 DEF ObjectInv, ObjectTypes
<1>5. new.born = born /\ new.state = "READY"
  BY <1>2
<1> QED BY <1>1, <1>3, <1>4, <1>5

LEMMA SetObject ==
  ASSUME ObjectInv, NEW p \in Procs, NEW object \in DOMAIN objects[p],
         objects' = Set(p, object, "REMOVED")
  PROVE  /\ DOMAIN objects'[p] = DOMAIN objects[p]
         /\ \A i \in DOMAIN objects[p] :
              /\ objects'[p][i].born = objects[p][i].born
              /\ i # object => objects'[p][i] = objects[p][i]
         /\ \A q \in Procs \ {p} : objects'[q] = objects[q]
<1>1. PICK s \in Seq(Object) : s = objects[p]
  BY DEF ObjectInv, ObjectTypes
<1>2. PICK old \in [state : {"READY", "REMOVED"}, born : Nat] : old = s[object]
  <2>1. s[object] \in Object
    BY <1>1
  <2> QED BY <2>1 DEF Object
<1>3. PICK new : new = [old EXCEPT !.state = "REMOVED"]
  OBVIOUS
<1>4. new.born = old.born
  BY <1>2, <1>3
<1>5. objects' = [objects EXCEPT ![p] = [s EXCEPT ![object] = new]]
  BY <1>1, <1>2, <1>3 DEF Set
<1>6. /\ objects'[p] = [s EXCEPT ![object] = new]
      /\ \A q \in Procs \ {p} : objects'[q] = objects[q]
  BY <1>5 DEF ObjectInv, ObjectTypes
<1>7. /\ DOMAIN [s EXCEPT ![object] = new] = DOMAIN s
      /\ [s EXCEPT ![object] = new][object] = new
      /\ \A i \in DOMAIN s : i # object => [s EXCEPT ![object] = new][i] = s[i]
  BY <1>1
<1> QED BY <1>1, <1>2, <1>4, <1>6, <1>7

BornInv == \A p \in Procs : \A i \in DOMAIN objects[p] : objects[p][i].born <= age

\* Where a deletion is to come, the cached object is of a Notifyable it is about.
Doomed(p) ==
  cache[p] # Nothing /\ (~NoDeletion(p) \/ \E t \in Threads : pc[t] = "deleteKey") =>
    objects[p][cache[p]].born < age

InTime(p) ==
  \A i \in DOMAIN objects[p] :
    objects[p][i].state = "REMOVED" =>
      \/ objects[p][i].born < age
      \/ \E t \in Threads : ProcOf[t] = p /\ handle[t] = i /\ pc[t] = "delete"

TimeInv == BornInv /\ (faults = 0 => \A p \in Procs : Doomed(p) /\ InTime(p))

LEMMA Ages ==
  ASSUME RepositoryTypes, ObjectInv
  PROVE  /\ age \in Nat /\ age <= age
         /\ \A p \in Procs : \A i \in DOMAIN objects[p] : objects[p][i].born \in Nat
         /\ \A n \in Nat : n <= age => n < age + 1 /\ n <= age + 1
<1>1. age \in Nat
  BY DEF RepositoryTypes
<1>2. ASSUME NEW p \in Procs, NEW i \in DOMAIN objects[p] PROVE objects[p][i].born \in Nat
  <2>1. PICK s \in Seq(Object) : s = objects[p]
    BY DEF ObjectInv, ObjectTypes
  <2>2. s[i] \in Object
    BY <2>1
  <2> QED BY <2>1, <2>2 DEF Object
<1> QED BY <1>1, <1>2

LEMMA StepBorn ==
  ASSUME RepositoryTypes, ObjectInv, RemoverHasIt, BornInv, [Next]_vars
  PROVE  BornInv'
<1>a. age' = age \/ age' = age + 1
  BY ZenonT(60)
     DEF Next, Step, EventStep, vars, repository, Get, Publish, SetNodeData, Remove, GetLock,
         Load, Create, Insert, InitializeFails, Unlock, LockParent, LockSelf, Uncache,
         RemovedMeanwhile, Delete, DeleteKey, Release, CallThrows, QueueMarker, UserAcquire,
         UserRelease, TakeMarker, LookUp, Unset, RemoveFound, Rearm, Crash
<1>b. \A p \in Procs : \A i \in DOMAIN objects[p] : objects[p][i].born <= age'
  BY <1>a, Ages DEF BornInv
<1>c. \A t \in Threads : ProcOf[t] \in Procs
  BY LifecycleAssumption
<1>1. CASE UNCHANGED <<objects, cache, handling>>
  BY <1>1, <1>b DEF BornInv
<1>2. ASSUME NEW t \in Threads, Insert(t) \/ InitializeFails(t), cache[ProcOf[t]] = Nothing
      PROVE  BornInv'
  <2>1. PICK p \in Procs : p = ProcOf[t]
    BY <1>c
  <2>2. /\ objects' = [objects EXCEPT ![p] = Append(@, [state |-> "READY", born |-> age])]
        /\ age' = age
    BY <1>2, <2>1 DEF Insert, InitializeFails, repository
  <2>3. /\ \A i \in DOMAIN objects[p] : i \in DOMAIN objects'[p] /\ objects'[p][i] = objects[p][i]
        /\ \A i \in DOMAIN objects'[p] \ DOMAIN objects[p] : objects'[p][i].born = age
        /\ \A q \in Procs \ {p} : objects'[q] = objects[q]
    BY <2>2, AppendedObject, Ages
  <2>4. \A i \in DOMAIN objects'[p] : objects'[p][i].born <= age'
    BY <1>b, <2>2, <2>3, Ages
  <2> QED BY <1>b, <2>3, <2>4 DEF BornInv
<1>3. ASSUME NEW p \in Procs, NEW object \in DOMAIN objects[p], objects' = Set(p, object, "REMOVED")
      PROVE  BornInv'
  <2>1. /\ DOMAIN objects'[p] = DOMAIN objects[p]
        /\ \A i \in DOMAIN objects[p] : objects'[p][i].born = objects[p][i].born
        /\ \A q \in Procs \ {p} : objects'[q] = objects[q]
    BY <1>3, SetObject
  <2> QED BY <1>b, <2>1 DEF BornInv
<1>4. ASSUME NEW t \in Threads, Uncache(t) PROVE BornInv'
  <2>1. PICK p \in Procs : p = ProcOf[t]
    BY <1>c
  <2>2. objects' = Set(p, handle[t], "REMOVED") /\ handle[t] \in DOMAIN objects[p]
    BY <1>4, <2>1 DEF Uncache, ObjectInv, ObjectTypes, RemoverHasIt
  <2> QED BY <1>3, <2>2
<1>5. ASSUME NEW p \in Procs, RemoveFound(p) PROVE BornInv'
  <2>1. PICK object \in {Nothing} \cup DOMAIN objects[p] : object = handling[p].object
    BY DEF ObjectInv, MemoryTypes
  <2>2. objects' = objects \/ (object # Nothing /\ objects' = Set(p, object, "REMOVED"))
    BY <1>5, <2>1 DEF RemoveFound, cached
  <2>3. CASE objects' = objects
    BY <1>b, <2>3 DEF BornInv
  <2> QED BY <1>3, <2>1, <2>2, <2>3
<1>6. ASSUME NEW p \in Procs, LookUp(p) \/ Unset(p) \/ Rearm(p) PROVE BornInv'
  <2>1. objects' = objects
    BY <1>6 DEF LookUp, Unset, Rearm, cached
  <2> QED BY <1>b, <2>1 DEF BornInv
<1>7. ASSUME NEW p \in Procs, Crash(p) PROVE BornInv'
  <2>1. objects' = [objects EXCEPT ![p] = <<>>]
    BY <1>7 DEF Crash
  <2>2. \A q \in Procs : objects'[q] = objects[q] \/ DOMAIN objects'[q] = {}
    BY <2>1 DEF ObjectInv, ObjectTypes
  <2> QED BY <1>b, <2>2 DEF BornInv
<1> QED BY <1>1, <1>2, <1>4, <1>5, <1>6, <1>7, MemoryKinds

LEMMA StepTime ==
  ASSUME RepositoryTypes, ClientTypes, ObjectInv, RemoverHasIt, CounterTypes, MarkInv, PlaceInv,
         ClearInv, HandlerInv, TimeInv, [Next]_vars
  PROVE  TimeInv'
<1>a. SUFFICES ASSUME faults' = 0 PROVE \A p \in Procs : Doomed(p)' /\ InTime(p)'
  BY StepBorn DEF TimeInv
<1>b. /\ faults = 0 /\ BornInv /\ \A p \in Procs : Doomed(p) /\ InTime(p)
      /\ \A t \in Threads : ~InitializeFails(t)
  BY <1>a, StepCounters DEF TimeInv
<1>c. \A t \in Threads : ProcOf[t] \in Procs
  BY LifecycleAssumption
<1>d. HandlingTypes /\ cache \in [Procs -> Nat] /\ handle \in [Threads -> Nat]
  BY DEF ObjectInv, MemoryTypes, HandlingTypes
<1>e. \A p \in Procs : cache[p] \in {Nothing} \cup DOMAIN objects[p]
  BY DEF ObjectInv, ObjectTypes
\* A removal begins: every object is of an earlier Notifyable.
<1>1. ASSUME NEW t \in Threads, Delete(t), NEW p \in Procs PROVE Doomed(p)' /\ InTime(p)'
  <2>1. age' = age + 1 /\ UNCHANGED <<objects, cache>>
    BY <1>1 DEF Delete, cached
  <2>2. \A i \in DOMAIN objects[p] : objects[p][i].born < age'
    BY <1>b, <2>1, Ages DEF BornInv
  <2> QED BY <1>e, <2>1, <2>2 DEF Doomed, InTime
<1>2. ASSUME NEW c \in Procs, Crash(c), NEW p \in Procs PROVE Doomed(p)' /\ InTime(p)'
  <2>1. /\ objects' = [objects EXCEPT ![c] = <<>>] /\ cache' = [cache EXCEPT ![c] = Nothing]
        /\ age' = age
        /\ \A t \in Threads :
             \/ ProcOf[t] # c /\ pc'[t] = pc[t] /\ handle'[t] = handle[t]
             \/ ProcOf[t] = c /\ pc'[t] = "idle"
    BY <1>2 DEF Crash
  <2>2. CASE p = c
    <3>1. DOMAIN objects'[p] = {} /\ cache'[p] = Nothing
      BY <1>d, <2>1, <2>2 DEF ObjectInv, ObjectTypes
    <3> QED BY <3>1 DEF Doomed, InTime
  <2>3. CASE p # c
    <3>1. objects'[p] = objects[p] /\ cache'[p] = cache[p]
      BY <1>d, <2>1, <2>3 DEF ObjectInv, ObjectTypes
    <3>2. NoDeletion(p) => NoDeletion(p)'
      <4>1. \A t \in Threads : ~Delete(t) /\ ~DeleteKey(t)
        BY <1>2, StepCounters, <1>b DEF Crash, Delete, DeleteKey, counters, CounterTypes
      <4> QED BY <1>d, <4>1, Heard
    <3>3. InTime(p)'
      BY <1>b, <2>1, <2>3, <3>1 DEF InTime
    <3> QED BY <1>b, <2>1, <3>1, <3>2, <3>3 DEF Doomed
  <2> QED BY <2>2, <2>3
\* Any other step
<1>3. ASSUME \A t \in Threads : ~Delete(t), \A p \in Procs : ~Crash(p)
      PROVE  /\ age' = age
             /\ \A u \in Threads : pc'[u] = "deleteKey" => pc[u] = "deleteKey"
             /\ \A u \in Threads : pc[u] = "delete" => pc'[u] = "delete" /\ handle'[u] = handle[u]
             /\ \A p \in Procs : ~NoDeletion(p)' =>
                  ~NoDeletion(p) \/ \E t \in Threads : pc[t] = "deleteKey"
  <2>1. \A t \in Threads : DeleteKey(t) => pc[t] = "deleteKey"
    BY DEF DeleteKey
  <2> QED BY <1>3, <1>a, <1>d, <2>1, Deleters, Heard
<1>4. ASSUME \A t \in Threads : ~Delete(t), \A p \in Procs : ~Crash(p),
             NEW p \in Procs, objects'[p] = objects[p], cache'[p] \in {cache[p], Nothing}
      PROVE  Doomed(p)' /\ InTime(p)'
  <2>1. Doomed(p)'
    BY <1>3, <1>4, <1>b DEF Doomed
  <2>2. InTime(p)'
    BY <1>3, <1>4, <1>b DEF InTime
  <2> QED BY <2>1, <2>2
<1>5. ASSUME NEW t \in Threads, Uncache(t), \A u \in Threads : ~Delete(u), \A q \in Procs : ~Crash(q),
             NEW p \in Procs
      PROVE  Doomed(p)' /\ InTime(p)'
  <2>1. PICK own \in Procs : own = ProcOf[t]
    BY <1>c
  <2>2. /\ objects' = Set(own, handle[t], "REMOVED") /\ handle[t] \in DOMAIN objects[own]
        /\ cache' = [cache EXCEPT ![own] = Nothing] /\ handle' = handle /\ Goto(t, "delete")
    BY <1>5, <2>1 DEF Uncache, ObjectInv, ObjectTypes, RemoverHasIt
  <2>3. /\ DOMAIN objects'[own] = DOMAIN objects[own]
        /\ \A i \in DOMAIN objects[own] :
             /\ objects'[own][i].born = objects[own][i].born
             /\ i # handle[t] => objects'[own][i] = objects[own][i]
        /\ \A q \in Procs \ {own} : objects'[q] = objects[q]
    BY <2>2, SetObject
  <2>4. cache'[own] = Nothing /\ \A q \in Procs \ {own} : cache'[q] = cache[q]
    BY <1>d, <2>2
  <2>5. CASE p # own
    BY <1>4, <1>5, <2>3, <2>4, <2>5
  <2>6. CASE p = own
    <3>1. Doomed(p)'
      BY <2>4, <2>6 DEF Doomed
    <3>2. pc'[t] = "delete"
      BY <2>2, MovesOf DEF ClientTypes
    <3>3. InTime(p)'
      BY <1>3, <1>5, <1>b, <2>1, <2>2, <2>3, <2>6, <3>2 DEF InTime
    <3> QED BY <3>1, <3>3
  <2> QED BY <2>5, <2>6
<1>6. ASSUME NEW t \in Threads, Insert(t), cache[ProcOf[t]] = Nothing,
             \A u \in Threads : ~Delete(u), \A q \in Procs : ~Crash(q), NEW p \in Procs
      PROVE  Doomed(p)' /\ InTime(p)'
  <2>1. PICK own \in Procs : own = ProcOf[t]
    BY <1>c
  <2>2. /\ objects' = [objects EXCEPT ![own] = Append(@, [state |-> "READY", born |-> age])]
        /\ cache' = [cache EXCEPT ![own] = Len(objects[own]) + 1]
        /\ pc[t] = "insert" /\ queue' = queue /\ handling' = handling
    BY <1>6, <2>1 DEF Insert, repository
  <2>3. /\ \A i \in DOMAIN objects[own] : i \in DOMAIN objects'[own] /\ objects'[own][i] = objects[own][i]
        /\ \A i \in DOMAIN objects'[own] \ DOMAIN objects[own] : objects'[own][i].state = "READY"
        /\ \A q \in Procs \ {own} : objects'[q] = objects[q]
    BY <2>2, AppendedObject, Ages
  <2>4. \A q \in Procs \ {own} : cache'[q] = cache[q]
    BY <1>d, <2>2
  <2>5. CASE p # own
    BY <1>4, <1>6, <2>3, <2>4, <2>5
  <2>6. CASE p = own
    <3>1. Place(t) = "insert" /\ lock[t].count > 0
      BY <2>2 DEF Place, PlaceInv, Placed
    <3>2. NoDeletion(p)
      BY <1>b, <2>1, <2>2, <2>6, <3>1 DEF ClearInv, Cleared
    <3>3. NoDeletion(p)'
      BY <2>2, <3>2 DEF NoDeletion, Deleted
    <3>4. \A u \in Threads : pc[u] # "deleteKey"
      <4>1. SUFFICES ASSUME NEW u \in Threads, pc[u] = "deleteKey" PROVE FALSE
        OBVIOUS
      <4>2. Place(u) \in Changing /\ u # t
        BY <2>2, <4>1 DEF Place, Changing
      <4> QED BY <3>1, <4>2, Alone
    <3>5. Doomed(p)'
      BY <1>3, <1>6, <3>3, <3>4 DEF Doomed
    <3>6. InTime(p)'
      BY <1>3, <1>6, <1>b, <2>3, <2>6 DEF InTime
    <3> QED BY <3>5, <3>6
  <2> QED BY <2>5, <2>6
<1>7. ASSUME NEW c \in Procs, RemoveFound(c), \A u \in Threads : ~Delete(u), \A q \in Procs : ~Crash(q),
             NEW p \in Procs
      PROVE  Doomed(p)' /\ InTime(p)'
  <2>1. PICK object \in {Nothing} \cup DOMAIN objects[c] : object = handling[c].object
    BY DEF ObjectInv, MemoryTypes
  <2>2. CASE UNCHANGED <<objects, cache>>
    BY <1>4, <1>7, <2>2
  <2>3. CASE /\ object # Nothing /\ objects' = Set(c, object, "REMOVED")
             /\ cache' = [cache EXCEPT ![c] = Nothing]
    <3>1. /\ DOMAIN objects'[c] = DOMAIN objects[c]
          /\ \A i \in DOMAIN objects[c] :
               /\ objects'[c][i].born = objects[c][i].born
               /\ i # object => objects'[c][i] = objects[c][i]
          /\ \A q \in Procs \ {c} : objects'[q] = objects[q]
      BY <2>1, <2>3, SetObject
    <3>2. cache'[c] = Nothing /\ \A q \in Procs \ {c} : cache'[q] = cache[q]
      BY <1>d, <2>3
    <3>3. CASE p # c
      BY <1>4, <1>7, <3>1, <3>2, <3>3
    <3>4. CASE p = c
      <4>1. handling[c].kind = "deleted" /\ cache[c] = object
        BY <1>7, <2>1, <2>3 DEF RemoveFound, HandlerInv
      <4>2. objects[c][object].born < age
        BY <1>b, <2>3, <4>1 DEF Doomed, NoDeletion
      <4>3. Doomed(p)'
        BY <3>2, <3>4 DEF Doomed
      <4>4. InTime(p)'
        BY <1>3, <1>7, <1>b, <3>1, <3>4, <4>2 DEF InTime
      <4> QED BY <4>3, <4>4
    <3> QED BY <3>3, <3>4
  <2> QED BY <1>7, <2>1, <2>2, <2>3 DEF RemoveFound, cached
<1>8. ASSUME NEW c \in Procs, LookUp(c) \/ Unset(c) \/ Rearm(c) PROVE UNCHANGED <<objects, cache>>
  BY <1>8 DEF LookUp, Unset, Rearm, cached
<1>9. ASSUME \A u \in Threads : ~Delete(u), \A q \in Procs : ~Crash(q), NEW p \in Procs
      PROVE  Doomed(p)' /\ InTime(p)'
  BY <1>4, <1>5, <1>6, <1>7, <1>8, <1>9, <1>b, MemoryKinds
<1> QED BY <1>1, <1>2, <1>9

-----------------------------------------------------------------------------
(* A removal arrives *)

\* p hears of the next change of the znode: it watches it, or is to watch it again.
Guarded(p, part) == part \in watch[p] \/ Behind(p, part)

\* A deletion is on its way that takes what p has cached.
DeletionComes(p) ==
  \/ handling[p].kind = "deleted" /\ handling[p].object = cache[p]
  \/ \E i \in DOMAIN queue[p] : Deleted(queue[p][i])

\* While nothing fails: the end of what is cached is on its way; or it will be told,
\* or has outrun the process.
Coming(p) ==
  cache[p] # Nothing =>
    \/ DeletionComes(p)
    \/ /\ \A part \in Whole : Guarded(p, part)
       /\ "state" \in nodes \/ p \in outrun

\* A thread that loads will hear of the end of what it has loaded.
HasKey(t) == pc[t] = "load" /\ call[t].part = 2
LoadSeen(t) ==
  /\ HasKey(t) => Guarded(ProcOf[t], "key")
  /\ pc[t] = "insert" => \A part \in Whole : Guarded(ProcOf[t], part)

Arriving == (\A p \in Procs : Coming(p)) /\ (\A t \in Threads : LoadSeen(t))

ArriveInv == Undisturbed => Arriving

\* Only loading takes a thread to where it has loaded.
LEMMA Loaders ==
  ASSUME RepositoryTypes, ClientTypes, MarkInv, PlaceInv, Shapes, [Next]_vars,
         \A p \in Procs : ~Crash(p)
  PROVE  \A u \in Threads :
           Load(u) \/ ((pc'[u] = "insert" => pc[u] = "insert") /\ (HasKey(u)' => HasKey(u)))
<1>a. pc \in [Threads -> PC] /\ call \in [Threads -> Call]
  BY DEF ClientTypes
<1>1. ASSUME UNCHANGED <<pc, call>>, NEW u \in Threads
      PROVE  (pc'[u] = "insert" => pc[u] = "insert") /\ (HasKey(u)' => HasKey(u))
  BY <1>1 DEF HasKey
<1>2. ASSUME NEW t \in Threads,
             \/ \E create \in BOOLEAN : Get(t, create)
             \/ Publish(t) \/ Remove(t) \/ Step(t) \/ UserRelease(t)
             \/ \E type \in LockTypes : UserAcquire(t, type),
             NEW u \in Threads
      PROVE  Load(u) \/ ((pc'[u] = "insert" => pc[u] = "insert") /\ (HasKey(u)' => HasKey(u)))
  <2>1. CASE u # t
    <3>1. pc'[u] = pc[u] /\ call'[u] = call[u]
      BY <1>2, <2>1, Only DEF OnlyOf
    <3> QED BY <3>1 DEF HasKey
  <2>2. CASE u = t /\ GetLock(t)
    <3>1. pc[t] = "lock" /\ call[t].part = 1
      BY <2>2 DEF GetLock, Shapes, Shape
    <3>2. Goto(t, "sync") \/ Return(t) \/ (Goto(t, "load") /\ call' = call)
      BY <2>2 DEF GetLock, AcquireNew
    <3> QED BY <1>a, <2>2, <3>1, <3>2, MovesOf, ReturnOf DEF HasKey
  <2>3. CASE u = t /\ Create(t)
    <3>1. pc[t] = "create"
      BY <2>3 DEF Create
    <3>2. pc' = pc \/ (Goto(t, "load") /\ call' = [call EXCEPT ![t].part = 1])
      BY <2>3 DEF Create
    <3>3. [call EXCEPT ![t].part = 1][t].part = 1
      <4>1. PICK record \in [create : BOOLEAN, part : 1 .. 2, again : BOOLEAN, then : PC] :
              record = call[t]
        BY <1>a DEF Call
      <4>2. [record EXCEPT !.part = 1].part = 1
        BY <4>1
      <4>3. [call EXCEPT ![t].part = 1][t] = [record EXCEPT !.part = 1]
        BY <1>a, <4>1
      <4> QED BY <4>2, <4>3
    <3>4. CASE pc' = pc
      BY <2>3, <3>1, <3>4 DEF HasKey
    <3>5. CASE Goto(t, "load") /\ call' = [call EXCEPT ![t].part = 1]
      <4>1. pc'[t] = "load" /\ call'[t].part = 1
        BY <1>a, <3>3, <3>5, MovesOf
      <4> QED BY <2>3, <4>1 DEF HasKey
    <3> QED BY <3>2, <3>4, <3>5
  <2>4. CASE u = t /\ ~GetLock(t) /\ ~Create(t) /\ ~Load(t)
    <3>1. \/ pc' = pc /\ pc[t] # "load"
          \/ Return(t)
          \/ \E label \in {"idle", "lock", "sync", "await", "unlock", "publish", "lockParent",
                           "lockSelf", "delete", "deleteKey", "release"} : Goto(t, label)
      BY <1>2, <2>4 DEF Get, Publish, SetNodeData, Remove, NewCall, Step, Insert, InitializeFails,
                        Unlock, LockParent, LockSelf, Uncache, RemovedMeanwhile, Delete, DeleteKey,
                        Release, CallThrows, QueueMarker, UserAcquire, UserRelease, AcquireNew,
                        Reenter, ReenterFails
    <3> QED BY <1>a, <2>4, <3>1, MovesOf, ReturnOf DEF HasKey
  <2> QED BY <2>1, <2>2, <2>3, <2>4
<1>3. ASSUME NEW p \in Procs, TakeMarker(p), NEW u \in Threads
      PROVE  (pc'[u] = "insert" => pc[u] = "insert") /\ (HasKey(u)' => HasKey(u))
  <2>1. PICK t \in Threads : t = Head(queue[p])
    BY <1>3 DEF TakeMarker
  <2>2. /\ Goto(t, call[t].then) /\ call' = [call EXCEPT ![t].then = "idle"]
        /\ pc[t] = "await"
    BY <1>3, <2>1, HeadIsMarker DEF TakeMarker
  <2>3. pc'[t] = call[t].then /\ \A v \in Threads \ {t} : pc'[v] = pc[v] /\ call'[v] = call[v]
    BY <1>a, <2>2, MovesOf, SyncOf
  <2>4. call[t].then # "insert" /\ call'[t].part = call[t].part /\ call[t].part = 1
    BY <1>a, <2>2, SyncOf DEF PlaceInv, Placed, Shapes, Shape
  <2> QED BY <2>3, <2>4 DEF HasKey
<1>4. ASSUME NEW p \in Procs, LookUp(p) \/ Unset(p) \/ RemoveFound(p) \/ Rearm(p)
      PROVE  UNCHANGED <<pc, call>>
  BY <1>4 DEF LookUp, Unset, RemoveFound, Rearm, clients
<1> QED BY <1>1, <1>2, <1>3, <1>4 DEF Next, EventStep, vars

\* A watch is used up by an event only, and the event is followed by a new watch,
\* unless it is a deletion.
LEMMA GuardsStay ==
  ASSUME RepositoryTypes, ClientTypes, HandlingTypes, WatchInv, [Next]_vars,
         \A p \in Procs : ~Crash(p), NEW q \in Procs, NEW part \in Whole, Guarded(q, part)
  PROVE  Guarded(q, part)' \/ \E i \in DOMAIN queue'[q] : Deleted(queue'[q][i])
<1>a. NoEvent.at = "none"
  BY DEF NoEvent
<1>1. CASE UNCHANGED <<nodes, watch, ready, queue, handling>>
  BY <1>1 DEF Guarded, Behind
<1>2. ASSUME NEW p \in Procs, NEW other \in Whole, SetWatch(p, other) PROVE watch[q] \subseteq watch'[q]
  BY <1>2 DEF SetWatch, RepositoryTypes
<1>3. ASSUME NEW t \in Threads, Load(t) PROVE Guarded(q, part)'
  <2>1. PICK p \in Procs, other \in Whole : SetWatch(p, other)
    <3>1. ProcOf[t] \in Procs /\ Parts[call[t].part] \in Whole
      BY LifecycleAssumption DEF ClientTypes, Call, Parts, Whole
    <3> QED BY <1>3, <3>1 DEF Load
  <2>2. UNCHANGED <<queue, handling>>
    BY <1>3 DEF Load
  <2> QED BY <1>2, <2>1, <2>2 DEF Guarded, Behind
<1>4. ASSUME EventsCome(q), handling' = handling
      PROVE  Guarded(q, part)' \/ \E i \in DOMAIN queue'[q] : Deleted(queue'[q][i])
  <2>1. CASE part \in watch[q] \ watch'[q]
    <3>1. PICK i \in DOMAIN queue'[q] : queue'[q][i].part = part /\ queue'[q][i] \in Event
      BY <1>4, <2>1 DEF EventsCome
    <3>2. queue'[q][i] \notin Threads
      BY <3>1, ThreadsAreNoEvents
    <3> QED BY <3>1, <3>2 DEF Guarded, Behind, Deleted
  <2>2. CASE Behind(q, part)
    BY <1>4, <2>2 DEF EventsCome, Guarded, Behind
  <2> QED BY <2>1, <2>2 DEF Guarded
<1>5. ASSUME NEW t \in Threads,
             Delete(t) \/ DeleteKey(t) \/ (Create(t) /\ Change(Made(t))) \/ (SetNodeData(t) /\ WriteState)
      PROVE  EventsCome(q) /\ handling' = handling
  <2>1. CASE SetNodeData(t) /\ WriteState
    BY <2>1, WrittenQueue DEF SetNodeData
  <2>2. CASE Delete(t) \/ DeleteKey(t) \/ (Create(t) /\ Change(Made(t)))
    <3>1. PICK new \in SUBSET Whole : Change(new)
      BY <2>2, MadeTypes DEF Delete, DeleteKey, RepositoryTypes
    <3> QED BY <2>2, <3>1, ChangeTells DEF Delete, DeleteKey, Create
  <2> QED BY <1>5, <2>1, <2>2
<1>6. ASSUME NEW t \in Threads, QueueMarker(t) PROVE Guarded(q, part)'
  <2>1. PICK p \in Procs : p = ProcOf[t]
    BY LifecycleAssumption
  <2>2. queue' = [queue EXCEPT ![p] = Append(@, t)] /\ UNCHANGED <<watch, handling>>
    BY <1>6, <2>1 DEF QueueMarker
  <2>3. \A i \in DOMAIN queue[q] : i \in DOMAIN queue'[q] /\ queue'[q][i] = queue[q][i]
    BY <2>2, PushedQueue
  <2> QED BY <2>2, <2>3 DEF Guarded, Behind
<1>7. ASSUME NEW p \in Procs, TakeMarker(p) \/ LookUp(p) PROVE Guarded(q, part)'
  <2>1. /\ queue[p] # <<>> /\ queue' = [queue EXCEPT ![p] = Tail(@)]
        /\ handling[p] = NoEvent /\ watch' = watch
    BY <1>7 DEF TakeMarker, LookUp
  <2>2. /\ \A i \in DOMAIN queue[p] :
             i = 1 \/ (i - 1 \in DOMAIN queue'[p] /\ queue'[p][i - 1] = queue[p][i])
        /\ \A r \in Procs \ {p} : queue'[r] = queue[r]
    BY <2>1, PoppedQueue
  <2>3. \A r \in Procs \ {p} : handling'[r] = handling[r]
    BY <1>7 DEF TakeMarker, LookUp, HandlingTypes
  <2>4. CASE q # p
    BY <2>1, <2>2, <2>3, <2>4 DEF Guarded, Behind
  <2>5. ASSUME q = p, NEW i \in DOMAIN queue[p], queue[p][i] \notin Threads,
               queue[p][i].part = part, queue[p][i].kind # "deleted"
        PROVE  Behind(p, part)'
    <3>1. CASE i # 1
      BY <2>2, <2>5, <3>1 DEF Behind
    <3>2. CASE i = 1
      <4>1. Head(queue[p]) = queue[p][1] /\ LookUp(p)
        BY <1>7, <2>1, <2>5, <3>2, QueuePositions DEF TakeMarker
      <4>2. PICK work : work = [part |-> Head(queue[p]).part, kind |-> Head(queue[p]).kind,
                                 object |-> cache[p], at |-> "found"]
        OBVIOUS
      <4>3. handling'[p] = work
        BY <4>1, <4>2 DEF LookUp, HandlingTypes
      <4>4. work.at = "found" /\ work.part = part /\ work.kind # "deleted"
        BY <2>5, <3>2, <4>1, <4>2
      <4> QED BY <4>3, <4>4 DEF Behind
    <3> QED BY <3>1, <3>2
  <2> QED BY <1>a, <2>1, <2>4, <2>5 DEF Guarded, Behind
<1>8. ASSUME NEW p \in Procs, Unset(p) \/ RemoveFound(p)
      PROVE  Guarded(q, part)'
  <2>1. UNCHANGED <<watch, queue>>
    BY <1>8 DEF Unset, RemoveFound, repository
  <2>2. CASE Unset(p)
    <3>1. handling' = [handling EXCEPT ![p].at = "unset"]
      BY <2>2 DEF Unset
    <3>2. /\ handling'[q].kind = handling[q].kind /\ handling'[q].part = handling[q].part
          /\ handling[q].at # "none" => handling'[q].at # "none"
      BY <3>1 DEF HandlingTypes
    <3> QED BY <2>1, <3>2 DEF Guarded, Behind
  <2>3. CASE RemoveFound(p)
    <3>1. handling' = [handling EXCEPT ![p] = NoEvent] /\ handling[p].kind = "deleted"
      BY <2>3 DEF RemoveFound
    <3>2. handling'[q] = handling[q] \/ q = p
      BY <3>1 DEF HandlingTypes
    <3> QED BY <2>1, <3>1, <3>2 DEF Guarded, Behind
  <2> QED BY <1>8, <2>2, <2>3
<1>9. ASSUME NEW p \in Procs, Rearm(p)
      PROVE  Guarded(q, part)' \/ \E i \in DOMAIN queue'[q] : Deleted(queue'[q][i])
  <2>1. PICK other \in Whole : other = handling[p].part
    BY DEF HandlingTypes
  <2>2. /\ handling' = [handling EXCEPT ![p] = NoEvent] /\ queue' = queue
        /\ handling[p].at = "unset" /\ SetWatch(p, other)
    BY <1>9, <2>1 DEF Rearm
  <2>3. watch[q] \subseteq watch'[q]
    BY <1>2, <2>2
  <2>4. CASE q # p
    <3>1. handling'[q] = handling[q]
      BY <2>2, <2>4 DEF HandlingTypes
    <3> QED BY <2>2, <2>3, <3>1 DEF Guarded, Behind
  <2>5. CASE q = p /\ part # other
    BY <2>1, <2>2, <2>3, <2>5 DEF Guarded, Behind
  <2>6. CASE q = p /\ part = other
    <3>1. CASE part \in ready[p] \ watch[p]
      <4>1. Pending(p, part)
        BY <3>1 DEF WatchInv, Watched
      <4>2. PICK i \in DOMAIN queue[p] : queue[p][i] \notin Threads /\ queue[p][i].part = part
        BY <2>2, <4>1 DEF Pending
      <4> QED BY <2>2, <2>6, <4>2 DEF Guarded, Behind, Deleted
    <3>2. CASE part \in watch[p] \/ part \notin ready[p]
      BY <2>2, <2>6, <3>2 DEF SetWatch, RepositoryTypes, Guarded
    <3> QED BY <3>1, <3>2
  <2> QED BY <2>4, <2>5, <2>6
<1> QED BY <1>1, <1>3, <1>4, <1>5, <1>6, <1>7, <1>8, <1>9, Kinds

\* What is cached stays so, unless it is removed; only Insert puts in more.
LEMMA CacheMoves ==
  ASSUME ObjectInv, [Next]_vars, \A p \in Procs : ~Crash(p),
         \A t \in Threads : ~InitializeFails(t), NEW q \in Procs
  PROVE  \/ cache'[q] = cache[q] \/ cache'[q] = Nothing
         \/ cache[q] = Nothing /\ \E t \in Threads : Insert(t) /\ q = ProcOf[t]
<1>a. cache \in [Procs -> Nat]
  BY DEF ObjectInv, MemoryTypes
<1>1. ASSUME NEW t \in Threads, Uncache(t) PROVE cache'[q] = cache[q] \/ cache'[q] = Nothing
  BY <1>a, <1>1 DEF Uncache
<1>2. ASSUME NEW t \in Threads, Insert(t), cache[ProcOf[t]] = Nothing
      PROVE  cache'[q] = cache[q] \/ (cache[q] = Nothing /\ q = ProcOf[t])
  BY <1>a, <1>2 DEF Insert
<1>3. ASSUME NEW p \in Procs, LookUp(p) \/ Unset(p) \/ RemoveFound(p) \/ Rearm(p)
      PROVE  cache'[q] = cache[q] \/ cache'[q] = Nothing
  BY <1>a, <1>3 DEF LookUp, Unset, RemoveFound, Rearm, cached
<1> QED BY <1>1, <1>2, <1>3, MemoryKinds

\* A deletion stays on its way until it takes what is cached.
LEMMA DeletionsStay ==
  ASSUME RepositoryTypes, ClientTypes, HandlingTypes, ObjectInv, [Next]_vars,
         \A p \in Procs : ~Crash(p), \A t \in Threads : ~InitializeFails(t),
         NEW q \in Procs, cache[q] # Nothing, DeletionComes(q)
  PROVE  DeletionComes(q)' \/ cache'[q] = Nothing
<1>1. SUFFICES ASSUME cache'[q] = cache[q] PROVE DeletionComes(q)'
  BY CacheMoves
<1>2. CASE handling[q].kind = "deleted" /\ handling[q].object = cache[q]
  <2>1. SUFFICES ASSUME handling'[q] # handling[q]
                 PROVE  handling'[q].kind = "deleted" /\ handling'[q].object = cache[q]
    BY <1>1, <1>2 DEF DeletionComes
  <2>2. PICK p \in Procs : LookUp(p) \/ Unset(p) \/ RemoveFound(p) \/ Rearm(p)
    <3>1. \A t \in Threads : Uncache(t) \/ Insert(t) => handling' = handling
      BY DEF Uncache, Insert
    <3> QED BY <2>1, <3>1, MemoryKinds
  <2>3. p = q
    BY <2>1, <2>2 DEF LookUp, Unset, RemoveFound, Rearm, HandlingTypes
  <2>4. ~LookUp(q) /\ ~Rearm(q)
    BY <1>2 DEF LookUp, Rearm, NoEvent
  <2>5. ~RemoveFound(q)
    <3>1. cache \in [Procs -> Nat]
      BY DEF ObjectInv, MemoryTypes
    <3> QED BY <1>1, <1>2, <3>1 DEF RemoveFound
  <2>6. handling' = [handling EXCEPT ![q].at = "unset"]
    BY <2>2, <2>3, <2>4, <2>5 DEF Unset
  <2> QED BY <1>2, <2>6 DEF HandlingTypes
<1>3. ASSUME NEW i \in DOMAIN queue[q], Deleted(queue[q][i]) PROVE DeletionComes(q)'
  <2>1. CASE \A j \in DOMAIN queue[q] : j \in DOMAIN queue'[q] /\ queue'[q][j] = queue[q][j]
    BY <1>3, <2>1 DEF DeletionComes, Deleted
  <2>2. ASSUME NEW p \in Procs, TakeMarker(p) \/ LookUp(p) PROVE DeletionComes(q)'
    <3>1. queue[p] # <<>> /\ queue' = [queue EXCEPT ![p] = Tail(@)] /\ cache' = cache
      BY <2>2 DEF TakeMarker, LookUp, cached
    <3>2. /\ \A j \in DOMAIN queue[p] :
               j = 1 \/ (j - 1 \in DOMAIN queue'[p] /\ queue'[p][j - 1] = queue[p][j])
          /\ \A r \in Procs \ {p} : queue'[r] = queue[r]
      BY <3>1, PoppedQueue
    <3>3. CASE q # p \/ i # 1
      BY <1>3, <3>2, <3>3 DEF DeletionComes, Deleted
    <3>4. CASE q = p /\ i = 1
      <4>1. Head(queue[p]) = queue[p][1] /\ queue[p][1] \notin Threads /\ queue[p][1].kind = "deleted"
        BY <1>3, <3>1, <3>4, QueuePositions DEF Deleted
      <4>2. PICK work : work = [part |-> Head(queue[p]).part, kind |-> Head(queue[p]).kind,
                                 object |-> cache[p], at |-> "found"]
        OBVIOUS
      <4>3. handling'[p] = work
        BY <2>2, <4>1, <4>2 DEF TakeMarker, LookUp, HandlingTypes
      <4>4. work.kind = "deleted" /\ work.object = cache[p]
        BY <4>1, <4>2
      <4> QED BY <3>1, <3>4, <4>3, <4>4 DEF DeletionComes
    <3> QED BY <3>3, <3>4
  <2>3. ASSUME NEW t \in Threads,
               \/ Delete(t) \/ DeleteKey(t) \/ (Create(t) /\ Change(Made(t)))
               \/ SetNodeData(t) /\ WriteState
        PROVE  EventsCome(q)
    <3>1. CASE SetNodeData(t) /\ WriteState
      BY <3>1, WrittenQueue
    <3>2. CASE Delete(t) \/ DeleteKey(t) \/ (Create(t) /\ Change(Made(t)))
      <4>1. PICK new \in SUBSET Whole : Change(new)
        BY <3>2, MadeTypes DEF Delete, DeleteKey, RepositoryTypes
      <4> QED BY <4>1, ChangeTells
    <3> QED BY <2>3, <3>1, <3>2
  <2>4. ASSUME NEW t \in Threads, QueueMarker(t)
        PROVE  \A j \in DOMAIN queue[q] : j \in DOMAIN queue'[q] /\ queue'[q][j] = queue[q][j]
    <3>1. PICK p \in Procs : p = ProcOf[t]
      BY LifecycleAssumption
    <3>2. queue' = [queue EXCEPT ![p] = Append(@, t)]
      BY <2>4, <3>1 DEF QueueMarker
    <3> QED BY <3>2, PushedQueue
  <2>5. ASSUME NEW t \in Threads, Load(t) PROVE queue' = queue
    BY <2>5 DEF Load
  <2>6. ASSUME NEW p \in Procs, Unset(p) \/ RemoveFound(p) \/ Rearm(p) PROVE queue' = queue
    BY <2>6 DEF Unset, RemoveFound, Rearm, repository
  <2> QED BY <2>1, <2>2, <2>3, <2>4, <2>5, <2>6, Kinds DEF EventsCome
<1> QED BY <1>2, <1>3 DEF DeletionComes

\* Who watches a znode is told of its end.
LEMMA EndTold ==
  ASSUME RepositoryTypes, NEW new \in SUBSET Whole, Change(new), NEW q \in Procs,
         NEW part \in watch[q], part \in nodes, part \notin new
  PROVE  \E i \in DOMAIN queue'[q] : Deleted(queue'[q][i])
<1>1. PICK i \in DOMAIN queue'[q] \ DOMAIN queue[q] :
        queue'[q][i].part = part /\ Told(queue'[q][i], q, new)
  BY ChangedQueue
<1> QED BY <1>1, ThreadsAreNoEvents DEF Told, Deleted

LEMMA ComingStays ==
  ASSUME RepositoryTypes, ClientTypes, HandlingTypes, ObjectInv, Shapes, WatchInv, Arriving,
         [Next]_vars, \A p \in Procs : ~Crash(p), \A t \in Threads : ~InitializeFails(t),
         NEW q \in Procs, cache[q] # Nothing
  PROVE  Coming(q)'
<1>1. SUFFICES ASSUME cache'[q] # Nothing, ~DeletionComes(q)'
               PROVE  /\ \A part \in Whole : Guarded(q, part)'
                      /\ "state" \in nodes' \/ q \in outrun'
  BY DEF Coming
<1>2. /\ \A part \in Whole : Guarded(q, part)
      /\ "state" \in nodes \/ q \in outrun
  BY <1>1, DeletionsStay DEF Arriving, Coming
<1>3. \A i \in DOMAIN queue'[q] : ~Deleted(queue'[q][i])
  BY <1>1 DEF DeletionComes, Deleted
<1>4. \A part \in Whole : Guarded(q, part)'
  BY <1>2, <1>3, GuardsStay
<1>5. ASSUME NEW t \in Threads, Delete(t) PROVE q \in outrun'
  <2>1. nodes = Whole /\ Change(nodes \ {"state"}) /\ outrun' = {p \in Procs : Behind(p, "state")}
    BY <1>5 DEF Delete, Shapes, Shape, Place
  <2>2. "state" \notin watch[q]
    <3>1. nodes \ {"state"} \in SUBSET Whole /\ "state" \in nodes
      BY <2>1 DEF Whole
    <3> QED BY <1>3, <2>1, <3>1, EndTold
  <2> QED BY <1>2, <2>1, <2>2 DEF Guarded, Whole
<1>6. ASSUME NEW t \in Threads, DeleteKey(t) PROVE q \in outrun'
  <2>1. /\ nodes = {"key"} /\ Change(nodes \ {"key"})
        /\ outrun' = {p \in outrun : Behind(p, "key")}
    BY <1>6 DEF DeleteKey, Shapes, Shape
  <2>2. "key" \notin watch[q]
    <3>1. nodes \ {"key"} \in SUBSET Whole /\ "key" \in nodes
      BY <2>1 DEF Whole
    <3> QED BY <1>3, <2>1, <3>1, EndTold
  <2>3. q \in outrun
    BY <1>2, <2>1
  <2> QED BY <1>2, <2>1, <2>2, <2>3 DEF Guarded, Whole
<1>7. CASE \A t \in Threads : ~Delete(t) /\ ~DeleteKey(t)
  <2>1. outrun' = outrun
    BY <1>7, ZenonT(60)
       DEF Next, Step, EventStep, vars, repository, Get, Publish, SetNodeData, Remove, GetLock,
           Load, Create, Insert, InitializeFails, Unlock, LockParent, LockSelf, Uncache,
           RemovedMeanwhile, Release, CallThrows, QueueMarker, UserAcquire, UserRelease,
           TakeMarker, LookUp, Unset, RemoveFound, Rearm, Crash
  <2>2. nodes \subseteq nodes'
    <3>1. ASSUME NEW t \in Threads, Create(t), Change(Made(t)) PROVE nodes \subseteq nodes'
      BY <3>1, MadeTypes DEF Change
    <3>2. ASSUME NEW t \in Threads, Load(t) \/ QueueMarker(t) \/ (SetNodeData(t) /\ WriteState)
          PROVE  nodes' = nodes
      BY <3>2 DEF Load, QueueMarker, WriteState
    <3>3. ASSUME NEW p \in Procs, TakeMarker(p) \/ LookUp(p) \/ Unset(p) \/ RemoveFound(p) \/ Rearm(p)
          PROVE  nodes' = nodes
      BY <3>3 DEF TakeMarker, LookUp, Unset, RemoveFound, Rearm, repository
    <3> QED BY <1>7, <3>1, <3>2, <3>3, Kinds
  <2> QED BY <1>2, <1>4, <2>1, <2>2
<1> QED BY <1>4, <1>5, <1>6, <1>7

\* A thread puts into the cache what it has loaded.
LEMMA ComingNew ==
  ASSUME ObjectInv, Shapes, Arriving, NEW t \in Threads, Insert(t)
  PROVE  Coming(ProcOf[t])'
<1>1. PICK p \in Procs : p = ProcOf[t]
  BY LifecycleAssumption
<1>2. pc[t] = "insert" /\ UNCHANGED <<nodes, outrun, watch, queue, handling>>
  BY DEF Insert, repository
<1>3. \A part \in Whole : Guarded(p, part)
  BY <1>1, <1>2 DEF Arriving, LoadSeen
<1>4. \A part \in Whole : Guarded(p, part)'
  BY <1>2, <1>3 DEF Guarded, Behind
<1>5. "state" \in nodes'
  BY <1>2 DEF Shapes, Shape, Whole
<1> QED BY <1>1, <1>4, <1>5 DEF Coming

\* What a thread has loaded is watched, or an event that is no deletion precedes the watch.
LEMMA LoadGuards ==
  ASSUME RepositoryTypes, ClientTypes, PlaceInv, WatchInv, ClearInv, Arriving, faults = 0,
         NEW t \in Threads, Load(t)
  PROVE  LoadSeen(t)'
<1>a. pc \in [Threads -> PC] /\ call \in [Threads -> Call] /\ call[t].part \in 1 .. 2
  BY DEF ClientTypes, Call
<1>1. PICK p \in Procs : p = ProcOf[t]
  BY LifecycleAssumption
<1>2. PICK part \in Whole : part = Parts[call[t].part]
  BY <1>a DEF Parts, Whole
<1>3. pc[t] = "load" /\ SetWatch(p, part) /\ UNCHANGED <<queue, handling>>
  BY <1>1, <1>2 DEF Load
<1>4. watch[p] \subseteq watch'[p] /\ (part \notin ready[p] => part \in watch'[p])
  BY <1>3 DEF SetWatch, RepositoryTypes
<1>5. NoDeletion(p)
  <2>1. lock[t].count > 0
    BY <1>3 DEF PlaceInv, Placed, Place
  <2> QED BY <1>1, <1>3, <2>1 DEF ClearInv, Cleared
<1>6. Guarded(p, part)'
  <2>1. CASE part \in ready[p] \ watch[p]
    <3>1. Pending(p, part)
      BY <2>1 DEF WatchInv, Watched
    <3> QED BY <1>3, <1>5, <3>1 DEF Pending, NoDeletion, Deleted, Guarded, Behind
  <2>2. CASE part \notin ready[p] \/ part \in watch[p]
    BY <1>4, <2>2 DEF Guarded
  <2> QED BY <2>1, <2>2
<1>7. ASSUME NEW other \in Whole, Guarded(p, other) PROVE Guarded(p, other)'
  BY <1>3, <1>4, <1>7 DEF Guarded, Behind
<1>8. HasKey(t)' => part = "key"
  <2>1. \/ call[t].part < Len(Parts) /\ call' = [call EXCEPT ![t].part = @ + 1]
        \/ call[t].part = Len(Parts) /\ Goto(t, "insert")
        \/ Goto(t, "create") \/ Goto(t, "unlock") \/ Return(t)
    BY DEF Load
  <2>2. HasKey(t)' => call[t].part < Len(Parts)
    BY <1>a, <2>1, MovesOf, ReturnOf DEF HasKey
  <2> QED BY <1>a, <1>2, <2>2 DEF Parts
<1>9. pc'[t] = "insert" => part = "state" /\ call[t].part = 2
  <2>1. \/ pc' = pc \/ call[t].part = Len(Parts)
        \/ \E label \in {"create", "unlock"} : Goto(t, label)
        \/ Return(t)
    BY DEF Load
  <2>2. pc'[t] = "insert" => call[t].part = Len(Parts)
    BY <1>a, <1>3, <2>1, MovesOf, ReturnOf
  <2> QED BY <1>a, <1>2, <2>2 DEF Parts
<1>10. pc'[t] = "insert" => \A other \in Whole : Guarded(p, other)'
  <2>1. SUFFICES ASSUME pc'[t] = "insert", NEW other \in Whole PROVE Guarded(p, other)'
    OBVIOUS
  <2>2. CASE other = "state"
    BY <1>6, <1>9, <2>1, <2>2
  <2>3. CASE other = "key"
    <3>1. Guarded(p, "key")
      BY <1>1, <1>3, <1>9, <2>1 DEF Arriving, LoadSeen, HasKey
    <3> QED BY <1>7, <2>3, <3>1
  <2> QED BY <2>2, <2>3 DEF Whole
<1> QED BY <1>1, <1>6, <1>8, <1>10 DEF LoadSeen

LEMMA StepArrive ==
  ASSUME RepositoryTypes, ClientTypes, ObjectInv, MarkInv, PlaceInv, ShapeInv, WatchInv, ClearInv,
         ArriveInv, [Next]_vars
  PROVE  ArriveInv'
<1>1. SUFFICES ASSUME Undisturbed' PROVE Arriving'
  BY DEF ArriveInv
<1>2. /\ Undisturbed /\ \A t \in Threads : ~InitializeFails(t)
      /\ \A p \in Procs : ~Crash(p)
  BY <1>1, StepCounters DEF ShapeInv
<1>3. Shapes /\ Arriving /\ faults = 0
  BY <1>2 DEF ShapeInv, ArriveInv, Undisturbed
<1>4. HandlingTypes /\ \A t \in Threads : ProcOf[t] \in Procs
  BY LifecycleAssumption DEF ObjectInv, MemoryTypes, HandlingTypes
<1>5. ASSUME NEW q \in Procs PROVE Coming(q)'
  <2>1. CASE cache[q] # Nothing
    BY <1>2, <1>3, <1>4, <2>1, ComingStays
  <2>2. CASE cache[q] = Nothing
    <3>1. CASE cache'[q] = Nothing
      BY <3>1 DEF Coming
    <3>2. CASE cache'[q] # Nothing
      BY <1>2, <1>3, <2>2, <3>2, CacheMoves, ComingNew
    <3> QED BY <3>1, <3>2
  <2> QED BY <2>1, <2>2
<1>6. ASSUME NEW u \in Threads, ~Load(u), HasKey(u) \/ pc[u] = "insert", NEW part \in Whole,
             Guarded(ProcOf[u], part)
      PROVE  Guarded(ProcOf[u], part)'
  <2>1. PICK q \in Procs : q = ProcOf[u]
    BY <1>4
  <2>2. pc[u] \in {"load", "insert"} /\ Place(u) \in Holding
    BY <1>6 DEF HasKey, Place, Holding
  <2>3. NoDeletion(q)
    <3>1. lock[u].count > 0
      BY <2>2 DEF PlaceInv, Placed, Place
    <3> QED BY <1>3, <2>1, <2>2, <3>1 DEF ClearInv, Cleared
  <2>4. ASSUME NEW t \in Threads, Delete(t) \/ DeleteKey(t) PROVE FALSE
    <3>1. pc[t] \in {"delete", "deleteKey"}
      BY <2>4 DEF Delete, DeleteKey
    <3>2. t # u /\ Place(t) \in Changing
      BY <2>2, <3>1 DEF Place, Changing
    <3> QED BY <2>2, <3>2, AloneThere
  <2>5. \A i \in DOMAIN queue'[q] : ~Deleted(queue'[q][i])
    BY <1>4, <2>3, <2>4, Heard DEF NoDeletion, Deleted
  <2>6. Guarded(q, part)'
    BY <1>2, <1>4, <1>6, <2>1, <2>5, GuardsStay
  <2> QED BY <2>1, <2>6
<1>7. ASSUME NEW u \in Threads PROVE LoadSeen(u)'
  <2>1. CASE Load(u)
    BY <1>3, <2>1, LoadGuards
  <2>2. CASE ~Load(u)
    <3>1. (pc'[u] = "insert" => pc[u] = "insert") /\ (HasKey(u)' => HasKey(u))
      BY <1>2, <1>3, <2>2, Loaders
    <3>2. LoadSeen(u)
      BY <1>3 DEF Arriving
    <3>3. HasKey(u)' => Guarded(ProcOf[u], "key")'
      BY <1>6, <2>2, <3>1, <3>2 DEF LoadSeen, Whole
    <3>4. pc'[u] = "insert" => \A part \in Whole : Guarded(ProcOf[u], part)'
      BY <1>6, <2>2, <3>1, <3>2 DEF LoadSeen
    <3> QED BY <3>3, <3>4 DEF LoadSeen
  <2> QED BY <2>1, <2>2
<1> QED BY <1>5, <1>7 DEF Arriving

-----------------------------------------------------------------------------
(* The theorems *)

LifecycleInv ==
  /\ RepositoryTypes /\ ClientTypes /\ ObjectInv /\ RemoverHasIt /\ CounterTypes
  /\ MarkInv /\ PlaceInv /\ ShapeInv /\ WatchInv /\ ClearInv
  /\ HandlerInv /\ TimeInv /\ ArriveInv

LEMMA InitLifecycle == Init => LifecycleInv
<1> SUFFICES ASSUME Init PROVE LifecycleInv
  OBVIOUS
<1>1. <<>> \in Seq(Event \cup Threads) /\ <<>> \in Seq(Object) /\ DOMAIN <<>> = {}
  OBVIOUS
<1>2. RepositoryTypes
  BY <1>1 DEF Init, RepositoryTypes, Whole
<1>3. ClientTypes
  BY PcTypes DEF Init, ClientTypes, LockRecords, Free, LockTypes
<1>4. /\ NoEvent \in [part : Whole, kind : {"created", "changed", "deleted"}, object : Nat,
                       at : {"none", "found", "unset"}]
      /\ NoEvent.object = Nothing /\ NoEvent.kind # "deleted" /\ NoEvent.at = "none"
  BY DEF NoEvent, Nothing, Whole
<1>5. MemoryTypes
  BY <1>4 DEF Init, MemoryTypes, Nothing
<1>6. ObjectTypes
  BY <1>1 DEF Init, ObjectTypes
<1>7. \A p \in Procs : /\ DOMAIN objects[p] = {} /\ DOMAIN queue[p] = {} /\ cache[p] = Nothing
                       /\ watch[p] = {} /\ ready[p] = {} /\ handling[p] = NoEvent
  BY <1>1 DEF Init
<1>8. \A t \in Threads : /\ pc[t] = "idle" /\ lock[t] = Free /\ call[t] = NoCall
                         /\ Place(t) = "idle"
  BY DEF Init, Place
<1>9. NoCall.then = "idle" /\ NoCall.part = 1 /\ Free.count = 0
  BY DEF NoCall, Free
<1>10. ObjectInv
  BY <1>5, <1>6, <1>7 DEF ObjectInv, Live
<1>11. RemoverHasIt
  BY <1>8, <1>9 DEF RemoverHasIt
<1>12. CounterTypes /\ MarkInv
  BY <1>7 DEF Init, CounterTypes, MarkInv
<1>13. PlaceInv
  BY <1>8, <1>9 DEF PlaceInv, LockInv, Placed
<1>14. ShapeInv
  <2>1. \A t \in Threads : Shape(t)
    BY <1>8, <1>9 DEF Shape
  <2>2. nodes = {} \/ nodes = Whole
    BY DEF Init
  <2>3. nodes # {"key"}
    <3>1. nodes = {"key"} => "key" \in nodes /\ "state" \notin nodes
      OBVIOUS
    <3> QED BY <2>2, <3>1 DEF Whole
  <2> QED BY <1>12, <2>1, <2>2, <2>3 DEF ShapeInv, Shapes
<1>15. WatchInv
  BY <1>4, <1>7 DEF WatchInv, Watched
<1>16. ClearInv
  BY <1>8, <1>9 DEF ClearInv
<1>17. HandlerInv
  BY <1>4, <1>7 DEF HandlerInv
<1>18. TimeInv
  BY <1>7 DEF TimeInv, BornInv, Doomed, InTime
<1>19. ArriveInv
  BY <1>7, <1>8 DEF ArriveInv, Arriving, Coming, LoadSeen, HasKey
<1> QED BY <1>2, <1>3, <1>10, <1>11, <1>12, <1>13, <1>14, <1>15, <1>16, <1>17, <1>18, <1>19
        DEF LifecycleInv

LEMMA StepLifecycle == LifecycleInv /\ [Next]_vars => LifecycleInv'
<1> SUFFICES ASSUME LifecycleInv, [Next]_vars PROVE LifecycleInv'
  OBVIOUS
<1>1. HandlingTypes
  BY DEF LifecycleInv, ObjectInv, MemoryTypes, HandlingTypes
<1> QED BY <1>1, StepRepository, StepClient, StepObjects, StepRemover, StepCounters, StepMark,
           StepPlace, StepShape, StepWatch, StepClear, StepHandler, StepTime, StepArrive
        DEF LifecycleInv

LEMMA LifecycleCorrect == Spec => []LifecycleInv
BY InitLifecycle, StepLifecycle, PTL DEF Spec

\* A process has at most one live object of a Notifyable, the one in its cache,
\* however many threads load, create and remove it, and whatever calls fail and
\* processes crash (factoryops.cc, safenotifyablemap.cc).
THEOREM OneObjectCorrect == Spec => []OneObject
<1>1. LifecycleInv => OneObject
  BY DEF LifecycleInv, RepositoryTypes, ClientTypes, ObjectInv, ObjectTypes, Live, OneObject,
         TypeOK, LockRecords
<1> QED BY <1>1, LifecycleCorrect, PTL

\* While a thread removes the Notifyable, of which it holds the parent's lock, nobody
\* else loads, makes or removes it; and without failures it has all of its znodes
\* when they begin to be deleted (NotifyableImpl::remove).
THEOREM RemoverIsAlone == Spec => []RemoverAlone
<1>1. LifecycleInv => RemoverAlone
  <2> SUFFICES ASSUME LifecycleInv, NEW t \in Threads, pc[t] \in {"uncache", "delete", "deleteKey"}
               PROVE  /\ Undisturbed /\ pc[t] = "delete" => nodes = Whole
                      /\ \A u \in Threads \ {t} :
                           pc[u] \notin {"load", "create", "insert", "uncache", "delete", "deleteKey"}
    BY DEF RemoverAlone
  <2>1. Undisturbed /\ pc[t] = "delete" => nodes = Whole
    BY DEF LifecycleInv, ShapeInv, Shapes, Shape, Place
  <2>2. Place(t) \in Changing
    BY DEF Place, Changing
  <2>3. ASSUME NEW u \in Threads \ {t}
        PROVE  pc[u] \notin {"load", "create", "insert", "uncache", "delete", "deleteKey"}
    <3>1. Place(u) \notin Holding
      BY <2>2, AloneThere DEF LifecycleInv
    <3> QED BY <3>1 DEF Place, Holding
  <2> QED BY <2>1, <2>3
<1> QED BY <1>1, LifecycleCorrect, PTL

\* Without failures, while a process caches an object of a Notifyable that is gone the
\* event that will remove it is on its way, unless the process was behind with its
\* events of both znodes when they were deleted; no object is removed for the end of
\* an earlier Notifyable of its name; and, whatever fails, the handler of the event
\* does not throw (cachedobjectchangehandlers.cc, clientimpl.cc).
THEOREM RemovalsArrive == Spec => []RemovalArrives
<1>1. LifecycleInv => RemovalOnItsWay
  <2> SUFFICES ASSUME LifecycleInv, NEW p \in Procs, Undisturbed, cache[p] # Nothing, "key" \notin nodes
               PROVE  \/ p \in outrun
                      \/ handling[p].kind = "deleted" /\ handling[p].object = cache[p]
                      \/ \E i \in DOMAIN queue[p] :
                           queue[p][i] \notin Threads /\ queue[p][i].kind = "deleted"
    BY DEF RemovalOnItsWay
  <2>1. "state" \notin nodes
    BY DEF LifecycleInv, ShapeInv, Shapes, Whole
  <2>2. Coming(p)
    BY DEF LifecycleInv, ArriveInv, Arriving
  <2> QED BY <2>1, <2>2 DEF Coming, DeletionComes, Deleted
<1>2. LifecycleInv => RemovedInTime
  BY DEF LifecycleInv, TimeInv, InTime, RemovedInTime
<1>3. LifecycleInv => EventThreadLives
  BY DEF LifecycleInv, WatchInv, Watched, HandlerInv, EventThreadLives
<1>4. LifecycleInv => RemovalArrives
  BY <1>1, <1>2, <1>3 DEF RemovalArrives
<1> QED BY <1>4, LifecycleCorrect, PTL

\* Who holds the lock of the parent, and has synchronized, knows of every removal before
\* its own, as long as no call failed: no deletion is on its way to its process
\* (DistributedLocks::acquire, FactoryOps::synchronize).
THEOREM OwnersHaveHeard ==
  Spec => [](\A t \in Threads :
               faults = 0 /\ lock[t].count > 0 /\ pc[t] \notin {"sync", "await", "deleteKey", "release"}
                 => NoDeletion(ProcOf[t]))
<1>1. LifecycleInv =>
        \A t \in Threads :
          faults = 0 /\ lock[t].count > 0 /\ pc[t] \notin {"sync", "await", "deleteKey", "release"}
            => NoDeletion(ProcOf[t])
  BY DEF LifecycleInv, ClearInv, Cleared
<1> QED BY <1>1, LifecycleCorrect, PTL

\* The one-shot watches are accounted for: a znode that a process takes for watched is
\* watched, or has one event on its way to the event thread, and not both, whatever
\* fails (CachedObjectChangeHandlers, SAFE_CALLBACK_ZK).
THEOREM WatchesAccountedFor == Spec => []WatchInv
<1>1. LifecycleInv => WatchInv
  BY DEF LifecycleInv
<1> QED BY <1>1, LifecycleCorrect, PTL

-----------------------------------------------------------------------------
(* The lock of the parent is that of AbstractLock *)

View(locks) == [t \in Threads |-> [l \in {"CHILD_LOCK"} |-> locks[t]]]

ParentLock == INSTANCE AbstractLock
                WITH Locks <- {"CHILD_LOCK"}, holds <- View(lock), void <- FALSE

\* What a step does to the lock
LEMMA LockKinds ==
  ASSUME [Next]_vars
  PROVE  \/ lock' = lock
         \/ \E p \in Procs : Crash(p)
         \/ \E t \in Threads :
              \/ \E type \in LockTypes : \E label : AcquireNew(t, type, label)
              \/ \E type, label : Reenter(t, type, label)
              \/ lock' = Released(t)
<1>1. CASE UNCHANGED vars
  BY <1>1 DEF vars
<1>2. ASSUME NEW p \in Procs, EventStep(p) PROVE lock' = lock
  BY <1>2 DEF EventStep, TakeMarker, LookUp, Unset, RemoveFound, Rearm, clients
<1>3. ASSUME NEW t \in Threads, GetLock(t)
      PROVE  lock' = lock \/ \E type \in LockTypes : \E label : AcquireNew(t, type, label)
  BY <1>3 DEF GetLock, LockTypes
<1>4. ASSUME NEW t \in Threads, LockParent(t)
      PROVE  \/ lock' = lock
             \/ \E type \in LockTypes : \E label : AcquireNew(t, type, label)
             \/ \E type, label : Reenter(t, type, label)
  BY <1>4 DEF LockParent, ReenterFails, LockTypes
<1>5. ASSUME NEW t \in Threads, NEW type \in LockTypes, UserAcquire(t, type)
      PROVE  \/ lock' = lock
             \/ \E label : AcquireNew(t, type, label) \/ Reenter(t, type, label)
  BY <1>5 DEF UserAcquire, ReenterFails
<1>6. ASSUME NEW t \in Threads,
             \/ \E create \in BOOLEAN : Get(t, create)
             \/ Publish(t) \/ SetNodeData(t) \/ Remove(t) \/ Load(t) \/ Create(t) \/ Insert(t)
             \/ InitializeFails(t) \/ Unlock(t)
             \/ LockSelf(t) \/ Uncache(t) \/ RemovedMeanwhile(t) \/ Delete(t) \/ DeleteKey(t)
             \/ Release(t) \/ CallThrows(t) \/ QueueMarker(t) \/ UserRelease(t)
      PROVE  lock' = lock \/ lock' = Released(t)
  BY <1>6 DEF Get, Publish, SetNodeData, Remove, Load, Create, Insert, InitializeFails, Unlock,
              LockSelf, Uncache, RemovedMeanwhile, Delete, DeleteKey, Release, CallThrows,
              QueueMarker, UserRelease
<1> QED BY <1>1, <1>2, <1>3, <1>4, <1>5, <1>6 DEF Next, Step

LEMMA ViewOf ==
  ASSUME lock \in LockRecords, NEW t \in Threads, NEW record, lock' = [lock EXCEPT ![t] = record]
  PROVE  View(lock)' = [View(lock) EXCEPT ![t]["CHILD_LOCK"] = record]
<1>1. \A u \in Threads : lock'[u] = IF u = t THEN record ELSE lock[u]
  BY DEF LockRecords
<1> QED BY <1>1 DEF View

LEMMA LockMaps ==
  ASSUME ClientTypes, [Next]_vars
  PROVE  [ParentLock!Next]_(ParentLock!vars)
<1>a. lock \in LockRecords
  BY DEF ClientTypes
<1>b. /\ ParentLock!LockTypes = LockTypes /\ ParentLock!Free = Free
      /\ \A t \in Threads : View(lock)[t]["CHILD_LOCK"] = lock[t]
  BY DEF ParentLock!LockTypes, ParentLock!Free, LockTypes, Free, View
<1>1. CASE lock' = lock
  BY <1>1 DEF ParentLock!vars, View
<1>2. ASSUME NEW t \in Threads, NEW type \in LockTypes, NEW label, AcquireNew(t, type, label)
      PROVE  ParentLock!Next
  <2>1. PICK record : record = [type |-> type, count |-> 1]
    OBVIOUS
  <2>2. /\ lock[t].count = 0 /\ Compatible(t, type)
        /\ View(lock)' = [View(lock) EXCEPT ![t]["CHILD_LOCK"] = record]
    BY <1>a, <1>2, <2>1, ViewOf DEF AcquireNew
  <2>3. ParentLock!Compatible(t, "CHILD_LOCK", type)
    BY <1>b, <2>2 DEF ParentLock!Compatible, Compatible
  <2>4. ParentLock!Acquire(t, "CHILD_LOCK", type)
    BY <1>b, <2>1, <2>2, <2>3 DEF ParentLock!Acquire
  <2> QED BY <1>b, <2>4 DEF ParentLock!Next
<1>3. ASSUME NEW t \in Threads, NEW type, NEW label, Reenter(t, type, label)
      PROVE  ParentLock!Next
  <2>1. PICK record : record = [lock[t] EXCEPT !.count = @ + 1]
    OBVIOUS
  <2>2. lock[t].count > 0 /\ lock' = [lock EXCEPT ![t] = record]
    BY <1>3, <2>1 DEF Reenter
  <2>3. View(lock)' = [View(lock) EXCEPT ![t]["CHILD_LOCK"] = record]
    BY <1>a, <2>2, ViewOf
  <2>4. ParentLock!Reenter(t, "CHILD_LOCK")
    BY <1>b, <2>1, <2>2, <2>3 DEF ParentLock!Reenter, View
  <2> QED BY <2>4 DEF ParentLock!Next
<1>4. ASSUME NEW t \in Threads, lock' = Released(t)
      PROVE  [ParentLock!Next]_(ParentLock!vars)
  <2>1. CASE lock[t].count > 1
    <3>1. PICK record : record = [lock[t] EXCEPT !.count = @ - 1]
      OBVIOUS
    <3>2. lock' = [lock EXCEPT ![t] = record]
      BY <1>4, <2>1, <3>1 DEF Released
    <3>3. View(lock)' = [View(lock) EXCEPT ![t]["CHILD_LOCK"] = record]
      BY <1>a, <3>2, ViewOf
    <3>4. ParentLock!Release(t, "CHILD_LOCK")
      BY <1>b, <2>1, <3>1, <3>3 DEF ParentLock!Release, View
    <3> QED BY <3>4 DEF ParentLock!Next
  <2>2. CASE lock[t].count = 1
    <3>1. lock' = [lock EXCEPT ![t] = Free]
      BY <1>4, <2>2 DEF Released
    <3>2. View(lock)' = [View(lock) EXCEPT ![t]["CHILD_LOCK"] = Free]
      BY <1>a, <3>1, ViewOf
    <3>3. ParentLock!Release(t, "CHILD_LOCK")
      BY <1>b, <2>2, <3>2 DEF ParentLock!Release
    <3> QED BY <3>3 DEF ParentLock!Next
  <2>3. CASE ~(lock[t].count > 1) /\ lock[t].count # 1
    BY <1>1, <1>4, <2>3 DEF Released
  <2> QED BY <2>1, <2>2, <2>3
<1>5. ASSUME NEW p \in Procs, Crash(p) PROVE ParentLock!Next
  <2>1. PICK S \in SUBSET Threads : S = {t \in Threads : ProcOf[t] = p}
    OBVIOUS
  <2>2. \A t \in Threads : lock'[t] = IF t \in S THEN Free ELSE lock[t]
    BY <1>5, <2>1 DEF Crash
  <2>3. View(lock)' = [t \in Threads |-> IF t \in S THEN [l \in {"CHILD_LOCK"} |-> Free]
                                         ELSE View(lock)[t]]
    BY <2>2 DEF View
  <2>4. ParentLock!Forget(S)
    BY <1>b, <2>3 DEF ParentLock!Forget
  <2> QED BY <2>4 DEF ParentLock!Next
<1> QED BY <1>1, <1>2, <1>3, <1>4, <1>5, LockKinds

\* With all that threads, failures and crashes do to it, the lock of the parent is the
\* re-entrant shared and exclusive lock that the recipe of DistributedLocks, too, is
\* proved to be: the two modules meet at AbstractLock.
THEOREM ParentIsLocked == Spec => ParentLock!Spec
<1>1. Init => ParentLock!Init
  BY DEF Init, ParentLock!Init, ParentLock!Free, Free, View
<1>2. LifecycleInv /\ [Next]_vars => [ParentLock!Next]_(ParentLock!vars)
  BY LockMaps DEF LifecycleInv
<1> QED BY <1>1, <1>2, LifecycleCorrect, PTL DEF Spec, ParentLock!Spec
=============================================================================
