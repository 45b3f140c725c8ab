--------------------------- MODULE SessionProofs ----------------------------
(***************************************************************************)
(* Theorems about Session, for any threads, clients and bounds: the type   *)
(* invariant and the end event of the clients, what the adapter knows of   *)
(* its session, that synchronize() sees the changes before its answer, and *)
(* that this answer and the adapter's end event are never lost.            *)
(***************************************************************************)
EXTENDS Session, FiniteSetTheorems, SequenceTheorems, TLAPS

-----------------------------------------------------------------------------
(* Types *)

LEMMA EventTypes ==
  /\ \A kind \in Kinds : E(kind) \in Event
  /\ \A id \in Nat : SyncEvent(id) \in Event
BY DEF E, SyncEvent, Event, Kinds

\* SendAll() keeps the type of the clients.
LEMMA SendAllTypes ==
  ASSUME TypeOK, NEW e \in {"change", "end"}, SendAll(e)
  PROVE  client' \in [Clients -> [pc : ClientPcs, queue : Seq({"change", "end"}),
                                  signalled : BOOLEAN]]
<1>1. ASSUME NEW c \in Clients
      PROVE  [client[c] EXCEPT !.queue = Append(@, e)] \in
               [pc : ClientPcs, queue : Seq({"change", "end"}), signalled : BOOLEAN]
  <2>1. PICK record \in [pc : ClientPcs, queue : Seq({"change", "end"}), signalled : BOOLEAN] :
          record = client[c]
    BY <1>1 DEF TypeOK
  <2>2. Append(record.queue, e) \in Seq({"change", "end"})
    BY <2>1
  <2>3. [record EXCEPT !.queue = Append(record.queue, e)] \in
          [pc : ClientPcs, queue : Seq({"change", "end"}), signalled : BOOLEAN]
    BY <2>2
  <2> QED BY <2>1, <2>3
<1> QED BY <1>1 DEF SendAll, TypeOK

\* An event thread or a remover changes the record of one client.
LEMMA ClientTypes ==
  ASSUME TypeOK, NEW c \in Clients, NEW label \in ClientPcs, NEW b \in BOOLEAN
  PROVE  /\ [client EXCEPT ![c].pc = label] \in
              [Clients -> [pc : ClientPcs, queue : Seq({"change", "end"}), signalled : BOOLEAN]]
         /\ [client EXCEPT ![c].signalled = b] \in
              [Clients -> [pc : ClientPcs, queue : Seq({"change", "end"}), signalled : BOOLEAN]]
         /\ [client EXCEPT ![c] = [NoClient EXCEPT !.pc = label]] \in
              [Clients -> [pc : ClientPcs, queue : Seq({"change", "end"}), signalled : BOOLEAN]]
         /\ client[c].queue # <<>> =>
              [client EXCEPT ![c].pc = label, ![c].queue = Tail(@)] \in
              [Clients -> [pc : ClientPcs, queue : Seq({"change", "end"}), signalled : BOOLEAN]]
<1>1. client \in [Clients -> [pc : ClientPcs, queue : Seq({"change", "end"}), signalled : BOOLEAN]]
  BY DEF TypeOK
<1>2. NoClient \in [pc : ClientPcs, queue : Seq({"change", "end"}), signalled : BOOLEAN]
  BY DEF NoClient, ClientPcs
<1>3. client[c].queue # <<>> => Tail(client[c].queue) \in Seq({"change", "end"})
  BY <1>1
<1>4. [NoClient EXCEPT !.pc = label] \in [pc : ClientPcs, queue : Seq({"change", "end"}), signalled : BOOLEAN]
  BY <1>2
<1> QED BY <1>1, <1>3, <1>4

\* A call changes the record of one caller.
LEMMA CallerTypes ==
  ASSUME TypeOK, NEW t \in Threads, NEW label \in Pcs, NEW n \in Nat
  PROVE  /\ [caller EXCEPT ![t].pc = label] \in [Threads -> [pc : Pcs, id : Nat, told : Nat]]
         /\ [caller EXCEPT ![t].pc = label, ![t].told = n] \in
              [Threads -> [pc : Pcs, id : Nat, told : Nat]]
         /\ [caller EXCEPT ![t] = IdleCall] \in [Threads -> [pc : Pcs, id : Nat, told : Nat]]
         /\ [caller EXCEPT ![t] = [pc |-> label, id |-> n, told |-> 0]] \in
              [Threads -> [pc : Pcs, id : Nat, told : Nat]]
<1>1. caller \in [Threads -> [pc : Pcs, id : Nat, told : Nat]]
  BY DEF TypeOK
<1>2. IdleCall \in [pc : Pcs, id : Nat, told : Nat]
  BY DEF IdleCall, Pcs
<1> QED BY <1>1, <1>2

LEMMA PcTypes ==
  /\ "idle" \in Pcs /\ "verify" \in Pcs /\ "await" \in Pcs /\ "ask" \in Pcs /\ "asked" \in Pcs
  /\ "answered" \in Pcs /\ "waiting" \in Pcs /\ "signalled" \in Pcs
  /\ "none" \in ClientPcs /\ "created" \in ClientPcs /\ "loop" \in ClientPcs
  /\ "take" \in ClientPcs /\ "handling" \in ClientPcs /\ "handlingEnd" \in ClientPcs
  /\ "ended" \in ClientPcs /\ "deleted" \in ClientPcs
BY DEF Pcs, ClientPcs

LEMMA InitTypes == Init => TypeOK
<1> SUFFICES ASSUME Init PROVE TypeOK
  OBVIOUS
<1>1. NoClient \in [pc : ClientPcs, queue : Seq({"change", "end"}), signalled : BOOLEAN]
  BY PcTypes DEF NoClient
<1>2. IdleCall \in [pc : Pcs, id : Nat, told : Nat]
  BY PcTypes DEF IdleCall
<1>3. /\ client \in [Clients -> [pc : ClientPcs, queue : Seq({"change", "end"}), signalled : BOOLEAN]]
      /\ caller \in [Threads -> [pc : Pcs, id : Nat, told : Nat]]
  BY <1>1, <1>2 DEF Init
<1>4. events \in Seq(Event) /\ external \in Seq(Event)
  BY DEF Init
<1>5. clients \subseteq Clients /\ clientsLock \in Users \cup {NoThread} /\ syncId \in Nat
      /\ changes \in Nat /\ dispatched \in Nat /\ faults \in Nat /\ timeouts \in Nat
  BY DEF Init
<1> QED BY <1>3, <1>4, <1>5 DEF Init, TypeOK

\* The threads that call synchronize()
LEMMA CallTypes ==
  ASSUME TypeOK, NEW t \in Threads, Answer(t) \/ Synchronize(t) \/ Call(t) \/ TimeOut(t)
  PROVE  TypeOK'
<1>1. CASE Answer(t)
  <2>1. caller' \in [Threads -> [pc : Pcs, id : Nat, told : Nat]]
    BY <1>1, PcTypes, CallerTypes DEF Answer, TypeOK
  <2> QED BY <1>1, <2>1 DEF Answer, TypeOK, adapterVars, factoryVars, clientVars, boundVars
<1>2. CASE Synchronize(t)
  <2>1. caller' \in [Threads -> [pc : Pcs, id : Nat, told : Nat]] /\ syncId' \in Nat
    <3>1. syncId + 1 \in Nat
      BY DEF TypeOK
    <3> QED BY <1>2, <3>1, PcTypes, CallerTypes DEF Synchronize
  <2> QED BY <1>2, <2>1 DEF Synchronize, TypeOK, adapterVars, factoryVars, clientVars, boundVars
<1>3. CASE Verify(t) \/ Awake(t) \/ TimeOut(t)
  <2>1. caller' \in [Threads -> [pc : Pcs, id : Nat, told : Nat]]
    <3>1. \/ caller' = caller
          \/ caller' = [caller EXCEPT ![t] = IdleCall]
          \/ \E label \in Pcs : caller' = [caller EXCEPT ![t].pc = label]
      BY <1>3, PcTypes DEF Verify, Awake, TimeOut, Throw
    <3>2. caller \in [Threads -> [pc : Pcs, id : Nat, told : Nat]] /\ 0 \in Nat
      BY DEF TypeOK
    <3>3. ASSUME NEW label \in Pcs, caller' = [caller EXCEPT ![t].pc = label]
          PROVE  caller' \in [Threads -> [pc : Pcs, id : Nat, told : Nat]]
      BY <3>2, <3>3, CallerTypes
    <3>4. ASSUME caller' = [caller EXCEPT ![t] = IdleCall]
          PROVE  caller' \in [Threads -> [pc : Pcs, id : Nat, told : Nat]]
      BY <3>2, <3>4, PcTypes, CallerTypes
    <3> QED BY <3>1, <3>2, <3>3, <3>4
  <2>2. /\ session' \in {"connecting", session} /\ state' \in {"CONNECTING", state}
        /\ stateOwner' \in Threads \cup {NoThread} /\ timeouts' \in Nat
        /\ UNCHANGED <<events, adapter, factoryVars, clientVars, syncId, changes, faults, factory>>
    BY <1>3 DEF Verify, Awake, TimeOut, Throw, Reconnect, TypeOK, boundVars
  <2>3. /\ session' \in {"connecting", "connected", "expired", "none"}
        /\ state' \in {"CONNECTING", "CONNECTED", "SESSION_EXPIRED", "DISCONNECTED", "NORECONNECT"}
    BY <2>2 DEF TypeOK
  <2> QED BY <2>1, <2>2, <2>3 DEF TypeOK, factoryVars, clientVars
<1>4. CASE Ask(t) \/ Return(t)
  <2>1. caller' \in [Threads -> [pc : Pcs, id : Nat, told : Nat]]
    <3>1. caller[t] \in [pc : Pcs, id : Nat, told : Nat]
      BY DEF TypeOK
    <3>2. /\ [caller[t] EXCEPT !.pc = "asked"] \in [pc : Pcs, id : Nat, told : Nat]
          /\ IdleCall \in [pc : Pcs, id : Nat, told : Nat]
      BY <3>1, PcTypes DEF IdleCall
    <3> QED BY <1>4, <3>2 DEF Ask, Return, TypeOK
  <2> QED BY <1>4, <2>1 DEF Ask, Return, TypeOK, adapterVars, factoryVars, clientVars, boundVars
<1>5. CASE PutSync(t)
  <2>1. caller' \in [Threads -> [pc : Pcs, id : Nat, told : Nat]]
    BY <1>5, PcTypes, CallerTypes DEF PutSync
  <2>2. events' \in Seq(Event)
    <3>1. SyncEvent(caller[t].id) \in Event
      BY EventTypes DEF TypeOK
    <3> QED BY <1>5, <3>1 DEF PutSync, TypeOK
  <2>3. UNCHANGED <<session, state, stateOwner, adapter, factoryVars, clientVars, syncId,
                    boundVars, factory>>
    BY <1>5 DEF PutSync
  <2> QED BY <2>1, <2>2, <2>3 DEF TypeOK, factoryVars, clientVars, boundVars
<1> QED BY <1>1, <1>2, <1>3, <1>4, <1>5 DEF Call

\* ZooKeeper and the adapter's thread
LEMMA AdapterTypes ==
  ASSUME TypeOK, Connect \/ Lose \/ Expire \/ Change \/ Process
  PROVE  TypeOK'
<1>1. CASE Connect \/ Lose \/ Expire
  <2>1. PICK from, to \in {"connecting", "connected", "expired"} : SessionEvent(from, to)
    BY <1>1 DEF Connect, Lose, Expire
  <2>2. E(to) \in Event
    BY <2>1, EventTypes DEF Kinds
  <2>3. events' \in Seq(Event) /\ session' \in {"connecting", "connected", "expired"}
    BY <2>1, <2>2 DEF SessionEvent, TypeOK
  <2>4. faults' \in Nat
    BY <1>1 DEF Connect, Lose, Expire, TypeOK
  <2> QED BY <2>1, <2>3, <2>4 DEF SessionEvent, TypeOK, factoryVars, clientVars, callVars
<1>2. CASE Change
  <2>1. E("change") \in Event
    BY EventTypes DEF Kinds
  <2>2. events' \in Seq(Event) /\ changes' \in Nat
    BY <1>2, <2>1 DEF Change, TypeOK
  <2> QED BY <1>2, <2>2 DEF Change, TypeOK, factoryVars, clientVars, callVars
<1>3. CASE Process
  <2>1. Head(events) \in Event /\ Tail(events) \in Seq(Event)
    BY <1>3 DEF Process, TypeOK
  <2>2. events' \in Seq(Event) /\ external' \in Seq(Event) /\ adapter' \in BOOLEAN
    BY <1>3, <2>1 DEF Process, TypeOK
  <2>3. state' \in {"CONNECTING", "CONNECTED", "SESSION_EXPIRED", "DISCONNECTED", "NORECONNECT"}
    <3>1. Head(events).kind \in Kinds
      BY <2>1 DEF Event
    <3> QED BY <1>3, <3>1 DEF Process, StateAfter, Kinds, TypeOK
  <2> QED BY <1>3, <2>2, <2>3 DEF Process, TypeOK, clientVars, callVars, boundVars
<1> QED BY <1>1, <1>2, <1>3

\* The external event thread
LEMMA DispatcherTypes ==
  ASSUME TypeOK, Dispatcher
  PROVE  TypeOK'
<1>1. CASE DispatchSession
  <2>1. external' \in Seq(Event) /\ connected' \in BOOLEAN /\ dispatcher' \in {"loop", "end", "ended"}
        /\ factory' \in {"connecting", "running", "joining", "discarding", "disconnected", "deleted"}
    <3>1. external' = Tail(external) /\ external # <<>>
      BY <1>1 DEF DispatchSession
    <3>2. external' \in Seq(Event)
      BY <3>1 DEF TypeOK
    <3>3. connected' \in BOOLEAN /\ dispatcher' \in {"loop", "end", "ended"}
      BY <1>1 DEF DispatchSession, TypeOK
    <3>4. factory' \in {"running", factory}
      BY <1>1, Zenon DEF DispatchSession
    <3> QED BY <3>2, <3>3, <3>4 DEF TypeOK
  <2> QED BY <1>1, <2>1 DEF DispatchSession, TypeOK, adapterVars, clientVars, callVars, boundVars
<1>2. CASE DispatchSync
  <2>1. external' \in Seq(Event)
    BY <1>2 DEF DispatchSync, TypeOK
  <2>2. caller' \in [Threads -> [pc : Pcs, id : Nat, told : Nat]]
    BY <1>2, PcTypes DEF DispatchSync, TypeOK
  <2> QED BY <1>2, <2>1, <2>2 DEF DispatchSync, TypeOK, adapterVars, clientVars, boundVars
<1>3. CASE DispatchChange
  <2>1. external' \in Seq(Event) /\ dispatched' \in Nat
    BY <1>3 DEF DispatchChange, TypeOK
  <2> QED BY <1>3, <2>1, SendAllTypes DEF DispatchChange, TypeOK, adapterVars, callVars, boundVars
<1>4. CASE DispatchEnd
  BY <1>4, SendAllTypes DEF DispatchEnd, TypeOK, adapterVars, callVars, boundVars
<1> QED BY <1>1, <1>2, <1>3, <1>4 DEF Dispatcher

\* The clients' threads and those that create and remove clients
LEMMA ClientStepTypes ==
  ASSUME TypeOK, NEW c \in Clients,
         \/ CreateClient(c) \/ AddClient(c) \/ EventThread(c)
         \/ \E u \in Users : RemoveClient(u, c) \/ Removed(u, c)
         \/ DiscardClient(c) \/ Discarded(c)
  PROVE  TypeOK'
<1>1. client' \in [Clients -> [pc : ClientPcs, queue : Seq({"change", "end"}), signalled : BOOLEAN]]
  <2>1. CASE CreateClient(c) \/ AddClient(c) \/ NoEvent(c)
    <3>1. PICK label \in ClientPcs : client' = [client EXCEPT ![c].pc = label]
      BY <2>1, PcTypes DEF CreateClient, AddClient, NoEvent
    <3> QED BY <3>1, ClientTypes
  <2>2. CASE Look(c)
    <3>1. (IF client[c].signalled THEN "ended" ELSE "take") \in ClientPcs
      BY PcTypes
    <3> QED BY <2>2, <3>1, ClientTypes DEF Look
  <2>3. CASE TakeEvent(c)
    <3>1. (IF Head(client[c].queue) = "end" THEN "handlingEnd" ELSE "handling") \in ClientPcs
      BY PcTypes
    <3> QED BY <2>3, <3>1, ClientTypes DEF TakeEvent
  <2>4. CASE Handled(c)
    <3>1. (IF client[c].pc = "handling" THEN "loop" ELSE "ended") \in ClientPcs
      BY PcTypes
    <3> QED BY <2>4, <3>1, ClientTypes DEF Handled
  <2>5. CASE \E u \in Users : RemoveClient(u, c)
    <3>1. client' = [client EXCEPT ![c].signalled = TRUE]
      BY <2>5 DEF RemoveClient
    <3> QED BY <3>1, PcTypes, ClientTypes
  <2>6. CASE \E u \in Users : Removed(u, c)
    <3>1. client' = [client EXCEPT ![c] = [NoClient EXCEPT !.pc = "deleted"]]
      BY <2>6 DEF Removed
    <3> QED BY <3>1, PcTypes, ClientTypes
  <2>7. CASE DiscardClient(c) \/ Discarded(c)
    <3>1. \/ client' = [client EXCEPT ![c].signalled = TRUE]
          \/ client' = [client EXCEPT ![c] = [NoClient EXCEPT !.pc = "deleted"]]
      BY <2>7 DEF DiscardClient, Discarded
    <3>2. CASE client' = [client EXCEPT ![c].signalled = TRUE]
      BY <3>2, PcTypes, ClientTypes
    <3>3. CASE client' = [client EXCEPT ![c] = [NoClient EXCEPT !.pc = "deleted"]]
      BY <3>3, PcTypes, ClientTypes
    <3> QED BY <3>1, <3>2, <3>3
  <2> QED BY <2>1, <2>2, <2>3, <2>4, <2>5, <2>6, <2>7 DEF EventThread
<1>2. /\ clients' \subseteq Clients /\ clientsLock' \in Users \cup {NoThread}
      /\ UNCHANGED <<adapterVars, factoryVars, callVars, boundVars, factory>>
  BY DEF EventThread, CreateClient, AddClient, Look, NoEvent, TakeEvent, Handled, RemoveClient,
         Removed, DiscardClient, Discarded, TypeOK
<1> QED BY <1>1, <1>2 DEF TypeOK, adapterVars, factoryVars, callVars, boundVars

LEMMA FactoryTypes ==
  ASSUME TypeOK, InjectEndEvent \/ WaitForThreads \/ Disconnect \/ Deleted
  PROVE  TypeOK'
<1>1. E("end") \in Event
  BY EventTypes DEF Kinds
<1>2. events' \in {events, Append(events, E("end"))}
  BY DEF InjectEndEvent, WaitForThreads, Disconnect, Deleted, adapterVars
<1>3. events \in Seq(Event) /\ Append(events, E("end")) \in Seq(Event)
  BY <1>1 DEF TypeOK
<1>4. events' \in Seq(Event)
  BY <1>2, <1>3
<1> QED BY <1>4 DEF InjectEndEvent, WaitForThreads, Disconnect, Deleted, TypeOK, adapterVars,
                    factoryVars, clientVars, callVars, boundVars

LEMMA StepTypes ==
  ASSUME TypeOK, [Next]_vars
  PROVE  TypeOK'
<1>1. CASE UNCHANGED vars
  BY <1>1 DEF vars, TypeOK
<1> QED BY <1>1, CallTypes, AdapterTypes, DispatcherTypes, ClientStepTypes, FactoryTypes
        DEF Next, Destructor

-----------------------------------------------------------------------------
(* The end event of the clients *)

Alive == {"loop", "take", "handling", "handlingEnd", "ended"}

EndInv(c) ==
  /\ client[c].pc \notin Alive => c \notin clients /\ client[c].queue = <<>>
  /\ \A i \in 1 .. Len(client[c].queue) :
       client[c].queue[i] = "end" => i = Len(client[c].queue) /\ dispatcher = "ended"
  /\ client[c].pc = "handlingEnd" => client[c].queue = <<>> /\ dispatcher = "ended"
  /\ client[c].signalled => client[c].pc # "created" /\ client[c].pc # "none"
  /\ client[c].signalled /\ factory \in {"connecting", "running", "joining"} => c \notin clients

\* A client that nobody touches, while the thread of events goes on and ~FactoryOps too
LEMMA OtherClientEnds ==
  ASSUME NEW c \in Clients, EndInv(c), client'[c] = client[c],
         c \in clients' <=> c \in clients,
         dispatcher = "ended" => dispatcher' = "ended",
         factory' \in {"connecting", "running", "joining"} =>
           factory \in {"connecting", "running", "joining"}
  PROVE  EndInv(c)'
BY DEF EndInv

\* A step that tells the clients nothing
LEMMA QuietEnds ==
  ASSUME \A c \in Clients : EndInv(c), UNCHANGED <<client, clients>>,
         dispatcher = "ended" => dispatcher' = "ended",
         factory' \in {"connecting", "running", "joining"} =>
           factory \in {"connecting", "running", "joining"}
  PROVE  \A c \in Clients : EndInv(c)'
BY OtherClientEnds

\* The external event thread tells the clients of an event.
LEMMA SendEnds ==
  ASSUME TypeOK, NEW e \in {"change", "end"}, SendAll(e), UNCHANGED <<clients, factory>>,
         dispatcher # "ended", e = "end" => dispatcher' = "ended",
         NEW c \in Clients, EndInv(c)
  PROVE  EndInv(c)'
<1>1. CASE c \notin clients
  <2>1. client'[c] = client[c]
    BY <1>1 DEF SendAll
  <2> QED BY <2>1 DEF EndInv
<1>2. CASE c \in clients
  <2>1. PICK record \in [pc : ClientPcs, queue : Seq({"change", "end"}), signalled : BOOLEAN] :
          record = client[c]
    BY DEF TypeOK
  <2>2. client'[c] = [record EXCEPT !.queue = Append(record.queue, e)]
    BY <1>2, <2>1 DEF SendAll
  <2>3. /\ client'[c].pc = record.pc /\ client'[c].signalled = record.signalled
        /\ client'[c].queue = Append(record.queue, e)
    BY <2>1, <2>2
  <2>4. record.pc \in Alive /\ record.pc # "handlingEnd"
    BY <1>2, <2>1 DEF EndInv
  <2>5. /\ Len(record.queue) \in Nat /\ Len(Append(record.queue, e)) = Len(record.queue) + 1
        /\ \A i \in 1 .. Len(record.queue) :
             Append(record.queue, e)[i] = record.queue[i] /\ record.queue[i] # "end"
        /\ Append(record.queue, e)[Len(record.queue) + 1] = e
    BY <2>1 DEF EndInv
  <2>6. \A i \in 1 .. Len(client'[c].queue) :
          client'[c].queue[i] = "end" => i = Len(client'[c].queue) /\ dispatcher' = "ended"
    BY <2>3, <2>5
  <2> QED BY <1>2, <2>1, <2>3, <2>4, <2>6 DEF EndInv
<1> QED BY <1>1, <1>2

\* What a client's thread and those that create and remove it do to its record
LEMMA ClientChanges ==
  ASSUME TypeOK, NEW c \in Clients
  PROVE  /\ \A label \in ClientPcs :
              client' = [client EXCEPT ![c].pc = label] =>
                /\ client'[c].pc = label /\ client'[c].queue = client[c].queue
                /\ client'[c].signalled = client[c].signalled
                /\ \A d \in Clients : d # c => client'[d] = client[d]
         /\ client' = [client EXCEPT ![c].signalled = TRUE] =>
              /\ client'[c].pc = client[c].pc /\ client'[c].queue = client[c].queue
              /\ client'[c].signalled
              /\ \A d \in Clients : d # c => client'[d] = client[d]
         /\ client' = [client EXCEPT ![c] = [NoClient EXCEPT !.pc = "deleted"]] =>
              /\ client'[c].pc = "deleted" /\ client'[c].queue = <<>> /\ ~client'[c].signalled
              /\ \A d \in Clients : d # c => client'[d] = client[d]
         /\ \A label \in ClientPcs :
              client' = [client EXCEPT ![c].pc = label, ![c].queue = Tail(@)] =>
                /\ client'[c].pc = label /\ client'[c].queue = Tail(client[c].queue)
                /\ client'[c].signalled = client[c].signalled
                /\ \A d \in Clients : d # c => client'[d] = client[d]
<1>1. PICK record \in [pc : ClientPcs, queue : Seq({"change", "end"}), signalled : BOOLEAN] :
        record = client[c]
  BY DEF TypeOK
<1>2. ASSUME NEW new, client' = [client EXCEPT ![c] = new]
      PROVE  client'[c] = new /\ \A d \in Clients : d # c => client'[d] = client[d]
  BY <1>2 DEF TypeOK
<1>3. ASSUME NEW label \in ClientPcs, client' = [client EXCEPT ![c].pc = label]
      PROVE  /\ client'[c].pc = label /\ client'[c].queue = client[c].queue
             /\ client'[c].signalled = client[c].signalled
             /\ \A d \in Clients : d # c => client'[d] = client[d]
  <2>1. client' = [client EXCEPT ![c] = [record EXCEPT !.pc = label]]
    BY <1>1, <1>3
  <2>2. client'[c] = [record EXCEPT !.pc = label]
    BY <1>2, <2>1
  <2>3. client'[c].pc = label /\ client'[c].queue = record.queue /\ client'[c].signalled = record.signalled
    BY <1>1, <2>2
  <2> QED BY <1>1, <1>2, <2>1, <2>3
<1>4. ASSUME client' = [client EXCEPT ![c].signalled = TRUE]
      PROVE  /\ client'[c].pc = client[c].pc /\ client'[c].queue = client[c].queue
             /\ client'[c].signalled
             /\ \A d \in Clients : d # c => client'[d] = client[d]
  <2>1. client' = [client EXCEPT ![c] = [record EXCEPT !.signalled = TRUE]]
    BY <1>1, <1>4
  <2>2. client'[c] = [record EXCEPT !.signalled = TRUE]
    BY <1>2, <2>1
  <2>3. client'[c].pc = record.pc /\ client'[c].queue = record.queue
    BY <1>1, <2>2
  <2>4. client'[c].signalled = TRUE
    BY <1>1, <2>2, Zenon
  <2> QED BY <1>1, <1>2, <2>1, <2>3, <2>4
<1>5. ASSUME client' = [client EXCEPT ![c] = [NoClient EXCEPT !.pc = "deleted"]]
      PROVE  /\ client'[c].pc = "deleted" /\ client'[c].queue = <<>> /\ ~client'[c].signalled
             /\ \A d \in Clients : d # c => client'[d] = client[d]
  <2>1. client'[c] = [NoClient EXCEPT !.pc = "deleted"]
    BY <1>2, <1>5
  <2>2. PICK fresh \in [pc : ClientPcs, queue : Seq({"change", "end"}), signalled : BOOLEAN] :
          fresh = NoClient
    <3>1. NoClient \in [pc : ClientPcs, queue : Seq({"change", "end"}), signalled : BOOLEAN]
      BY PcTypes DEF NoClient
    <3> QED BY <3>1
  <2>3. fresh.queue = <<>> /\ ~fresh.signalled
    BY <2>2 DEF NoClient
  <2>4. client'[c] = [fresh EXCEPT !.pc = "deleted"]
    BY <2>1, <2>2
  <2>5. client'[c].pc = "deleted" /\ client'[c].queue = <<>> /\ client'[c].signalled = fresh.signalled
    BY <2>2, <2>3, <2>4
  <2> QED BY <1>2, <1>5, <2>3, <2>5
<1>6. ASSUME NEW label \in ClientPcs,
             client' = [client EXCEPT ![c].pc = label, ![c].queue = Tail(@)]
      PROVE  /\ client'[c].pc = label /\ client'[c].queue = Tail(client[c].queue)
             /\ client'[c].signalled = client[c].signalled
             /\ \A d \in Clients : d # c => client'[d] = client[d]
  <2>1. PICK tail : tail = Tail(client[c].queue)
    OBVIOUS
  <2>2. /\ client'[c] = [client[c] EXCEPT !.pc = label, !.queue = tail]
        /\ \A d \in Clients : d # c => client'[d] = client[d]
    BY <1>1, <1>6, <2>1 DEF TypeOK
  <2>3. client'[c] = [record EXCEPT !.pc = label, !.queue = tail]
    BY <1>1, <2>2
  <2>4. client'[c].pc = label /\ client'[c].queue = tail /\ client'[c].signalled = record.signalled
    BY <1>1, <2>3
  <2> QED BY <1>1, <2>1, <2>2, <2>4
<1> QED BY <1>3, <1>4, <1>5, <1>6

LEMMA ClientEnds ==
  ASSUME TypeOK, NEW c \in Clients, \A d \in Clients : EndInv(d),
         \/ CreateClient(c) \/ AddClient(c) \/ EventThread(c)
         \/ \E u \in Users : RemoveClient(u, c) \/ Removed(u, c)
         \/ DiscardClient(c) \/ Discarded(c)
  PROVE  \A d \in Clients : EndInv(d)'
<1>a. UNCHANGED <<dispatcher, factory>>
  BY DEF EventThread, CreateClient, AddClient, Look, NoEvent, TakeEvent, Handled, RemoveClient,
         Removed, DiscardClient, Discarded, factoryVars
<1>b. EndInv(c)
  OBVIOUS
<1>1. EndInv(c)' /\ \A d \in Clients : d # c => client'[d] = client[d] /\ (d \in clients' <=> d \in clients)
  <2>1. CASE CreateClient(c)
    <3>1. /\ client[c].pc = "none" /\ client' = [client EXCEPT ![c].pc = "created"]
          /\ clients' = clients
      BY <2>1 DEF CreateClient
    <3>2. client[c].queue = <<>> /\ c \notin clients /\ ~client[c].signalled
      BY <1>b, <3>1 DEF EndInv, Alive
    <3>3. /\ client'[c].pc = "created" /\ client'[c].queue = <<>> /\ ~client'[c].signalled
          /\ \A d \in Clients : d # c => client'[d] = client[d]
      BY <3>1, <3>2, PcTypes, ClientChanges
    <3> QED BY <1>a, <3>1, <3>2, <3>3 DEF EndInv, Alive
  <2>2. CASE AddClient(c)
    <3>1. /\ client[c].pc = "created" /\ client' = [client EXCEPT ![c].pc = "loop"]
          /\ clients' = clients \cup {c}
      BY <2>2 DEF AddClient
    <3>2. client[c].queue = <<>> /\ ~client[c].signalled
      BY <1>b, <3>1 DEF EndInv, Alive
    <3>3. /\ client'[c].pc = "loop" /\ client'[c].queue = <<>> /\ ~client'[c].signalled
          /\ \A d \in Clients : d # c => client'[d] = client[d]
      BY <3>1, <3>2, PcTypes, ClientChanges
    <3> QED BY <1>a, <3>1, <3>3 DEF EndInv, Alive
  <2>3. CASE Look(c) \/ NoEvent(c) \/ Handled(c)
    <3>1. PICK label \in {"loop", "take", "ended"} :
            /\ client' = [client EXCEPT ![c].pc = label] /\ clients' = clients
            /\ client[c].pc \in {"loop", "take", "handling", "handlingEnd"}
      BY <2>3 DEF Look, NoEvent, Handled
    <3>2. label \in ClientPcs
      BY PcTypes
    <3>3. /\ client'[c].pc = label /\ client'[c].queue = client[c].queue
          /\ client'[c].signalled = client[c].signalled
          /\ \A d \in Clients : d # c => client'[d] = client[d]
      BY <3>1, <3>2, ClientChanges
    <3> QED BY <1>a, <1>b, <3>1, <3>3 DEF EndInv, Alive
  <2>4. CASE TakeEvent(c)
    <3>1. PICK label \in {"handling", "handlingEnd"} :
            /\ client' = [client EXCEPT ![c].pc = label, ![c].queue = Tail(@)]
            /\ clients' = clients /\ client[c].pc = "take" /\ client[c].queue # <<>>
            /\ label = "handlingEnd" => Head(client[c].queue) = "end"
      BY <2>4 DEF TakeEvent
    <3>2. label \in ClientPcs
      BY PcTypes
    <3>3. /\ client'[c].pc = label /\ client'[c].queue = Tail(client[c].queue)
          /\ client'[c].signalled = client[c].signalled
          /\ \A d \in Clients : d # c => client'[d] = client[d]
      BY <3>1, <3>2, ClientChanges
    <3>4. PICK queue \in Seq({"change", "end"}) : queue = client[c].queue
      BY DEF TypeOK
    <3>5. /\ Len(queue) \in Nat /\ Len(queue) > 0 /\ Len(Tail(queue)) = Len(queue) - 1
          /\ \A i \in 1 .. Len(Tail(queue)) : Tail(queue)[i] = queue[i + 1] /\ i + 1 \in 1 .. Len(queue)
          /\ Head(queue) = queue[1]
      BY <3>1, <3>4
    <3>6. \A i \in 1 .. Len(queue) : queue[i] = "end" => i = Len(queue) /\ dispatcher = "ended"
      BY <1>b, <3>4 DEF EndInv
    <3>7. \A i \in 1 .. Len(Tail(queue)) :
            Tail(queue)[i] = "end" => i = Len(Tail(queue)) /\ dispatcher = "ended"
      BY <3>5, <3>6
    <3>8. label = "handlingEnd" => Tail(queue) = <<>> /\ dispatcher = "ended"
      <4>1. SUFFICES ASSUME label = "handlingEnd" PROVE Tail(queue) = <<>> /\ dispatcher = "ended"
        OBVIOUS
      <4>2. queue[1] = "end" /\ 1 \in 1 .. Len(queue)
        BY <3>1, <3>4, <3>5, <4>1
      <4>3. Len(queue) = 1 /\ dispatcher = "ended"
        BY <3>6, <4>2
      <4>4. Tail(queue) \in Seq({"change", "end"}) /\ Len(Tail(queue)) = 0
        BY <3>1, <3>4, <3>5, <4>3
      <4>5. PICK tail \in Seq({"change", "end"}) : tail = Tail(queue)
        BY <4>4
      <4>6. tail = <<>>
        BY <4>4, <4>5, EmptySeq
      <4> QED BY <4>3, <4>5, <4>6
    <3> QED BY <1>a, <1>b, <3>1, <3>3, <3>4, <3>7, <3>8 DEF EndInv, Alive
  <2>5. CASE \E u \in Users : RemoveClient(u, c)
    <3>1. /\ client' = [client EXCEPT ![c].signalled = TRUE] /\ c \in clients
          /\ clients' = clients \ {c}
      BY <2>5 DEF RemoveClient
    <3>2. client[c].pc \in Alive
      BY <1>b, <3>1 DEF EndInv
    <3> QED BY <1>a, <1>b, <3>1, <3>2, ClientChanges DEF EndInv, Alive
  <2>6. CASE \E u \in Users : Removed(u, c)
    <3>1. /\ client' = [client EXCEPT ![c] = [NoClient EXCEPT !.pc = "deleted"]]
          /\ clients' = clients /\ client[c].signalled /\ factory = "running"
      BY <2>6 DEF Removed
    <3>2. c \notin clients
      BY <1>b, <3>1 DEF EndInv
    <3>3. /\ client'[c].pc = "deleted" /\ client'[c].queue = <<>> /\ ~client'[c].signalled
          /\ \A d \in Clients : d # c => client'[d] = client[d]
      BY <3>1, ClientChanges
    <3> QED BY <1>a, <3>1, <3>2, <3>3 DEF EndInv, Alive
  <2>7. CASE DiscardClient(c)
    <3>1. /\ client' = [client EXCEPT ![c].signalled = TRUE] /\ c \in clients
          /\ clients' = clients /\ factory = "discarding"
      BY <2>7 DEF DiscardClient
    <3>2. client[c].pc \in Alive
      BY <1>b, <3>1 DEF EndInv
    <3> QED BY <1>a, <1>b, <3>1, <3>2, ClientChanges DEF EndInv, Alive
  <2>8. CASE Discarded(c)
    <3>1. /\ client' = [client EXCEPT ![c] = [NoClient EXCEPT !.pc = "deleted"]]
          /\ clients' = clients \ {c}
      BY <2>8 DEF Discarded
    <3>2. /\ client'[c].pc = "deleted" /\ client'[c].queue = <<>> /\ ~client'[c].signalled
          /\ \A d \in Clients : d # c => client'[d] = client[d]
      BY <3>1, ClientChanges
    <3> QED BY <1>a, <3>1, <3>2 DEF EndInv, Alive
  <2> QED BY <2>1, <2>2, <2>3, <2>4, <2>5, <2>6, <2>7, <2>8 DEF EventThread
<1>2. ASSUME NEW d \in Clients, d # c PROVE EndInv(d)'
  BY <1>a, <1>1, <1>2, OtherClientEnds
<1> QED BY <1>1, <1>2

LEMMA StepEnds ==
  ASSUME TypeOK, \A c \in Clients : EndInv(c), [Next]_vars
  PROVE  \A c \in Clients : EndInv(c)'
<1>1. CASE UNCHANGED vars
  BY <1>1, QuietEnds DEF vars
<1>2. CASE \/ Connect \/ Lose \/ Expire \/ Change \/ Process
           \/ \E t \in Threads : Answer(t) \/ Synchronize(t) \/ Call(t) \/ TimeOut(t)
  <2>1. UNCHANGED <<client, clients, dispatcher, factory>>
    BY <1>2 DEF Connect, Lose, Expire, SessionEvent, Change, Process, Answer, Synchronize, Call,
                Verify, Awake, Ask, PutSync, Return, TimeOut, factoryVars, clientVars
  <2> QED BY <2>1, QuietEnds
<1>3. CASE InjectEndEvent \/ WaitForThreads \/ Disconnect \/ Deleted \/ DispatchSync
  <2>1. /\ UNCHANGED <<client, clients, dispatcher>>
        /\ \/ factory' = factory
           \/ factory = "running" /\ factory' = "joining"
           \/ factory' \in {"discarding", "disconnected", "deleted"}
    BY <1>3 DEF InjectEndEvent, WaitForThreads, Disconnect, Deleted, DispatchSync, factoryVars,
                clientVars
  <2> QED BY <2>1, QuietEnds
<1>4. CASE DispatchSession
  <2>1. /\ UNCHANGED <<client, clients>> /\ dispatcher = "loop"
        /\ \/ factory' = factory
           \/ factory = "connecting" /\ factory' = "running"
    BY <1>4, Zenon DEF DispatchSession, clientVars
  <2> QED BY <2>1, QuietEnds
<1>5. CASE DispatchChange
  <2>1. SendAll("change") /\ UNCHANGED <<clients, factory, dispatcher>> /\ dispatcher = "loop"
    BY <1>5 DEF DispatchChange
  <2> QED BY <2>1, SendEnds
<1>6. CASE DispatchEnd
  <2>1. SendAll("end") /\ UNCHANGED <<clients, factory>> /\ dispatcher = "end" /\ dispatcher' = "ended"
    BY <1>6 DEF DispatchEnd
  <2> QED BY <2>1, SendEnds
<1> QED BY <1>1, <1>2, <1>3, <1>4, <1>5, <1>6, ClientEnds DEF Next, Dispatcher, Destructor

\* A client's queue ends with its end event, with any number of clients created and
\* removed while the session ends and ~FactoryOps runs.
THEOREM EndEventIsLast == Spec => []EndIsLast
<1>1. Init => TypeOK /\ \A c \in Clients : EndInv(c)
  <2> SUFFICES ASSUME Init, NEW c \in Clients PROVE EndInv(c)
    BY InitTypes
  <2>1. /\ client[c].pc = "none" /\ client[c].queue = <<>> /\ ~client[c].signalled
        /\ clients = {}
    BY DEF Init, NoClient
  <2> QED BY <2>1 DEF EndInv, Alive
<1>2. TypeOK /\ (\A c \in Clients : EndInv(c)) /\ [Next]_vars
        => (TypeOK /\ \A c \in Clients : EndInv(c))'
  BY StepTypes, StepEnds
<1>3. TypeOK /\ (\A c \in Clients : EndInv(c)) => EndIsLast
  BY DEF EndInv, EndIsLast, Alive
<1> QED BY <1>1, <1>2, <1>3, PTL DEF Spec

-----------------------------------------------------------------------------
(* Who may call synchronize(), and that nobody does after disconnect() *)

Gone == factory \in {"disconnected", "deleted"}
Leaving(c) == client[c].pc \in Alive /\ c \notin clients

RemoverInv ==
  /\ clientsLock # NoThread => factory = "running"
  /\ \A c \in Clients : Leaving(c) => clientsLock # NoThread
  /\ \A c, d \in Clients : Leaving(c) /\ Leaving(d) => c = d
  /\ \A c \in Clients : client[c].pc = "created" => factory = "running"
  /\ Gone => clients = {}

CallInv ==
  /\ \A u \in Users : caller[u].pc # "idle" => factory = "running"
  /\ \A c \in Clients : caller[c].pc # "idle" => client[c].pc = "handling"

LEMMA NobodyCalls ==
  ASSUME RemoverInv, CallInv, Gone, NEW t \in Threads
  PROVE  caller[t].pc = "idle"
<1>1. factory # "running" /\ clientsLock = NoThread /\ clients = {}
  BY DEF RemoverInv, Gone
<1>2. CASE t \in Users
  BY <1>1, <1>2 DEF CallInv
<1>3. CASE t \in Clients
  <2>1. client[t].pc \notin Alive
    BY <1>1, <1>3 DEF RemoverInv, Leaving
  <2> QED BY <1>3, <2>1 DEF CallInv, Alive
<1> QED BY <1>2, <1>3 DEF Threads

\* What a thread's own step does to where it is in synchronize()
LEMMA CallChanges ==
  ASSUME TypeOK, NEW t \in Threads, Answer(t) \/ Synchronize(t) \/ Call(t) \/ TimeOut(t)
  PROVE  /\ \A u \in Threads : u # t => caller'[u] = caller[u]
         /\ caller[t].pc = "idle" => MayCall(t)
         /\ UNCHANGED <<factory, client, clients, clientsLock, external, dispatched, dispatcher,
                        changes>>
<1>1. caller \in [Threads -> [pc : Pcs, id : Nat, told : Nat]]
  BY DEF TypeOK
<1>2. \A u \in Threads : u # t => caller'[u] = caller[u]
  BY <1>1 DEF Answer, Synchronize, Call, Verify, Awake, Ask, PutSync, Return, TimeOut, Throw
<1>3. caller[t].pc = "idle" => MayCall(t)
  BY DEF Answer, Synchronize, Call, Verify, Awake, Ask, PutSync, Return, TimeOut
<1>4. UNCHANGED <<factory, client, clients, clientsLock, external, dispatched, dispatcher, changes>>
  BY DEF Answer, Synchronize, Call, Verify, Awake, Ask, PutSync, Return, TimeOut, factoryVars,
         clientVars, boundVars
<1> QED BY <1>2, <1>3, <1>4

LEMMA CallCalls ==
  ASSUME TypeOK, RemoverInv, CallInv, NEW t \in Threads,
         Answer(t) \/ Synchronize(t) \/ Call(t) \/ TimeOut(t)
  PROVE  RemoverInv' /\ CallInv'
<1>1. /\ \A u \in Threads : u # t => caller'[u] = caller[u]
      /\ caller[t].pc = "idle" => MayCall(t)
      /\ UNCHANGED <<factory, client, clients, clientsLock>>
  BY CallChanges
<1>2. RemoverInv'
  BY <1>1 DEF RemoverInv, Leaving, Gone
<1>3. CallInv'
  BY <1>1, SessionAssumption DEF CallInv, MayCall, Threads
<1> QED BY <1>2, <1>3

\* A step of a client's thread, or of one that creates or removes the client
LEMMA ClientCalls ==
  ASSUME TypeOK, RemoverInv, CallInv, NEW c \in Clients, EndInv(c),
         \/ CreateClient(c) \/ AddClient(c) \/ EventThread(c)
         \/ \E u \in Users : RemoveClient(u, c) \/ Removed(u, c)
         \/ DiscardClient(c) \/ Discarded(c)
  PROVE  RemoverInv' /\ CallInv'
<1>a. UNCHANGED <<factory, caller>>
  BY DEF EventThread, CreateClient, AddClient, Look, NoEvent, TakeEvent, Handled, RemoveClient,
         Removed, DiscardClient, Discarded, callVars
<1>1. CASE CreateClient(c)
  <2>1. /\ factory = "running" /\ client' = [client EXCEPT ![c].pc = "created"]
        /\ UNCHANGED <<clients, clientsLock>> /\ client[c].pc = "none"
    BY <1>1 DEF CreateClient
  <2>2. client'[c].pc = "created" /\ \A d \in Clients : d # c => client'[d] = client[d]
    BY <2>1, PcTypes, ClientChanges
  <2>3. RemoverInv'
    BY <1>a, <2>1, <2>2 DEF RemoverInv, Leaving, Gone, Alive
  <2> QED BY <1>a, <2>1, <2>2, <2>3 DEF CallInv
<1>2. CASE AddClient(c)
  <2>1. /\ client[c].pc = "created" /\ client' = [client EXCEPT ![c].pc = "loop"]
        /\ clients' = clients \cup {c} /\ clientsLock' = clientsLock
    BY <1>2 DEF AddClient
  <2>2. client'[c].pc = "loop" /\ \A d \in Clients : d # c => client'[d] = client[d]
    BY <2>1, PcTypes, ClientChanges
  <2>3. RemoverInv'
    BY <1>a, <2>1, <2>2 DEF RemoverInv, Leaving, Gone, Alive
  <2> QED BY <1>a, <2>1, <2>2, <2>3 DEF CallInv
<1>3. CASE EventThread(c)
  <2>1. /\ UNCHANGED <<clients, clientsLock>> /\ client[c].pc \in Alive
        /\ client[c].pc = "handling" => caller[c].pc = "idle"
    BY <1>3 DEF EventThread, Look, NoEvent, TakeEvent, Handled, Alive
  <2>2. client'[c].pc \in Alive /\ \A d \in Clients : d # c => client'[d] = client[d]
    <3>1. CASE TakeEvent(c)
      <4>1. PICK label \in {"handling", "handlingEnd"} :
              client' = [client EXCEPT ![c].pc = label, ![c].queue = Tail(@)]
        BY <3>1 DEF TakeEvent
      <4> QED BY <4>1, PcTypes, ClientChanges DEF Alive
    <3>2. CASE Look(c) \/ NoEvent(c) \/ Handled(c)
      <4>1. PICK label \in {"loop", "take", "ended"} : client' = [client EXCEPT ![c].pc = label]
        BY <3>2 DEF Look, NoEvent, Handled
      <4> QED BY <4>1, PcTypes, ClientChanges DEF Alive
    <3> QED BY <1>3, <3>1, <3>2 DEF EventThread
  <2>3. RemoverInv'
    BY <1>a, <2>1, <2>2 DEF RemoverInv, Leaving, Gone, Alive
  <2>4. CallInv'
    BY <1>a, <2>1, <2>2 DEF CallInv
  <2> QED BY <2>3, <2>4
<1>4. CASE \E u \in Users : RemoveClient(u, c)
  <2>1. PICK u \in Users :
          /\ factory = "running" /\ c \in clients /\ clientsLock = NoThread /\ clientsLock' = u
          /\ clients' = clients \ {c} /\ client' = [client EXCEPT ![c].signalled = TRUE]
    BY <1>4 DEF RemoveClient
  <2>2. client'[c].pc = client[c].pc /\ \A d \in Clients : d # c => client'[d] = client[d]
    BY <2>1, ClientChanges
  <2>3. u # NoThread
    BY SessionAssumption
  <2>4. \A d \in Clients : ~Leaving(d)
    BY <2>1 DEF RemoverInv
  <2>5. \A d \in Clients : Leaving(d)' => d = c
    BY <2>1, <2>2, <2>4 DEF Leaving
  <2>6. RemoverInv'
    BY <1>a, <2>1, <2>2, <2>3, <2>5 DEF RemoverInv, Gone
  <2>7. CallInv'
    BY <1>a, <2>2 DEF CallInv
  <2> QED BY <2>6, <2>7
<1>5. CASE \E u \in Users : Removed(u, c)
  <2>1. /\ factory = "running" /\ client[c].signalled /\ client[c].pc = "ended"
        /\ clientsLock' = NoThread /\ clients' = clients
        /\ client' = [client EXCEPT ![c] = [NoClient EXCEPT !.pc = "deleted"]]
    BY <1>5 DEF Removed
  <2>2. client'[c].pc = "deleted" /\ \A d \in Clients : d # c => client'[d] = client[d]
    BY <2>1, ClientChanges
  <2>3. Leaving(c)
    BY <2>1 DEF EndInv, Leaving, Alive
  <2>4. \A d \in Clients : ~Leaving(d)'
    BY <2>1, <2>2, <2>3 DEF RemoverInv, Leaving, Alive
  <2>5. RemoverInv'
    BY <1>a, <2>1, <2>2, <2>4 DEF RemoverInv, Gone
  <2>6. caller[c].pc = "idle"
    BY <2>1 DEF CallInv
  <2>7. CallInv'
    BY <1>a, <2>2, <2>6 DEF CallInv
  <2> QED BY <2>5, <2>7
<1>6. CASE DiscardClient(c)
  <2>1. UNCHANGED <<clients, clientsLock>> /\ client' = [client EXCEPT ![c].signalled = TRUE]
    BY <1>6 DEF DiscardClient
  <2>2. client'[c].pc = client[c].pc /\ \A d \in Clients : d # c => client'[d] = client[d]
    BY <2>1, ClientChanges
  <2>3. \A d \in Clients : client'[d].pc = client[d].pc
    BY <2>2
  <2>4. RemoverInv'
    BY <1>a, <2>1, <2>3 DEF RemoverInv, Leaving, Gone
  <2> QED BY <1>a, <2>3, <2>4 DEF CallInv
<1>7. CASE Discarded(c)
  <2>1. /\ client[c].pc = "ended" /\ clientsLock' = clientsLock /\ clients' = clients \ {c}
        /\ client' = [client EXCEPT ![c] = [NoClient EXCEPT !.pc = "deleted"]]
    BY <1>7 DEF Discarded
  <2>2. client'[c].pc = "deleted" /\ \A d \in Clients : d # c => client'[d] = client[d]
    BY <2>1, ClientChanges
  <2>3. \A d \in Clients : Leaving(d)' => Leaving(d)
    BY <2>1, <2>2 DEF Leaving, Alive
  <2>4. RemoverInv'
    BY <1>a, <2>1, <2>2, <2>3 DEF RemoverInv, Gone
  <2>5. caller[c].pc = "idle"
    BY <2>1 DEF CallInv
  <2>6. CallInv'
    BY <1>a, <2>2, <2>5 DEF CallInv
  <2> QED BY <2>4, <2>6
<1> QED BY <1>1, <1>2, <1>3, <1>4, <1>5, <1>6, <1>7

\* An event that a client is sent leaves it where it is.
LEMMA SendChanges ==
  ASSUME TypeOK, NEW e, SendAll(e), NEW c \in Clients
  PROVE  client'[c].pc = client[c].pc
BY DEF SendAll, TypeOK

LEMMA StepCalls ==
  ASSUME TypeOK, \A c \in Clients : EndInv(c), RemoverInv, CallInv, [Next]_vars
  PROVE  RemoverInv' /\ CallInv'
<1>a. ASSUME UNCHANGED <<factory, clients, clientsLock, caller>>,
             \A c \in Clients : client'[c].pc = client[c].pc
      PROVE  RemoverInv' /\ CallInv'
  BY <1>a DEF RemoverInv, CallInv, Leaving, Gone
<1>1. CASE UNCHANGED vars
  BY <1>1, <1>a DEF vars
<1>2. CASE Connect \/ Lose \/ Expire \/ Change \/ Process
  BY <1>2, <1>a DEF Connect, Lose, Expire, SessionEvent, Change, Process, callVars, clientVars
<1>3. CASE DispatchChange \/ DispatchEnd
  <2>1. UNCHANGED <<factory, clients, clientsLock, caller>> /\ \E e : SendAll(e)
    BY <1>3 DEF DispatchChange, DispatchEnd, callVars
  <2> QED BY <2>1, <1>a, SendChanges
<1>4. CASE DispatchSync
  <2>1. UNCHANGED <<factory, client, clients, clientsLock>>
    BY <1>4 DEF DispatchSync, clientVars
  <2>2. \A t \in Threads : caller'[t].pc = "idle" <=> caller[t].pc = "idle"
    BY <1>4 DEF DispatchSync, TypeOK
  <2>3. RemoverInv'
    BY <2>1 DEF RemoverInv, Leaving, Gone
  <2>4. CallInv'
    BY <2>1, <2>2 DEF CallInv, Threads
  <2> QED BY <2>3, <2>4
<1>5. CASE DispatchSession
  <2>1. /\ UNCHANGED <<client, clients, clientsLock, caller>>
        /\ \/ factory' = factory
           \/ factory = "connecting" /\ factory' = "running"
    BY <1>5, Zenon DEF DispatchSession, clientVars, callVars
  <2>2. RemoverInv'
    BY <2>1 DEF RemoverInv, Leaving, Gone
  <2>3. CallInv'
    BY <2>1 DEF CallInv
  <2> QED BY <2>2, <2>3
<1>6. CASE InjectEndEvent
  <2>1. /\ UNCHANGED <<client, clients, clientsLock, caller>> /\ factory' = "joining"
        /\ \A u \in Users : caller[u].pc = "idle" /\ clientsLock # u
        /\ \A c \in Clients : client[c].pc # "created"
    BY <1>6 DEF InjectEndEvent, UsersDone, clientVars, callVars
  <2>2. clientsLock = NoThread
    BY <2>1 DEF TypeOK
  <2>3. RemoverInv'
    BY <2>1, <2>2 DEF RemoverInv, Leaving, Gone
  <2>4. CallInv'
    BY <2>1 DEF CallInv
  <2> QED BY <2>3, <2>4
<1>7. CASE WaitForThreads \/ Disconnect \/ Deleted
  <2>1. /\ UNCHANGED <<client, clients, clientsLock, caller>> /\ factory # "running"
        /\ Gone' => clients = {}
    BY <1>7 DEF WaitForThreads, Disconnect, Deleted, clientVars, callVars, RemoverInv, Gone
  <2>2. RemoverInv'
    BY <2>1 DEF RemoverInv, Leaving
  <2>3. CallInv'
    BY <2>1 DEF CallInv
  <2> QED BY <2>2, <2>3
<1> QED BY <1>1, <1>2, <1>3, <1>4, <1>5, <1>6, <1>7, CallCalls, ClientCalls
        DEF Next, Dispatcher, Destructor

LEMMA InitCalls == Init => RemoverInv /\ CallInv
<1> SUFFICES ASSUME Init PROVE RemoverInv /\ CallInv
  OBVIOUS
<1>1. /\ \A c \in Clients : client[c].pc = "none"
      /\ \A t \in Threads : caller[t].pc = "idle"
  BY DEF Init, NoClient, IdleCall
<1> QED BY <1>1 DEF Init, RemoverInv, CallInv, Leaving, Alive, Gone, Threads

-----------------------------------------------------------------------------
(* What the adapter knows of its session *)

Positions(s) == 1 .. Len(s)

LEMMA AppendKeeps ==
  ASSUME NEW s \in Seq(Event), NEW e \in Event
  PROVE  /\ Append(s, e) \in Seq(Event) /\ Len(s) \in Nat /\ Len(Append(s, e)) = Len(s) + 1
         /\ Positions(Append(s, e)) = Positions(s) \cup {Len(s) + 1}
         /\ \A i \in Positions(s) : Append(s, e)[i] = s[i] /\ i < Len(s) + 1 /\ i \in Nat
         /\ Append(s, e)[Len(s) + 1] = e
BY DEF Positions

LEMMA TailKeeps ==
  ASSUME NEW s \in Seq(Event), s # <<>>
  PROVE  /\ Tail(s) \in Seq(Event) /\ Len(s) \in Nat /\ Len(Tail(s)) = Len(s) - 1
         /\ \A i \in Positions(Tail(s)) : Tail(s)[i] = s[i + 1] /\ i + 1 \in Positions(s)
         /\ \A i \in Positions(s) : i # 1 => i - 1 \in Positions(Tail(s)) /\ Tail(s)[i - 1] = s[i]
         /\ Head(s) = s[1] /\ 1 \in Positions(s) /\ Head(s) \in Event
BY DEF Positions

\* An expired session is told of once, and by then it is over; the state of a session
\* that is connected is CONNECTED, or will be when the events so far are handled.
ExpiredInv ==
  /\ \A i \in Positions(events) : events[i].kind = "expired" => session \in {"expired", "none"}
  /\ state = "SESSION_EXPIRED" => session \in {"expired", "none"}
  /\ \A i, j \in Positions(events) :
       events[i].kind = "expired" /\ events[j].kind = "expired" => i = j
  /\ session = "expired" /\ state = "SESSION_EXPIRED" =>
       \A i \in Positions(events) : events[i].kind # "expired"

ConnectedInv ==
  session = "connected" =>
    /\ \A i \in Positions(events) : events[i].kind \in {"connecting", "expired"} =>
         \E j \in Positions(events) : j > i /\ events[j].kind = "connected"
    /\ state # "CONNECTED" => \E j \in Positions(events) : events[j].kind = "connected"

KnowInv == ExpiredInv /\ ConnectedInv /\ (session = "none" => Gone)

\* A step that is not about the session
LEMMA OtherKnows ==
  ASSUME KnowInv, UNCHANGED <<session, state, events>>, Gone => Gone'
  PROVE  KnowInv'
BY DEF KnowInv, ExpiredInv, ConnectedInv

\* The events about the session are those there were, where they were.
LEMMA SameKnows ==
  ASSUME ExpiredInv, ConnectedInv, UNCHANGED <<session, state>>,
         \A i \in Positions(events') :
           events'[i].kind \in {"connecting", "connected", "expired"} =>
             i \in Positions(events) /\ events[i].kind = events'[i].kind,
         \A i \in Positions(events) : i \in Positions(events') /\ events'[i] = events[i]
  PROVE  ExpiredInv' /\ ConnectedInv'
<1>1. ExpiredInv'
  BY DEF ExpiredInv
<1>2. ConnectedInv'
  <2>1. ASSUME session = "connected", NEW i \in Positions(events'),
               events'[i].kind \in {"connecting", "expired"}
        PROVE  \E j \in Positions(events') : j > i /\ events'[j].kind = "connected"
    BY <2>1 DEF ConnectedInv
  <2>2. session = "connected" /\ state # "CONNECTED" =>
          \E j \in Positions(events') : events'[j].kind = "connected"
    BY DEF ConnectedInv
  <2> QED BY <2>1, <2>2 DEF ConnectedInv
<1> QED BY <1>1, <1>2

\* An event that is not about the session is put behind the others.
LEMMA OtherEventKnows ==
  ASSUME TypeOK, KnowInv, NEW e \in Event, events' = Append(events, e),
         e.kind \in {"end", "change", "sync"}, UNCHANGED <<session, state>>, Gone => Gone'
  PROVE  KnowInv'
<1>1. PICK s \in Seq(Event) : s = events
  BY DEF TypeOK
<1>2. PICK n \in Nat : n = Len(s) + 1
  OBVIOUS
<1>3. PICK later \in Seq(Event) : later = Append(s, e)
  BY AppendKeeps
<1>4. later = events'
  BY <1>1, <1>3
<1>5. /\ Positions(later) = Positions(s) \cup {n} /\ later[n] = e
      /\ \A i \in Positions(s) : later[i] = s[i]
  BY <1>2, <1>3, AppendKeeps
<1>6. \A i \in Positions(later) :
        later[i].kind \in {"connecting", "connected", "expired"} =>
          i \in Positions(s) /\ s[i].kind = later[i].kind
  BY <1>5
<1>7. \A i \in Positions(s) : i \in Positions(later) /\ later[i] = s[i]
  BY <1>5
<1>8. /\ \A i \in Positions(events') :
           events'[i].kind \in {"connecting", "connected", "expired"} =>
             i \in Positions(events) /\ events[i].kind = events'[i].kind
      /\ \A i \in Positions(events) : i \in Positions(events') /\ events'[i] = events[i]
  BY <1>1, <1>4, <1>6, <1>7, Zenon
<1>9. ExpiredInv' /\ ConnectedInv'
  BY <1>8, SameKnows DEF KnowInv
<1> QED BY <1>9 DEF KnowInv

\* ZooKeeper tells of a new state of the session.
LEMMA SessionEventKnows ==
  ASSUME TypeOK, KnowInv, Connect \/ Lose \/ Expire
  PROVE  KnowInv'
<1>1. PICK from \in {"connecting", "connected"}, to \in {"connecting", "connected", "expired"} :
        SessionEvent(from, to)
  BY DEF Connect, Lose, Expire
<1>2. PICK e \in Event : e = E(to)
  BY EventTypes DEF Kinds
<1>3. e.kind = to
  BY <1>2 DEF E
<1>4. /\ events' = Append(events, e) /\ session = from /\ session' = to
      /\ state' = state /\ factory' = factory
  BY <1>1, <1>2 DEF SessionEvent
<1>5. PICK s \in Seq(Event) : s = events
  BY DEF TypeOK
<1>6. PICK n \in Nat : n = Len(s) + 1
  OBVIOUS
<1>a. PICK later \in Seq(Event) : later = Append(s, e)
  BY AppendKeeps
<1>7. later = events'
  BY <1>4, <1>5, <1>a
<1>8. /\ Positions(later) = Positions(s) \cup {n} /\ later[n] = e
      /\ \A i \in Positions(s) : later[i] = s[i] /\ n > i
  BY <1>6, <1>a, AppendKeeps
<1>9. state # "SESSION_EXPIRED" /\ \A i \in Positions(s) : s[i].kind # "expired"
  BY <1>4, <1>5 DEF KnowInv, ExpiredInv
<1>10. ExpiredInv'
  BY <1>3, <1>4, <1>7, <1>8, <1>9 DEF ExpiredInv
<1>11. ConnectedInv'
  <2>1. SUFFICES ASSUME to = "connected" PROVE ConnectedInv'
    BY <1>4 DEF ConnectedInv
  <2>2. \A i \in Positions(later) : later[i].kind \in {"connecting", "expired"} => n > i
    BY <1>3, <1>8, <2>1
  <2>3. n \in Positions(later) /\ later[n].kind = "connected"
    BY <1>3, <1>8, <2>1
  <2> QED BY <1>7, <2>2, <2>3 DEF ConnectedInv
<1>12. session' # "none"
  BY <1>4
<1> QED BY <1>10, <1>11, <1>12 DEF KnowInv

\* processEvents() handles the first event.
LEMMA ProcessKnows ==
  ASSUME TypeOK, KnowInv, Process
  PROVE  KnowInv'
<1>1. PICK s \in Seq(Event) : s = events
  BY DEF TypeOK
<1>2. /\ s # <<>> /\ events' = Tail(s) /\ state' = StateAfter(s[1])
      /\ UNCHANGED <<session, factory>>
  BY <1>1, TailKeeps DEF Process
<1>3. PICK later \in Seq(Event) : later = events'
  BY <1>2, TailKeeps
<1>4. /\ \A i \in Positions(later) : later[i] = s[i + 1] /\ i + 1 \in Positions(s) /\ i \in Nat
      /\ \A i \in Positions(s) : i # 1 => i - 1 \in Positions(later) /\ later[i - 1] = s[i]
      /\ \A i \in Positions(s) : i \in Nat /\ i >= 1
      /\ 1 \in Positions(s) /\ s[1] \in Event
  BY <1>2, <1>3, TailKeeps DEF Positions
<1>5. /\ s[1].kind \in Kinds
      /\ state' = "SESSION_EXPIRED" => s[1].kind = "expired" \/ state = "SESSION_EXPIRED"
      /\ s[1].kind = "connected" => state' = "CONNECTED"
      /\ state = "CONNECTED" /\ state' # "CONNECTED" => s[1].kind \in {"connecting", "expired"}
  BY <1>2, <1>4 DEF StateAfter, Kinds, Event
<1>6. ExpiredInv'
  <2>1. \A i \in Positions(later) : later[i].kind = "expired" => session \in {"expired", "none"}
    BY <1>1, <1>4 DEF KnowInv, ExpiredInv
  <2>2. state' = "SESSION_EXPIRED" => session \in {"expired", "none"}
    BY <1>1, <1>4, <1>5 DEF KnowInv, ExpiredInv
  <2>3. \A i, j \in Positions(later) : later[i].kind = "expired" /\ later[j].kind = "expired" => i = j
    <3>1. \A i, j \in Positions(later) :
            later[i].kind = "expired" /\ later[j].kind = "expired" => i + 1 = j + 1
      BY <1>1, <1>4, ZenonT(60) DEF KnowInv, ExpiredInv
    <3> QED BY <1>4, <3>1
  <2>4. ASSUME session = "expired", state' = "SESSION_EXPIRED", NEW i \in Positions(later)
        PROVE  later[i].kind # "expired"
    <3>1. i + 1 \in Positions(s) /\ later[i] = s[i + 1] /\ i + 1 # 1
      <4>1. i \in 1 .. Len(later)
        BY <2>4 DEF Positions
      <4>2. i + 1 # 1
        BY <4>1
      <4> QED BY <1>4, <2>4, <4>2
    <3>2. CASE s[1].kind = "expired"
      BY <1>1, <1>4, <3>1, <3>2 DEF KnowInv, ExpiredInv
    <3>3. CASE state = "SESSION_EXPIRED"
      BY <1>1, <2>4, <3>1, <3>3 DEF KnowInv, ExpiredInv
    <3> QED BY <1>5, <2>4, <3>2, <3>3
  <2> QED BY <1>2, <1>3, <2>1, <2>2, <2>3, <2>4 DEF ExpiredInv
<1>7. ConnectedInv'
  <2>1. SUFFICES ASSUME session = "connected" PROVE ConnectedInv'
    BY <1>2 DEF ConnectedInv
  <2>2. ASSUME NEW i \in Positions(s), NEW j \in Positions(s), j > i, s[j].kind = "connected"
        PROVE  j - 1 \in Positions(later) /\ later[j - 1].kind = "connected" /\ j - 1 > i - 1
    BY <1>4, <2>2
  <2>3. ASSUME NEW i \in Positions(later), later[i].kind \in {"connecting", "expired"}
        PROVE  \E j \in Positions(later) : j > i /\ later[j].kind = "connected"
    <3>1. i + 1 \in Positions(s) /\ s[i + 1].kind \in {"connecting", "expired"} /\ i \in Nat
      BY <1>4, <2>3
    <3>2. PICK j \in Positions(s) : j > i + 1 /\ s[j].kind = "connected"
      BY <1>1, <2>1, <3>1 DEF KnowInv, ConnectedInv
    <3>3. j - 1 \in Positions(later) /\ later[j - 1].kind = "connected" /\ j - 1 > i
      BY <1>4, <3>1, <3>2
    <3> QED BY <3>3
  <2>4. ASSUME state' # "CONNECTED"
        PROVE  \E j \in Positions(later) : later[j].kind = "connected"
    <3>1. PICK j \in Positions(s) : s[j].kind = "connected"
      <4>1. CASE state # "CONNECTED"
        BY <1>1, <2>1, <4>1 DEF KnowInv, ConnectedInv
      <4>2. CASE state = "CONNECTED"
        BY <1>1, <1>4, <1>5, <2>1, <2>4, <4>2 DEF KnowInv, ConnectedInv
      <4> QED BY <4>1, <4>2
    <3>2. j # 1
      BY <1>5, <2>4, <3>1
    <3> QED BY <1>4, <3>1, <3>2
  <2> QED BY <1>3, <2>3, <2>4 DEF ConnectedInv
<1> QED BY <1>2, <1>6, <1>7 DEF KnowInv, Gone

\* A reconnect finds the session expired, and nothing of its end before it.
LEMMA CallKnows ==
  ASSUME TypeOK, RemoverInv, CallInv, KnowInv, NEW t \in Threads,
         Answer(t) \/ Synchronize(t) \/ Call(t) \/ TimeOut(t)
  PROVE  KnowInv'
<1>1. factory' = factory
  BY CallChanges
<1>2. CASE PutSync(t)
  <2>1. SyncEvent(caller[t].id) \in Event
    BY EventTypes DEF TypeOK
  <2>2. /\ events' = Append(events, SyncEvent(caller[t].id)) /\ UNCHANGED <<session, state>>
        /\ SyncEvent(caller[t].id).kind = "sync"
    BY <1>2 DEF PutSync, SyncEvent
  <2> QED BY <1>1, <2>1, <2>2, OtherEventKnows DEF Gone
<1>3. CASE UNCHANGED <<session, state, events>>
  BY <1>1, <1>3, OtherKnows DEF Gone
<1>4. CASE Reconnect /\ state = "SESSION_EXPIRED" /\ events' = events /\ caller[t].pc # "idle"
  <2>1. session = "expired"
    BY <1>4, NobodyCalls DEF KnowInv, ExpiredInv
  <2>2. /\ session' = "connecting" /\ state' = "CONNECTING" /\ events' = events
        /\ \A i \in Positions(events) : events[i].kind # "expired"
    BY <1>4, <2>1 DEF Reconnect, KnowInv, ExpiredInv
  <2>3. ExpiredInv'
    BY <2>2 DEF ExpiredInv
  <2>4. ConnectedInv'
    BY <2>2 DEF ConnectedInv
  <2> QED BY <2>2, <2>3, <2>4 DEF KnowInv
<1>5. \/ PutSync(t) \/ UNCHANGED <<session, state, events>>
      \/ Reconnect /\ state = "SESSION_EXPIRED" /\ events' = events /\ caller[t].pc # "idle"
  BY DEF Answer, Synchronize, Call, Verify, Awake, Ask, Return, TimeOut, adapterVars
<1> QED BY <1>2, <1>3, <1>4, <1>5

LEMMA StepKnows ==
  ASSUME TypeOK, RemoverInv, CallInv, KnowInv, [Next]_vars
  PROVE  KnowInv'
<1>1. CASE UNCHANGED vars
  BY <1>1, OtherKnows DEF vars, Gone
<1>2. CASE Change
  <2>1. /\ events' = Append(events, E("change")) /\ UNCHANGED <<session, state, factory>>
        /\ E("change").kind = "change" /\ E("change") \in Event
    BY <1>2, EventTypes DEF Change, E, Kinds
  <2> QED BY <2>1, OtherEventKnows DEF Gone
<1>3. CASE InjectEndEvent
  <2>1. /\ events' = Append(events, E("end")) /\ UNCHANGED <<session, state>>
        /\ factory = "running" /\ E("end").kind = "end" /\ E("end") \in Event
    BY <1>3, EventTypes DEF InjectEndEvent, E, Kinds
  <2> QED BY <2>1, OtherEventKnows DEF Gone
<1>4. CASE Disconnect
  <2>1. /\ events' = Append(events, E("end")) /\ session' = "none" /\ state' = "NORECONNECT"
        /\ factory' = "disconnected" /\ E("end").kind = "end" /\ E("end") \in Event
    BY <1>4, EventTypes DEF Disconnect, E, Kinds
  <2>2. PICK s \in Seq(Event) : s = events
    BY DEF TypeOK
  <2>3. PICK n \in Nat : n = Len(s) + 1
    OBVIOUS
  <2>a. PICK e \in Event : e = E("end")
    BY <2>1
  <2>b. PICK later \in Seq(Event) : later = Append(s, e)
    BY AppendKeeps
  <2>4. later = events'
    BY <2>1, <2>2, <2>a, <2>b
  <2>5. /\ Positions(later) = Positions(s) \cup {n} /\ later[n].kind = "end"
        /\ \A i \in Positions(s) : later[i] = s[i]
    BY <2>1, <2>3, <2>a, <2>b, AppendKeeps
  <2>c. ASSUME NEW i \in Positions(later), later[i].kind = "expired"
        PROVE  i \in Positions(s) /\ s[i].kind = "expired"
    BY <2>5, <2>c
  <2>6. ExpiredInv'
    BY <2>1, <2>2, <2>4, <2>c DEF KnowInv, ExpiredInv
  <2> QED BY <2>1, <2>6 DEF KnowInv, ConnectedInv, Gone
<1>5. CASE \/ Dispatcher \/ WaitForThreads \/ Deleted
           \/ \E c \in Clients : CreateClient(c) \/ AddClient(c) \/ EventThread(c)
                                   \/ DiscardClient(c) \/ Discarded(c)
           \/ \E u \in Users, c \in Clients : RemoveClient(u, c) \/ Removed(u, c)
  <2>1. UNCHANGED <<session, state, events>>
    BY <1>5 DEF Dispatcher, DispatchSession, DispatchSync, DispatchChange, DispatchEnd,
                WaitForThreads, Deleted, CreateClient, AddClient, EventThread, Look, NoEvent,
                TakeEvent, Handled, DiscardClient, Discarded, RemoveClient, Removed, adapterVars
  <2>2. Gone => Gone'
    BY <1>5 DEF Dispatcher, DispatchSession, DispatchSync, DispatchChange, DispatchEnd,
                WaitForThreads, Deleted, CreateClient, AddClient, EventThread, Look, NoEvent,
                TakeEvent, Handled, DiscardClient, Discarded, RemoveClient, Removed, Gone
  <2> QED BY <2>1, <2>2, OtherKnows
<1> QED BY <1>1, <1>2, <1>3, <1>4, <1>5, SessionEventKnows, ProcessKnows, CallKnows
        DEF Next, Destructor

\* What the adapter takes for its session is right, with any number of lost connections,
\* expired sessions and threads that reconnect.
THEOREM SessionIsKnown == Spec => []AdapterKnowsSession
<1> DEFINE Inv == TypeOK /\ (\A c \in Clients : EndInv(c)) /\ RemoverInv /\ CallInv /\ KnowInv
<1>1. Init => Inv
  <2> SUFFICES ASSUME Init PROVE Inv
    OBVIOUS
  <2>1. ASSUME NEW c \in Clients PROVE EndInv(c)
    <3>1. /\ client[c].pc = "none" /\ client[c].queue = <<>> /\ ~client[c].signalled
          /\ clients = {}
      BY DEF Init, NoClient
    <3> QED BY <3>1 DEF EndInv, Alive
  <2>2. events = <<>> /\ state = "CONNECTING" /\ session = "connecting"
    BY DEF Init
  <2>3. Positions(events) = {}
    BY <2>2 DEF Positions
  <2>4. KnowInv
    BY <2>2, <2>3 DEF KnowInv, ExpiredInv, ConnectedInv
  <2> QED BY <2>1, <2>4, InitTypes, InitCalls
<1>2. Inv /\ [Next]_vars => Inv'
  BY StepTypes, StepEnds, StepCalls, StepKnows
<1>3. Inv => AdapterKnowsSession
  <2> SUFFICES ASSUME KnowInv PROVE AdapterKnowsSession
    OBVIOUS
  <2>1. Pending("connected") <=> \E i \in Positions(events) : events[i].kind = "connected"
    BY DEF Pending, Positions
  <2> QED BY <2>1 DEF AdapterKnowsSession, KnowInv, ExpiredInv, ConnectedInv
<1> HIDE DEF Inv
<1> QED BY <1>1, <1>2, <1>3, PTL DEF Spec

-----------------------------------------------------------------------------
(* How many changes are before an event *)

Tick(e) == IF e.kind = "change" THEN 1 ELSE 0
ChangesTo(s, n) == {i \in 1 .. n : s[i].kind = "change"}
Count(s, n) == Cardinality(ChangesTo(s, n))

LEMMA CountFinite ==
  ASSUME NEW s \in Seq(Event), NEW n \in Nat
  PROVE  IsFiniteSet(ChangesTo(s, n)) /\ Count(s, n) \in Nat
<1>1. IsFiniteSet(1 .. n)
  BY FS_Interval
<1>2. ChangesTo(s, n) \subseteq 1 .. n
  BY DEF ChangesTo
<1> QED BY <1>1, <1>2, FS_Subset, FS_CardinalityType DEF Count

LEMMA CountZero ==
  ASSUME NEW s
  PROVE  Count(s, 0) = 0
<1>1. ChangesTo(s, 0) = {}
  BY DEF ChangesTo
<1> QED BY <1>1, FS_EmptySet DEF Count

LEMMA CountNext ==
  ASSUME NEW s \in Seq(Event), NEW n \in Nat
  PROVE  Count(s, n + 1) = Count(s, n) + Tick(s[n + 1])
<1>1. n + 1 \notin ChangesTo(s, n) /\ 1 .. (n + 1) = (1 .. n) \cup {n + 1}
  BY DEF ChangesTo
<1>2. CASE s[n + 1].kind = "change"
  <2>1. ChangesTo(s, n + 1) = ChangesTo(s, n) \cup {n + 1}
    BY <1>1, <1>2 DEF ChangesTo
  <2>2. Cardinality(ChangesTo(s, n) \cup {n + 1}) = Cardinality(ChangesTo(s, n)) + 1
    BY <1>1, CountFinite, FS_AddElement
  <2> QED BY <1>2, <2>1, <2>2 DEF Count, Tick
<1>3. CASE s[n + 1].kind # "change"
  <2>1. ChangesTo(s, n + 1) = ChangesTo(s, n)
    BY <1>1, <1>3 DEF ChangesTo
  <2>2. Count(s, n) \in Nat
    BY CountFinite
  <2> QED BY <1>3, <2>1, <2>2 DEF Count, Tick
<1> QED BY <1>2, <1>3

\* The events before one that is appended have the changes before them they had.
LEMMA CountAppend ==
  ASSUME NEW s \in Seq(Event), NEW e \in Event
  PROVE  /\ \A n \in 0 .. Len(s) : Count(Append(s, e), n) = Count(s, n)
         /\ Count(Append(s, e), Len(s) + 1) = Count(s, Len(s)) + Tick(e)
<1>1. PICK later \in Seq(Event) : later = Append(s, e)
  BY AppendKeeps
<1>2. Len(s) \in Nat /\ later[Len(s) + 1] = e /\ \A i \in 1 .. Len(s) : later[i] = s[i]
  BY <1>1
<1>3. ASSUME NEW n \in 0 .. Len(s) PROVE Count(later, n) = Count(s, n)
  <2>1. ChangesTo(later, n) = ChangesTo(s, n)
    BY <1>2, <1>3 DEF ChangesTo
  <2> QED BY <2>1 DEF Count
<1>4. Count(later, Len(s) + 1) = Count(later, Len(s)) + Tick(e)
  BY <1>2, CountNext
<1>5. Count(later, Len(s)) = Count(s, Len(s))
  BY <1>2, <1>3
<1> QED BY <1>1, <1>3, <1>4, <1>5

\* The events behind the first have it no longer before them.
LEMMA CountTail ==
  ASSUME NEW s \in Seq(Event), s # <<>>, NEW n \in 0 .. (Len(s) - 1)
  PROVE  Count(s, n + 1) = Tick(Head(s)) + Count(Tail(s), n)
<1>1. PICK later \in Seq(Event) : later = Tail(s)
  BY TailKeeps
<1>2. /\ Len(s) \in Nat /\ Len(later) = Len(s) - 1 /\ Head(s) = s[1] /\ n \in Nat
      /\ \A i \in 1 .. n : later[i] = s[i + 1]
  BY <1>1
<1>3. PICK behind : behind = ChangesTo(s, n + 1) \ {1}
  OBVIOUS
<1>4. ExistsBijection(ChangesTo(later, n), behind)
  <2>1. PICK f : f = [i \in ChangesTo(later, n) |-> i + 1]
    OBVIOUS
  <2>2. f \in [ChangesTo(later, n) -> behind]
    BY <1>2, <1>3, <2>1 DEF ChangesTo
  <2>3. \A i, j \in ChangesTo(later, n) : f[i] = f[j] => i = j
    BY <2>1 DEF ChangesTo
  <2>4. ASSUME NEW j \in behind PROVE \E i \in ChangesTo(later, n) : f[i] = j
    <3>1. j \in 2 .. (n + 1) /\ s[j].kind = "change"
      BY <1>3 DEF ChangesTo
    <3>2. j - 1 \in 1 .. n /\ later[j - 1] = s[j]
      BY <1>2, <3>1
    <3>3. j - 1 \in ChangesTo(later, n) /\ f[j - 1] = j
      BY <2>1, <3>1, <3>2 DEF ChangesTo
    <3> QED BY <3>3
  <2>5. f \in Bijection(ChangesTo(later, n), behind)
    BY <2>2, <2>3, <2>4 DEF Bijection, Injection, Surjection, IsInjective
  <2> QED BY <2>5 DEF ExistsBijection
<1>5. Cardinality(behind) = Count(later, n)
  BY <1>2, <1>4, CountFinite, FS_Bijection DEF Count
<1>6. n + 1 \in Nat
  BY <1>2
<1>7. IsFiniteSet(ChangesTo(s, n + 1)) /\ Count(s, n + 1) \in Nat
  BY <1>6, CountFinite
<1>8. Cardinality(behind) = IF 1 \in ChangesTo(s, n + 1) THEN Count(s, n + 1) - 1
                            ELSE Count(s, n + 1)
  BY <1>3, <1>7, FS_RemoveElement DEF Count
<1>9. 1 \in ChangesTo(s, n + 1) <=> Head(s).kind = "change"
  BY <1>2 DEF ChangesTo
<1> QED BY <1>1, <1>5, <1>7, <1>8, <1>9 DEF Tick

-----------------------------------------------------------------------------
(* What synchronize() has been told of *)

Asking == {"verify", "await", "ask", "asked", "answered"}
Answers(e, t) == e.kind = "sync" /\ e.id = caller[t].id
AllDispatched == dispatched + Count(external, Len(external))

\* No change is lost on its way.
TotalInv == changes = AllDispatched + Count(events, Len(events))

\* A call has an id of its own, and no event has the id of a call that has not put one.
IdInv ==
  /\ \A t \in Threads : caller[t].id <= syncId
  /\ \A i \in Positions(events) : events[i].kind = "sync" => events[i].id <= syncId
  /\ \A i \in Positions(external) : external[i].kind = "sync" => external[i].id <= syncId
  /\ \A t, u \in Threads :
       caller[t].pc # "idle" /\ caller[u].pc # "idle" /\ caller[t].id = caller[u].id => t = u
  /\ \A t \in Threads : caller[t].pc \in Asking =>
       /\ \A i \in Positions(events) : ~Answers(events[i], t)
       /\ \A i \in Positions(external) : ~Answers(external[i], t)

\* The changes a call was told of are before the event it waits for.
SeenInv(t) ==
  /\ caller[t].pc = "answered" => caller[t].told <= changes
  /\ caller[t].pc = "waiting" =>
       /\ \A i \in Positions(external) :
            Answers(external[i], t) => caller[t].told <= dispatched + Count(external, i)
       /\ \A i \in Positions(events) :
            Answers(events[i], t) => caller[t].told <= AllDispatched + Count(events, i)
  /\ caller[t].pc = "signalled" => caller[t].told <= dispatched

SyncInv == TotalInv /\ IdInv /\ \A t \in Threads : SeenInv(t)

\* The numbers are numbers.
LEMMA CountTypes ==
  ASSUME TypeOK
  PROVE  /\ dispatched \in Nat /\ changes \in Nat /\ syncId \in Nat /\ AllDispatched \in Nat
         /\ Len(external) \in Nat /\ Len(events) \in Nat
         /\ \A n \in Nat : Count(external, n) \in Nat /\ Count(events, n) \in Nat
         /\ \A t \in Threads : caller[t].id \in Nat /\ caller[t].told \in Nat
<1>1. /\ dispatched \in Nat /\ changes \in Nat /\ syncId \in Nat
      /\ external \in Seq(Event) /\ events \in Seq(Event)
  BY DEF TypeOK
<1>2. Len(external) \in Nat /\ Len(events) \in Nat
  BY <1>1
<1>3. \A n \in Nat : Count(external, n) \in Nat /\ Count(events, n) \in Nat
  BY <1>1, CountFinite
<1>4. \A t \in Threads : caller[t].id \in Nat /\ caller[t].told \in Nat
  BY DEF TypeOK
<1>5. AllDispatched \in Nat
  <2>1. Count(external, Len(external)) \in Nat
    BY <1>2, <1>3
  <2> QED BY <1>1, <2>1 DEF AllDispatched
<1> QED BY <1>1, <1>2, <1>3, <1>4, <1>5

\* A step that moves no event and tells nobody
LEMMA OtherSyncs ==
  ASSUME SyncInv, UNCHANGED <<events, external, dispatched, changes, caller, syncId>>
  PROVE  SyncInv'
BY DEF SyncInv, TotalInv, IdInv, SeenInv, AllDispatched, Answers

\* A sequence with an event behind it, and one without its first
Grown(s, later, e) ==
  /\ Len(later) = Len(s) + 1 /\ Len(later) \in Positions(later) /\ later[Len(later)] = e
  /\ Count(later, Len(later)) = Count(s, Len(s)) + Tick(e)
  /\ \A i \in Positions(s) : later[i] = s[i] /\ Count(later, i) = Count(s, i)
  /\ \A i \in Positions(later) : i \in Positions(s) \/ i = Len(later)

Shrunk(s, later, e) ==
  /\ 1 \in Positions(s) /\ s[1] = e /\ Count(s, 1) = Tick(e)
  /\ Count(s, Len(s)) = Tick(e) + Count(later, Len(later))
  /\ \A i \in Positions(later) :
       i \in Nat /\ i + 1 \in Positions(s) /\ later[i] = s[i + 1]
         /\ Count(s, i + 1) = Tick(e) + Count(later, i)

LEMMA GrownBy ==
  ASSUME NEW s \in Seq(Event), NEW e \in Event
  PROVE  Grown(s, Append(s, e), e)
<1>1. PICK later \in Seq(Event) : later = Append(s, e)
  BY AppendKeeps
<1>2. /\ Len(s) \in Nat /\ Len(later) = Len(s) + 1 /\ later[Len(s) + 1] = e
      /\ \A i \in Positions(s) : later[i] = s[i]
  BY <1>1, AppendKeeps
<1>3. /\ \A n \in 0 .. Len(s) : Count(later, n) = Count(s, n)
      /\ Count(later, Len(s) + 1) = Count(s, Len(s)) + Tick(e)
  BY <1>1, CountAppend
<1>4. /\ \A i \in Positions(s) : i \in 0 .. Len(s)
      /\ Len(later) \in Positions(later)
      /\ \A i \in Positions(later) : i \in Positions(s) \/ i = Len(later)
  BY <1>2 DEF Positions
<1>5. Grown(s, later, e)
  BY <1>2, <1>3, <1>4 DEF Grown
<1> QED BY <1>1, <1>5

LEMMA ShrunkBy ==
  ASSUME NEW s \in Seq(Event), s # <<>>
  PROVE  Shrunk(s, Tail(s), Head(s))
<1>1. PICK later \in Seq(Event) : later = Tail(s)
  BY TailKeeps
<1>2. PICK e \in Event : e = Head(s)
  BY TailKeeps
<1>3. /\ Len(s) \in Nat /\ Len(later) = Len(s) - 1 /\ s[1] = e /\ 1 \in Positions(s)
      /\ \A i \in Positions(later) : later[i] = s[i + 1] /\ i + 1 \in Positions(s)
  BY <1>1, <1>2, TailKeeps
<1>4. Len(s) - 1 \in 0 .. (Len(s) - 1) /\ 0 \in 0 .. (Len(s) - 1) /\ (Len(s) - 1) + 1 = Len(s)
  BY <1>3 DEF Positions
<1>5. \A n \in 0 .. (Len(s) - 1) : Count(s, n + 1) = Tick(e) + Count(later, n)
  BY <1>1, <1>2, CountTail
<1>6. Count(s, Len(s)) = Tick(e) + Count(later, Len(later))
  BY <1>3, <1>4, <1>5
<1>7. Count(s, 1) = Tick(e)
  <2>1. Count(s, 0 + 1) = Tick(e) + Count(later, 0)
    BY <1>4, <1>5
  <2>2. Count(later, 0) = 0 /\ Tick(e) \in Nat
    BY CountZero DEF Tick
  <2> QED BY <2>1, <2>2
<1>8. \A i \in Positions(later) : i \in Nat /\ i \in 0 .. (Len(s) - 1)
  BY <1>3 DEF Positions
<1>9. Shrunk(s, later, e)
  BY <1>3, <1>5, <1>6, <1>7, <1>8 DEF Shrunk
<1> QED BY <1>1, <1>2, <1>9

\* A thread's own steps but the one that puts its event
LEMMA CallerSyncs ==
  ASSUME TypeOK, SyncInv, NEW t \in Threads,
         UNCHANGED <<events, external, dispatched, changes>>,
         \A u \in Threads : u # t => caller'[u] = caller[u],
         \/ caller'[t] = IdleCall /\ syncId' = syncId
         \/ /\ caller[t].pc \in Asking /\ caller'[t].id = caller[t].id /\ syncId' = syncId
            /\ \/ caller'[t].pc \in Asking \ {"answered"}
               \/ caller'[t].pc = "answered" /\ caller'[t].told = changes
         \/ /\ caller'[t].pc = "verify" /\ caller'[t].id = syncId + 1 /\ syncId' = syncId + 1
  PROVE  SyncInv'
<1>1. TotalInv'
  BY DEF SyncInv, TotalInv, AllDispatched
<1>2. IdInv /\ \A u \in Threads : SeenInv(u)
  BY DEF SyncInv
<1>3. syncId \in Nat /\ changes \in Nat /\ \A u \in Threads : caller[u].id \in Nat
  BY CountTypes
<1>4. \A i \in Positions(events) : events[i].kind = "sync" => events[i].id \in Nat
  <2>1. \A i \in Positions(events) : events[i] \in Event
    BY DEF TypeOK, Positions
  <2>2. \A e \in Event : e.id \in Nat
    BY DEF Event
  <2> QED BY <2>1, <2>2
<1>5. \A i \in Positions(external) : external[i].kind = "sync" => external[i].id \in Nat
  <2>1. \A i \in Positions(external) : external[i] \in Event
    BY DEF TypeOK, Positions
  <2>2. \A e \in Event : e.id \in Nat
    BY DEF Event
  <2> QED BY <2>1, <2>2
<1>6. ASSUME NEW u \in Threads, u # t PROVE SeenInv(u)'
  BY <1>2, <1>6 DEF SeenInv, Answers, AllDispatched
<1>7. CASE caller'[t] = IdleCall /\ syncId' = syncId
  <2>1. caller'[t].pc = "idle" /\ caller'[t].id = 0
    BY <1>7 DEF IdleCall
  <2>2. SeenInv(t)'
    BY <2>1 DEF SeenInv
  <2>3. IdInv'
    BY <1>2, <1>3, <1>7, <2>1 DEF IdInv, Answers, Asking
  <2> QED BY <1>1, <1>6, <2>2, <2>3 DEF SyncInv
<1>8. CASE /\ caller[t].pc \in Asking /\ caller'[t].id = caller[t].id /\ syncId' = syncId
           /\ \/ caller'[t].pc \in Asking \ {"answered"}
              \/ caller'[t].pc = "answered" /\ caller'[t].told = changes
  <2>1. caller'[t].pc \in Asking /\ caller[t].pc # "idle"
    BY <1>8 DEF Asking
  <2>2. SeenInv(t)'
    BY <1>3, <1>8 DEF SeenInv, Asking
  <2>3. IdInv'
    BY <1>2, <1>8, <2>1 DEF IdInv, Answers
  <2> QED BY <1>1, <1>6, <2>2, <2>3 DEF SyncInv
<1>9. CASE caller'[t].pc = "verify" /\ caller'[t].id = syncId + 1 /\ syncId' = syncId + 1
  <2>1. SeenInv(t)'
    BY <1>9 DEF SeenInv
  <2>2. \A u \in Threads : caller'[u].id <= syncId'
    BY <1>2, <1>3, <1>9 DEF IdInv
  <2>3. /\ \A i \in Positions(events) : events[i].kind = "sync" => events[i].id <= syncId'
        /\ \A i \in Positions(external) : external[i].kind = "sync" => external[i].id <= syncId'
    BY <1>2, <1>3, <1>4, <1>5, <1>9 DEF IdInv
  <2>4. \A u \in Threads : u # t => caller'[u].id # caller'[t].id
    BY <1>2, <1>3, <1>9 DEF IdInv
  <2>5. /\ \A i \in Positions(events) : ~(events[i].kind = "sync" /\ events[i].id = caller'[t].id)
        /\ \A i \in Positions(external) : ~(external[i].kind = "sync" /\ external[i].id = caller'[t].id)
    BY <1>2, <1>3, <1>4, <1>5, <1>9 DEF IdInv
  <2>6. \A u, v \in Threads :
          caller'[u].pc # "idle" /\ caller'[v].pc # "idle" /\ caller'[u].id = caller'[v].id => u = v
    BY <1>2, <2>4 DEF IdInv
  <2>7. \A u \in Threads : caller'[u].pc \in Asking =>
          /\ \A i \in Positions(events) : ~(events[i].kind = "sync" /\ events[i].id = caller'[u].id)
          /\ \A i \in Positions(external) : ~(external[i].kind = "sync" /\ external[i].id = caller'[u].id)
    BY <1>2, <2>5 DEF IdInv, Answers
  <2>8. IdInv'
    BY <2>2, <2>3, <2>6, <2>7 DEF IdInv, Answers
  <2> QED BY <1>1, <1>6, <2>1, <2>8 DEF SyncInv
<1> QED BY <1>7, <1>8, <1>9

\* An event that is not a thread's comes behind the others.
LEMMA EventSyncs ==
  ASSUME TypeOK, SyncInv, NEW e, Grown(events, events', e), e.kind # "sync",
         changes' = changes + Tick(e), UNCHANGED <<external, dispatched, caller, syncId>>
  PROVE  SyncInv'
<1>1. /\ dispatched \in Nat /\ changes \in Nat /\ AllDispatched \in Nat
      /\ Count(events, Len(events)) \in Nat /\ Tick(e) \in Nat
      /\ \A t \in Threads : caller[t].told \in Nat
  BY CountTypes DEF Tick
<1>2. AllDispatched' = AllDispatched
  BY DEF AllDispatched
<1>3. TotalInv'
  BY <1>1, <1>2 DEF SyncInv, TotalInv, Grown
<1>4. \A i \in Positions(events') : events'[i].kind = "sync" =>
        i \in Positions(events) /\ events'[i] = events[i] /\ Count(events', i) = Count(events, i)
  BY DEF Grown
<1>5. IdInv'
  BY <1>4 DEF SyncInv, IdInv, Answers
<1>6. ASSUME NEW t \in Threads PROVE SeenInv(t)'
  <2>1. SeenInv(t)
    BY DEF SyncInv
  <2>2. caller[t].told <= changes => caller[t].told <= changes'
    BY <1>1
  <2> QED BY <1>2, <1>4, <2>1, <2>2 DEF SeenInv, Answers
<1> QED BY <1>3, <1>5, <1>6 DEF SyncInv

\* sync() puts the event of the call behind every change the answer came after.
LEMMA PutSyncs ==
  ASSUME TypeOK, SyncInv, NEW t \in Threads, Grown(events, events', SyncEvent(caller[t].id)),
         caller[t].pc = "answered", caller'[t].pc = "waiting", caller'[t].id = caller[t].id,
         caller'[t].told = caller[t].told, \A u \in Threads : u # t => caller'[u] = caller[u],
         UNCHANGED <<external, dispatched, changes, syncId>>
  PROVE  SyncInv'
<1>a. PICK e : e = SyncEvent(caller[t].id)
  OBVIOUS
<1>b. e.kind = "sync" /\ e.id = caller[t].id /\ Tick(e) = 0 /\ Grown(events, events', e)
  BY <1>a DEF SyncEvent, Tick
<1>1. /\ dispatched \in Nat /\ changes \in Nat /\ AllDispatched \in Nat
      /\ Count(events, Len(events)) \in Nat
      /\ \A u \in Threads : caller[u].told \in Nat
  BY CountTypes
<1>2. AllDispatched' = AllDispatched
  BY DEF AllDispatched
<1>3. TotalInv /\ IdInv /\ \A u \in Threads : SeenInv(u)
  BY DEF SyncInv
<1>4. TotalInv'
  BY <1>b, <1>1, <1>2, <1>3 DEF TotalInv, Grown
<1>5. PICK n : n = Len(events')
  OBVIOUS
<1>6. /\ n \in Positions(events') /\ events'[n] = e
      /\ Count(events', n) = Count(events, Len(events))
      /\ \A i \in Positions(events') :
           \/ i = n
           \/ i \in Positions(events) /\ events'[i] = events[i] /\ Count(events', i) = Count(events, i)
  BY <1>b, <1>1, <1>5 DEF Grown
<1>7. IdInv'
  <2>1. \A u, v \in Threads :
          caller'[u].pc # "idle" /\ caller'[v].pc # "idle" /\ caller'[u].id = caller'[v].id => u = v
    BY <1>3 DEF IdInv
  <2>2. \A i \in Positions(events') : events'[i].kind = "sync" => events'[i].id <= syncId
    BY <1>b, <1>3, <1>6 DEF IdInv
  <2>3. \A u \in Threads : caller'[u].pc \in Asking =>
          u # t /\ caller[u].pc \in Asking /\ caller[u].id # caller[t].id /\ caller'[u] = caller[u]
    BY <1>3 DEF IdInv, Asking
  <2>4. \A u \in Threads : caller'[u].pc \in Asking =>
          \A i \in Positions(events') : ~(events'[i].kind = "sync" /\ events'[i].id = caller'[u].id)
    BY <1>b, <1>3, <1>6, <2>3 DEF IdInv, Answers
  <2>5. \A u \in Threads : caller'[u].pc \in Asking =>
          \A i \in Positions(external) :
            ~(external[i].kind = "sync" /\ external[i].id = caller'[u].id)
    BY <1>3, <2>3 DEF IdInv, Answers
  <2>6. \A u \in Threads : caller'[u].id <= syncId
    BY <1>3 DEF IdInv
  <2> QED BY <1>3, <2>1, <2>2, <2>4, <2>5, <2>6 DEF IdInv, Answers
<1>8. SeenInv(t)'
  <2>1. caller[t].pc \in Asking
    BY DEF Asking
  <2>2. /\ \A i \in Positions(external) : ~(external[i].kind = "sync" /\ external[i].id = caller[t].id)
        /\ \A i \in Positions(events) : ~(events[i].kind = "sync" /\ events[i].id = caller[t].id)
    BY <1>3, <2>1 DEF IdInv, Answers
  <2>3. caller[t].told <= AllDispatched + Count(events', n)
    BY <1>1, <1>3, <1>6 DEF TotalInv, SeenInv
  <2>4. \A i \in Positions(events') :
          events'[i].kind = "sync" /\ events'[i].id = caller[t].id => i = n
    BY <1>6, <2>2
  <2> QED BY <1>2, <2>2, <2>3, <2>4 DEF SeenInv, Answers
<1>9. ASSUME NEW u \in Threads, u # t PROVE SeenInv(u)'
  <2>1. SeenInv(u) /\ caller'[u] = caller[u]
    BY <1>3, <1>9
  <2>2. caller[u].pc = "waiting" => caller[u].id # caller[t].id
    BY <1>3, <1>9 DEF IdInv
  <2>3. caller[u].pc = "waiting" => \A i \in Positions(events') :
          events'[i].kind = "sync" /\ events'[i].id = caller[u].id =>
            /\ i \in Positions(events) /\ events'[i] = events[i]
            /\ Count(events', i) = Count(events, i)
    BY <1>b, <1>6, <2>2
  <2> QED BY <1>2, <2>1, <2>3 DEF SeenInv, Answers
<1> QED BY <1>4, <1>7, <1>8, <1>9 DEF SyncInv

\* processEvents() passes the events on in their order.
LEMMA ProcessSyncs ==
  ASSUME TypeOK, SyncInv, NEW e \in Event, Shrunk(events, events', e),
         Grown(external, external', e), events' \in Seq(Event),
         UNCHANGED <<dispatched, changes, caller, syncId>>
  PROVE  SyncInv'
<1>1. /\ dispatched \in Nat /\ changes \in Nat /\ AllDispatched \in Nat
      /\ Count(external, Len(external)) \in Nat /\ Tick(e) \in Nat
      /\ \A u \in Threads : caller[u].told \in Nat
  BY CountTypes DEF Tick
<1>2. \A n \in Nat : Count(events', n) \in Nat
  BY CountFinite
<1>3. Len(events') \in Nat
  OBVIOUS
<1>4. TotalInv /\ IdInv /\ \A u \in Threads : SeenInv(u)
  BY DEF SyncInv
<1>5. AllDispatched' = AllDispatched + Tick(e)
  BY <1>1 DEF AllDispatched, Grown
<1>6. TotalInv'
  BY <1>1, <1>2, <1>3, <1>4, <1>5 DEF TotalInv, Shrunk
<1>7. PICK n : n = Len(external')
  OBVIOUS
<1>8. /\ n \in Positions(external') /\ external'[n] = e
      /\ Count(external', n) = Count(external, Len(external)) + Tick(e)
      /\ \A i \in Positions(external') :
           \/ i = n
           \/ i \in Positions(external) /\ external'[i] = external[i]
                /\ Count(external', i) = Count(external, i)
  BY <1>7 DEF Grown
<1>9. /\ 1 \in Positions(events) /\ events[1] = e /\ Count(events, 1) = Tick(e)
      /\ \A i \in Positions(events') :
           /\ i \in Nat /\ i + 1 \in Positions(events) /\ events'[i] = events[i + 1]
           /\ Count(events, i + 1) = Tick(e) + Count(events', i)
  BY DEF Shrunk
<1>10. IdInv'
  <2>1. /\ \A i \in Positions(events') : events'[i].kind = "sync" => events'[i].id <= syncId
        /\ \A i \in Positions(external') : external'[i].kind = "sync" => external'[i].id <= syncId
    BY <1>4, <1>8, <1>9 DEF IdInv
  <2>2. ASSUME NEW u \in Threads, caller[u].pc \in Asking
        PROVE  /\ \A i \in Positions(events') : ~(events'[i].kind = "sync" /\ events'[i].id = caller[u].id)
               /\ \A i \in Positions(external') :
                    ~(external'[i].kind = "sync" /\ external'[i].id = caller[u].id)
    BY <1>4, <1>8, <1>9, <2>2 DEF IdInv, Answers
  <2> QED BY <1>4, <2>1, <2>2 DEF IdInv, Answers
<1>11. ASSUME NEW u \in Threads PROVE SeenInv(u)'
  <2>1. ASSUME caller[u].pc = "waiting", NEW i \in Positions(external'),
               external'[i].kind = "sync", external'[i].id = caller[u].id
        PROVE  caller[u].told <= dispatched + Count(external', i)
    <3>1. CASE i = n
      <4>1. caller[u].told <= AllDispatched + Tick(e)
        BY <1>4, <1>8, <1>9, <2>1, <3>1 DEF SeenInv, Answers
      <4> QED BY <1>1, <1>8, <3>1, <4>1 DEF AllDispatched
    <3>2. CASE i # n
      BY <1>4, <1>8, <2>1, <3>2 DEF SeenInv, Answers
    <3> QED BY <3>1, <3>2
  <2>2. ASSUME caller[u].pc = "waiting", NEW i \in Positions(events'),
               events'[i].kind = "sync", events'[i].id = caller[u].id
        PROVE  caller[u].told <= AllDispatched' + Count(events', i)
    <3>1. caller[u].told <= AllDispatched + Count(events, i + 1)
      BY <1>4, <1>9, <2>2 DEF SeenInv, Answers
    <3>2. Count(events, i + 1) = Tick(e) + Count(events', i) /\ Count(events', i) \in Nat
      BY <1>2, <1>9
    <3> QED BY <1>1, <1>5, <3>1, <3>2
  <2> QED BY <1>4, <2>1, <2>2 DEF SeenInv, Answers
<1> QED BY <1>6, <1>10, <1>11 DEF SyncInv

\* The external event thread handles the first event: a change is counted, and a call's
\* own event tells the call.
LEMMA DispatchSyncs ==
  ASSUME TypeOK, SyncInv, NEW e \in Event, Shrunk(external, external', e),
         external' \in Seq(Event), dispatched' = dispatched + Tick(e),
         UNCHANGED <<events, changes, syncId>>,
         \A u \in Threads :
           \/ caller'[u] = caller[u]
           \/ /\ caller[u].pc = "waiting" /\ Answers(e, u) /\ caller'[u].pc = "signalled"
              /\ caller'[u].id = caller[u].id /\ caller'[u].told = caller[u].told
  PROVE  SyncInv'
<1>1. /\ dispatched \in Nat /\ changes \in Nat /\ AllDispatched \in Nat /\ Tick(e) \in Nat
      /\ Len(external') \in Nat /\ \A u \in Threads : caller[u].told \in Nat
  <2>1. Tick(e) \in Nat /\ Len(external') \in Nat
    BY DEF Tick
  <2> QED BY <2>1, CountTypes
<1>2. \A n \in Nat : Count(external', n) \in Nat
  BY CountFinite
<1>3. TotalInv /\ IdInv /\ \A u \in Threads : SeenInv(u)
  BY DEF SyncInv
<1>4. AllDispatched' = AllDispatched
  BY <1>1, <1>2 DEF AllDispatched, Shrunk
<1>5. TotalInv'
  BY <1>3, <1>4 DEF TotalInv
<1>6. /\ 1 \in Positions(external) /\ external[1] = e /\ Count(external, 1) = Tick(e)
      /\ \A i \in Positions(external') :
           /\ i \in Nat /\ i + 1 \in Positions(external) /\ external'[i] = external[i + 1]
           /\ Count(external, i + 1) = Tick(e) + Count(external', i)
  BY DEF Shrunk
<1>7. \A u \in Threads :
        /\ caller'[u].id = caller[u].id /\ caller'[u].told = caller[u].told
        /\ caller'[u].pc = "idle" => caller[u].pc = "idle"
        /\ caller[u].pc = "idle" => caller'[u].pc = "idle"
        /\ caller'[u].pc \in Asking => caller[u].pc \in Asking
  BY DEF Asking
<1>8. IdInv'
  <2>1. \A i \in Positions(external') : external'[i].kind = "sync" => external'[i].id <= syncId
    BY <1>3, <1>6 DEF IdInv
  <2>2. ASSUME NEW u \in Threads, caller'[u].pc \in Asking
        PROVE  /\ \A i \in Positions(events) : ~(events[i].kind = "sync" /\ events[i].id = caller[u].id)
               /\ \A i \in Positions(external') :
                    ~(external'[i].kind = "sync" /\ external'[i].id = caller[u].id)
    BY <1>3, <1>6, <1>7, <2>2 DEF IdInv, Answers
  <2>3. \A u, v \in Threads :
          caller'[u].pc # "idle" /\ caller'[v].pc # "idle" /\ caller'[u].id = caller'[v].id => u = v
    BY <1>3, <1>7 DEF IdInv
  <2>4. \A u \in Threads : caller'[u].id <= syncId
    BY <1>3, <1>7 DEF IdInv
  <2> QED BY <1>3, <1>7, <2>1, <2>2, <2>3, <2>4 DEF IdInv, Answers
<1>9. ASSUME NEW u \in Threads PROVE SeenInv(u)'
  <2>1. CASE caller'[u] = caller[u]
    <3>1. ASSUME caller[u].pc = "waiting", NEW i \in Positions(external'),
                 external'[i].kind = "sync", external'[i].id = caller[u].id
          PROVE  caller[u].told <= dispatched' + Count(external', i)
      <4>1. caller[u].told <= dispatched + Count(external, i + 1)
        BY <1>3, <1>6, <3>1 DEF SeenInv, Answers
      <4>2. Count(external, i + 1) = Tick(e) + Count(external', i) /\ Count(external', i) \in Nat
        BY <1>2, <1>6
      <4> QED BY <1>1, <4>1, <4>2
    <3>2. caller[u].told <= dispatched => caller[u].told <= dispatched'
      BY <1>1
    <3> QED BY <1>3, <1>4, <2>1, <3>1, <3>2 DEF SeenInv, Answers
  <2>2. CASE /\ caller[u].pc = "waiting" /\ Answers(e, u) /\ caller'[u].pc = "signalled"
             /\ caller'[u].id = caller[u].id /\ caller'[u].told = caller[u].told
    <3>1. caller[u].told <= dispatched + Tick(e)
      BY <1>3, <1>6, <2>2 DEF SeenInv, Answers
    <3> QED BY <2>2, <3>1 DEF SeenInv
  <2> QED BY <2>1, <2>2
<1> QED BY <1>5, <1>8, <1>9 DEF SyncInv

LEMMA StepSyncs ==
  ASSUME TypeOK, TypeOK', SyncInv, [Next]_vars
  PROVE  SyncInv'
<1>a. events \in Seq(Event) /\ external \in Seq(Event) /\ events' \in Seq(Event) /\ external' \in Seq(Event)
  BY DEF TypeOK
<1>1. CASE UNCHANGED vars
  BY <1>1, OtherSyncs DEF vars
<1>2. ASSUME NEW t \in Threads, Answer(t) \/ Synchronize(t) \/ Call(t) \/ TimeOut(t)
      PROVE  SyncInv'
  <2>1. PICK record \in [pc : Pcs, id : Nat, told : Nat] : record = caller[t]
    BY DEF TypeOK
  <2>2. /\ \A u \in Threads : u # t => caller'[u] = caller[u]
        /\ UNCHANGED <<external, dispatched, changes>>
    BY <1>2, CallChanges
  <2>3. CASE Answer(t)
    <3>1. caller'[t] = [record EXCEPT !.pc = "answered", !.told = changes]
      BY <2>1, <2>3 DEF Answer, TypeOK
    <3>2. caller'[t].pc = "answered" /\ caller'[t].id = record.id /\ caller'[t].told = changes
      BY <2>1, <3>1
    <3>3. caller[t].pc \in Asking /\ UNCHANGED <<events, syncId>>
      BY <2>3 DEF Answer, Asking, adapterVars
    <3> QED BY <2>1, <2>2, <3>2, <3>3, CallerSyncs
  <2>4. CASE Synchronize(t)
    <3>1. caller'[t] = [pc |-> "verify", id |-> syncId + 1, told |-> 0]
      BY <2>4 DEF Synchronize, TypeOK
    <3>2. caller'[t].pc = "verify" /\ caller'[t].id = syncId + 1
      BY <3>1
    <3>3. syncId' = syncId + 1 /\ events' = events
      BY <2>4 DEF Synchronize, adapterVars
    <3> QED BY <2>2, <3>2, <3>3, CallerSyncs
  <2>5. CASE Verify(t) \/ Awake(t) \/ TimeOut(t) \/ Ask(t) \/ Return(t)
    <3>1. /\ UNCHANGED <<events, syncId>>
          /\ \/ caller' = caller
             \/ caller'[t] = IdleCall
             \/ /\ caller[t].pc \in {"verify", "await", "ask"}
                /\ \E label \in {"ask", "await", "asked"} : caller'[t] = [record EXCEPT !.pc = label]
      <4>1. UNCHANGED <<events, syncId>>
        BY <2>5 DEF Verify, Awake, TimeOut, Ask, Return, adapterVars
      <4>2. CASE Verify(t)
        BY <2>1, <4>1, <4>2 DEF Verify, Throw, TypeOK
      <4>3. CASE Awake(t) \/ TimeOut(t)
        BY <2>1, <4>1, <4>3 DEF Awake, TimeOut, Throw, TypeOK
      <4>4. CASE Ask(t) \/ Return(t)
        BY <2>1, <4>1, <4>4 DEF Ask, Return, TypeOK
      <4> QED BY <2>5, <4>2, <4>3, <4>4
    <3>2. CASE caller' = caller
      BY <2>2, <3>1, <3>2, OtherSyncs
    <3>3. CASE caller'[t] = IdleCall
      BY <2>2, <3>1, <3>3, CallerSyncs
    <3>4. CASE /\ caller[t].pc \in {"verify", "await", "ask"}
               /\ \E label \in {"ask", "await", "asked"} : caller'[t] = [record EXCEPT !.pc = label]
      <4>1. PICK label \in {"ask", "await", "asked"} : caller'[t] = [record EXCEPT !.pc = label]
        BY <3>4
      <4>2. caller'[t].pc = label /\ caller'[t].id = record.id
        BY <2>1, <4>1
      <4>3. caller[t].pc \in Asking /\ caller'[t].pc \in Asking \ {"answered"}
        BY <3>4, <4>2 DEF Asking
      <4> QED BY <2>1, <2>2, <3>1, <4>2, <4>3, CallerSyncs
    <3> QED BY <3>1, <3>2, <3>3, <3>4
  <2>6. CASE PutSync(t)
    <3>1. caller'[t] = [record EXCEPT !.pc = "waiting"]
      BY <2>1, <2>6 DEF PutSync, TypeOK
    <3>2. caller'[t].pc = "waiting" /\ caller'[t].id = caller[t].id /\ caller'[t].told = caller[t].told
      BY <2>1, <3>1
    <3>3. SyncEvent(caller[t].id) \in Event
      BY EventTypes DEF TypeOK
    <3>4. Grown(events, events', SyncEvent(caller[t].id))
      BY <1>a, <2>6, <3>3, GrownBy DEF PutSync
    <3>5. caller[t].pc = "answered" /\ syncId' = syncId
      BY <2>6 DEF PutSync
    <3> QED BY <2>2, <3>2, <3>4, <3>5, PutSyncs
  <2> QED BY <1>2, <2>3, <2>4, <2>5, <2>6 DEF Call
<1>3. CASE Connect \/ Lose \/ Expire \/ Change \/ InjectEndEvent \/ Disconnect
  <2>1. PICK kind \in Kinds \ {"sync"} : /\ events' = Append(events, E(kind))
                                         /\ changes' = IF kind = "change" THEN changes + 1 ELSE changes
    BY <1>3 DEF Connect, Lose, Expire, SessionEvent, Change, InjectEndEvent, Disconnect, Kinds,
                boundVars
  <2>2. PICK e \in Event : e = E(kind)
    BY <2>1, EventTypes
  <2>3. e.kind = kind /\ e.kind # "sync" /\ changes \in Nat
    BY <2>1, <2>2 DEF E, TypeOK
  <2>4. changes' = changes + Tick(e)
    BY <2>1, <2>3 DEF Tick
  <2>5. Grown(events, events', e)
    BY <1>a, <2>1, <2>2, GrownBy
  <2>6. UNCHANGED <<external, dispatched, caller, syncId>>
    BY <1>3 DEF Connect, Lose, Expire, SessionEvent, Change, InjectEndEvent, Disconnect,
                factoryVars, callVars
  <2> QED BY <2>3, <2>4, <2>5, <2>6, EventSyncs
<1>4. CASE Process
  <2>1. PICK e \in Event : e = Head(events)
    BY <1>4, TailKeeps DEF Process, TypeOK
  <2>2. /\ events # <<>> /\ events' = Tail(events) /\ external' = Append(external, e)
        /\ UNCHANGED <<dispatched, changes, caller, syncId>>
    BY <1>4, <2>1 DEF Process, callVars, boundVars
  <2>3. Shrunk(events, events', e) /\ Grown(external, external', e)
    BY <1>a, <2>1, <2>2, ShrunkBy, GrownBy
  <2> QED BY <1>a, <2>2, <2>3, ProcessSyncs
<1>5. CASE DispatchSession \/ DispatchChange \/ DispatchSync
  <2>1. external # <<>> /\ external' = Tail(external) /\ UNCHANGED <<events, changes, syncId>>
    BY <1>5 DEF DispatchSession, DispatchChange, DispatchSync, adapterVars, boundVars, callVars
  <2>2. PICK e \in Event : e = Head(external)
    BY <1>a, <2>1, TailKeeps
  <2>3. Shrunk(external, external', e)
    BY <1>a, <2>1, <2>2, ShrunkBy
  <2>4. dispatched' = dispatched + Tick(e)
    <3>1. dispatched \in Nat
      BY CountTypes
    <3>2. CASE DispatchSession \/ DispatchSync
      <4>1. dispatched' = dispatched /\ e.kind # "change"
        BY <2>2, <3>2 DEF DispatchSession, DispatchSync
      <4> QED BY <3>1, <4>1 DEF Tick
    <3>3. CASE DispatchChange
      <4>1. dispatched' = dispatched + 1 /\ e.kind = "change"
        BY <2>2, <3>3 DEF DispatchChange
      <4> QED BY <4>1 DEF Tick
    <3> QED BY <1>5, <3>2, <3>3
  <2>5. ASSUME NEW u \in Threads
        PROVE  \/ caller'[u] = caller[u]
               \/ /\ caller[u].pc = "waiting" /\ Answers(e, u) /\ caller'[u].pc = "signalled"
                  /\ caller'[u].id = caller[u].id /\ caller'[u].told = caller[u].told
    <3>1. CASE DispatchSession \/ DispatchChange
      BY <3>1 DEF DispatchSession, DispatchChange, callVars
    <3>2. CASE DispatchSync
      <4>1. PICK record \in [pc : Pcs, id : Nat, told : Nat] : record = caller[u]
        BY DEF TypeOK
      <4>2. \/ caller'[u] = caller[u]
            \/ /\ caller[u].pc = "waiting" /\ caller[u].id = e.id /\ e.kind = "sync"
               /\ caller'[u] = [record EXCEPT !.pc = "signalled"]
        BY <2>2, <3>2, <4>1 DEF DispatchSync
      <4>3. ASSUME caller'[u] = [record EXCEPT !.pc = "signalled"]
            PROVE  /\ caller'[u].pc = "signalled" /\ caller'[u].id = record.id
                   /\ caller'[u].told = record.told
        BY <4>1, <4>3
      <4> QED BY <4>1, <4>2, <4>3 DEF Answers
    <3> QED BY <1>5, <3>1, <3>2
  <2> QED BY <1>a, <2>1, <2>3, <2>4, <2>5, DispatchSyncs
<1>6. CASE \/ DispatchEnd \/ WaitForThreads \/ Deleted
           \/ \E c \in Clients : CreateClient(c) \/ AddClient(c) \/ EventThread(c)
                                   \/ DiscardClient(c) \/ Discarded(c)
           \/ \E u \in Users, c \in Clients : RemoveClient(u, c) \/ Removed(u, c)
  <2>1. UNCHANGED <<events, external, dispatched, changes, caller, syncId>>
    BY <1>6 DEF DispatchEnd, WaitForThreads, Deleted, CreateClient, AddClient, EventThread, Look,
                NoEvent, TakeEvent, Handled, DiscardClient, Discarded, RemoveClient, Removed,
                adapterVars, factoryVars, callVars, boundVars
  <2> QED BY <2>1, OtherSyncs
<1> QED BY <1>1, <1>2, <1>3, <1>4, <1>5, <1>6 DEF Next, Dispatcher, Destructor

\* synchronize() returns behind every change ZooKeeper had told of before its answer, with
\* any number of threads, calls, changes, lost connections and sessions.
THEOREM SyncIsBehindChanges == Spec => []SyncSeesChanges
<1>1. Init => TypeOK /\ SyncInv
  <2> SUFFICES ASSUME Init PROVE SyncInv
    BY InitTypes
  <2>1. /\ events = <<>> /\ external = <<>> /\ changes = 0 /\ dispatched = 0 /\ syncId = 0
        /\ \A t \in Threads : caller[t].pc = "idle" /\ caller[t].id = 0
    BY DEF Init, IdleCall
  <2>2. Positions(events) = {} /\ Positions(external) = {} /\ Len(events) = 0 /\ Len(external) = 0
    BY <2>1 DEF Positions
  <2>3. TotalInv
    BY <2>1, <2>2, CountZero DEF TotalInv, AllDispatched
  <2>4. IdInv
    BY <2>1, <2>2 DEF IdInv, Asking
  <2>5. \A t \in Threads : SeenInv(t)
    BY <2>1 DEF SeenInv
  <2> QED BY <2>3, <2>4, <2>5 DEF SyncInv
<1>2. TypeOK /\ SyncInv /\ [Next]_vars => (TypeOK /\ SyncInv)'
  BY StepTypes, StepSyncs
<1>3. TypeOK /\ SyncInv => SyncSeesChanges
  BY DEF TypeOK, SyncInv, SeenInv, SyncSeesChanges
<1> QED BY <1>1, <1>2, <1>3, PTL DEF Spec

-----------------------------------------------------------------------------
(* What is waited for is on its way *)

In(s) == {s[i] : i \in Positions(s)}
OnItsWay == In(events) \cup In(external)

LEMMA InAppend ==
  ASSUME NEW s \in Seq(Event), NEW e \in Event
  PROVE  In(Append(s, e)) = In(s) \cup {e}
<1>1. /\ Positions(Append(s, e)) = Positions(s) \cup {Len(s) + 1}
      /\ \A i \in Positions(s) : Append(s, e)[i] = s[i]
      /\ Append(s, e)[Len(s) + 1] = e
  BY AppendKeeps
<1>2. PICK later : later = Append(s, e)
  OBVIOUS
<1> QED BY <1>1, <1>2 DEF In

LEMMA InTail ==
  ASSUME NEW s \in Seq(Event), s # <<>>
  PROVE  Head(s) \in In(s) /\ In(s) = In(Tail(s)) \cup {Head(s)}
<1>1. PICK later \in Seq(Event) : later = Tail(s)
  BY TailKeeps
<1>2. /\ \A i \in Positions(later) : later[i] = s[i + 1] /\ i + 1 \in Positions(s)
      /\ \A i \in Positions(s) : i # 1 => i - 1 \in Positions(later) /\ later[i - 1] = s[i]
      /\ Head(s) = s[1] /\ 1 \in Positions(s)
  BY <1>1, TailKeeps
<1>3. Head(s) \in In(s)
  BY <1>2 DEF In
<1>4. In(later) \subseteq In(s)
  BY <1>2 DEF In
<1>5. In(s) \subseteq In(later) \cup {Head(s)}
  <2> SUFFICES ASSUME NEW i \in Positions(s), i # 1 PROVE s[i] \in In(later)
    BY <1>2 DEF In
  <2> QED BY <1>2 DEF In
<1> QED BY <1>1, <1>3, <1>4, <1>5

\* A call of synchronize() that waits has its event before it, in one of the two queues.
AnswerUnderWay ==
  \A t \in Threads : caller[t].pc = "waiting" => \E e \in OnItsWay : Answers(e, t)

Ends(s) == \E e \in In(s) : e.kind = "end"
Up == factory \in {"connecting", "running"}

\* While ~FactoryOps waits for its threads they have ended, or the end event is before them.
EndUnderWay ==
  /\ Up => adapter
  /\ factory = "joining" => dispatcher # "loop" \/ (adapter /\ Ends(events)) \/ Ends(external)
  /\ factory \notin {"connecting", "running", "joining"} => dispatcher = "ended"
  /\ factory = "disconnected" => ~adapter \/ Ends(events)

EndsInv == EndUnderWay /\ (Up => ~Ends(events))

\* What a step does to the two queues
Delivers(e) == external # <<>> /\ e = Head(external) /\ In(external) = In(external') \cup {e}

LEMMA QueueSteps ==
  ASSUME TypeOK, [Next]_vars
  PROVE  \/ UNCHANGED <<events, external, adapter>>
         \/ /\ \E e \in Event : In(events') = In(events) \cup {e}
            /\ UNCHANGED <<external, adapter>>
         \/ /\ Process
            /\ \E e \in Event : /\ In(events) = In(events') \cup {e}
                                /\ In(external') = In(external) \cup {e}
                                /\ e = Head(events)
         \/ /\ DispatchSession \/ DispatchSync \/ DispatchChange
            /\ \E e \in Event : Delivers(e)
            /\ UNCHANGED <<events, adapter>>
<1>a. events \in Seq(Event) /\ external \in Seq(Event)
  BY DEF TypeOK
<1>b. ASSUME NEW e \in Event, events' = Append(events, e)
      PROVE  In(events') = In(events) \cup {e}
  BY <1>a, <1>b, InAppend
<1>1. CASE UNCHANGED vars
  BY <1>1 DEF vars
<1>2. CASE Connect \/ Lose \/ Expire \/ Change \/ InjectEndEvent \/ Disconnect
  <2>1. /\ \E kind \in Kinds : events' = Append(events, E(kind))
        /\ UNCHANGED <<external, adapter>>
    BY <1>2 DEF Connect, Lose, Expire, SessionEvent, Change, InjectEndEvent, Disconnect, Kinds,
                factoryVars
  <2> QED BY <1>b, <2>1, EventTypes
<1>3. ASSUME NEW t \in Threads, PutSync(t)
      PROVE  /\ \E e \in Event : In(events') = In(events) \cup {e}
             /\ UNCHANGED <<external, adapter>>
  <2>1. SyncEvent(caller[t].id) \in Event
    BY EventTypes DEF TypeOK
  <2> QED BY <1>3, <1>b, <2>1 DEF PutSync, factoryVars
<1>4. ASSUME NEW t \in Threads,
             \/ Answer(t) \/ Synchronize(t) \/ Verify(t) \/ Awake(t) \/ Ask(t) \/ Return(t)
             \/ TimeOut(t)
      PROVE  UNCHANGED <<events, external, adapter>>
  BY <1>4 DEF Answer, Synchronize, Verify, Awake, Ask, Return, TimeOut, adapterVars, factoryVars
<1>5. CASE Process
  <2>1. PICK e \in Event : e = Head(events)
    BY <1>5, <1>a, TailKeeps DEF Process
  <2>2. /\ events # <<>> /\ events' = Tail(events) /\ external' = Append(external, e)
    BY <1>5, <2>1 DEF Process
  <2>3. In(events) = In(events') \cup {e} /\ In(external') = In(external) \cup {e}
    BY <1>a, <2>1, <2>2, InTail, InAppend
  <2> QED BY <1>5, <2>1, <2>3
<1>6. CASE DispatchSession \/ DispatchSync \/ DispatchChange
  <2>1. external # <<>> /\ external' = Tail(external) /\ UNCHANGED <<events, adapter>>
    BY <1>6 DEF DispatchSession, DispatchSync, DispatchChange, adapterVars
  <2>2. PICK e \in Event : e = Head(external)
    BY <1>a, <2>1, TailKeeps
  <2>3. Delivers(e)
    BY <1>a, <2>1, <2>2, InTail DEF Delivers
  <2> QED BY <1>6, <2>1, <2>3
<1>7. CASE \/ DispatchEnd \/ WaitForThreads \/ Deleted
           \/ \E c \in Clients : CreateClient(c) \/ AddClient(c) \/ EventThread(c)
                                   \/ DiscardClient(c) \/ Discarded(c)
           \/ \E u \in Users, c \in Clients : RemoveClient(u, c) \/ Removed(u, c)
  BY <1>7 DEF DispatchEnd, WaitForThreads, Deleted, CreateClient, AddClient, EventThread, Look,
              NoEvent, TakeEvent, Handled, DiscardClient, Discarded, RemoveClient, Removed,
              adapterVars, factoryVars
<1> QED BY <1>1, <1>2, <1>3, <1>4, <1>5, <1>6, <1>7 DEF Next, Call, Dispatcher, Destructor

\* What a step does to the callers that wait
LEMMA WaitingSteps ==
  ASSUME TypeOK, [Next]_vars, NEW t \in Threads, caller'[t].pc = "waiting"
  PROVE  \/ /\ caller[t].pc = "waiting" /\ caller'[t].id = caller[t].id
            /\ DispatchSync => ~Answers(Head(external), t)
         \/ /\ PutSync(t) /\ caller'[t].id = caller[t].id
<1>a. /\ caller[t] \in [pc : Pcs, id : Nat, told : Nat]
      /\ caller \in [Threads -> [pc : Pcs, id : Nat, told : Nat]]
  BY DEF TypeOK
<1>1. ASSUME NEW u \in Threads, Answer(u) \/ Synchronize(u) \/ Call(u) \/ TimeOut(u)
      PROVE  \/ caller'[t] = caller[t]
             \/ PutSync(t) /\ caller'[t].id = caller[t].id
  <2>1. CASE u # t
    BY <1>1, <2>1, CallChanges
  <2>2. CASE u = t /\ PutSync(t)
    BY <1>a, <2>2 DEF PutSync
  <2>3. CASE u = t /\ ~PutSync(t)
    <3>1. PICK record \in [pc : Pcs, id : Nat, told : Nat] : record = caller[t]
      BY <1>a
    <3>2. \/ caller' = caller
          \/ caller'[t] = IdleCall
          \/ caller'[t] = [pc |-> "verify", id |-> syncId + 1, told |-> 0]
          \/ \E label \in {"ask", "await", "asked"} : caller'[t] = [record EXCEPT !.pc = label]
          \/ caller'[t] = [record EXCEPT !.pc = "answered", !.told = changes]
      BY <1>1, <1>a, <2>3, <3>1 DEF Answer, Synchronize, Call, Verify, Awake, Ask, Return, TimeOut,
                                    Throw
    <3>3. ASSUME NEW label \in {"ask", "await", "asked"},
                 caller'[t] = [record EXCEPT !.pc = label]
          PROVE  FALSE
      BY <3>1, <3>3
    <3>4. CASE caller'[t] = [record EXCEPT !.pc = "answered", !.told = changes]
      BY <3>1, <3>4
    <3>5. CASE \/ caller'[t] = IdleCall
               \/ caller'[t] = [pc |-> "verify", id |-> syncId + 1, told |-> 0]
      BY <3>5 DEF IdleCall
    <3> QED BY <3>2, <3>3, <3>4, <3>5
  <2> QED BY <2>1, <2>2, <2>3
<1>2. CASE DispatchSync
  <2>1. ~(caller[t].pc = "waiting" /\ Answers(Head(external), t))
    <3> SUFFICES ASSUME caller[t].pc = "waiting", Answers(Head(external), t) PROVE FALSE
      OBVIOUS
    <3>1. caller'[t] = [caller[t] EXCEPT !.pc = "signalled"]
      BY <1>2 DEF DispatchSync, Answers
    <3> QED BY <1>a, <3>1
  <2>2. caller'[t] = caller[t]
    BY <1>2, <2>1 DEF DispatchSync, Answers
  <2> QED BY <2>1, <2>2
<1>3. CASE UNCHANGED vars
  BY <1>3 DEF vars, DispatchSync, TypeOK
<1>4. CASE \/ Connect \/ Lose \/ Expire \/ Change \/ Process
           \/ DispatchSession \/ DispatchChange \/ DispatchEnd
           \/ \E c \in Clients : CreateClient(c) \/ AddClient(c) \/ EventThread(c)
           \/ \E u \in Users, c \in Clients : RemoveClient(u, c) \/ Removed(u, c)
           \/ InjectEndEvent \/ Destructor
  <2>1. caller' = caller
    BY <1>4 DEF Connect, Lose, Expire, SessionEvent, Change, Process, DispatchSession,
                DispatchChange, DispatchEnd, CreateClient, AddClient, EventThread, Look, NoEvent,
                TakeEvent, Handled, RemoveClient, Removed, InjectEndEvent, Destructor,
                WaitForThreads, Disconnect, Deleted, DiscardClient, Discarded, callVars
  <2> QED BY <1>2, <2>1
<1>5. CASE \E u \in Threads : Answer(u) \/ Synchronize(u) \/ Call(u) \/ TimeOut(u)
  BY <1>1, <1>2, <1>5
<1> QED BY <1>2, <1>3, <1>4, <1>5 DEF Next, Dispatcher

LEMMA AnswerStep ==
  ASSUME TypeOK, AnswerUnderWay, [Next]_vars
  PROVE  AnswerUnderWay'
<1> SUFFICES ASSUME NEW t \in Threads, caller'[t].pc = "waiting"
             PROVE  \E e \in (OnItsWay)' : Answers(e, t)'
  BY DEF AnswerUnderWay
<1>1. CASE PutSync(t) /\ caller'[t].id = caller[t].id
  <2>1. PICK e \in Event : e = SyncEvent(caller[t].id)
    BY EventTypes DEF TypeOK
  <2>2. e.kind = "sync" /\ e.id = caller'[t].id
    BY <1>1, <2>1 DEF SyncEvent
  <2>3. e \in In(events')
    BY <1>1, <2>1, InAppend DEF PutSync, TypeOK
  <2> QED BY <2>2, <2>3 DEF OnItsWay, Answers
<1>2. CASE /\ caller[t].pc = "waiting" /\ caller'[t].id = caller[t].id
           /\ DispatchSync => ~Answers(Head(external), t)
  <2>1. PICK e \in OnItsWay : Answers(e, t)
    BY <1>2 DEF AnswerUnderWay
  <2>2. Answers(e, t)'
    BY <1>2, <2>1 DEF Answers
  <2>3. e \in (OnItsWay)'
    <3>1. CASE \/ UNCHANGED <<events, external, adapter>>
               \/ /\ \E f \in Event : In(events') = In(events) \cup {f}
                  /\ UNCHANGED <<external, adapter>>
      BY <2>1, <3>1 DEF OnItsWay, In
    <3>2. CASE \E f \in Event : /\ In(events) = In(events') \cup {f}
                                /\ In(external') = In(external) \cup {f}
      BY <2>1, <3>2 DEF OnItsWay
    <3>3. CASE /\ DispatchSession \/ DispatchSync \/ DispatchChange
               /\ \E f \in Event : Delivers(f)
               /\ UNCHANGED <<events, adapter>>
      <4>1. DispatchSession \/ DispatchChange => Head(external).kind # "sync"
        BY DEF DispatchSession, DispatchChange
      <4>2. e # Head(external)
        BY <1>2, <2>1, <3>3, <4>1 DEF Answers
      <4>3. In(external) = In(external') \cup {Head(external)}
        BY <3>3 DEF Delivers
      <4> QED BY <2>1, <3>3, <4>2, <4>3 DEF OnItsWay
    <3> QED BY <3>1, <3>2, <3>3, QueueSteps
  <2> QED BY <2>2, <2>3
<1> QED BY <1>1, <1>2, WaitingSteps

\* The event that a call of synchronize() waits for is never lost, whatever other calls,
\* lost connections, new sessions and the events of other threads come between: so a call
\* is left waiting only by an external event thread that has ended or stands still.  This
\* is the part of SyncReturns that is safety.
THEOREM AnswersAreUnderWay == Spec => []AnswerUnderWay
<1>1. Init => TypeOK /\ AnswerUnderWay
  BY InitTypes DEF Init, IdleCall, AnswerUnderWay
<1>2. TypeOK /\ AnswerUnderWay /\ [Next]_vars => (TypeOK /\ AnswerUnderWay)'
  BY StepTypes, AnswerStep
<1> QED BY <1>1, <1>2, PTL DEF Spec

\* A step of another part than ~FactoryOps and the threads that it waits for
LEMMA EndsKept ==
  ASSUME EndsInv, UNCHANGED <<factory, dispatcher, adapter, external>>,
         events' = events \/ \E e : In(events') = In(events) \cup {e} /\ e.kind # "end"
  PROVE  EndsInv'
<1>1. Ends(events') <=> Ends(events)
  BY DEF Ends
<1> QED BY <1>1 DEF EndsInv, EndUnderWay, Up, Ends

LEMMA EndsStep ==
  ASSUME TypeOK, EndsInv, [Next]_vars
  PROVE  EndsInv'
<1>a. /\ events \in Seq(Event) /\ external \in Seq(Event)
      /\ adapter \in BOOLEAN /\ dispatcher \in {"loop", "end", "ended"}
      /\ factory \in {"connecting", "running", "joining", "discarding", "disconnected", "deleted"}
  BY DEF TypeOK
<1>1. CASE UNCHANGED vars
  BY <1>1, EndsKept DEF vars
<1>2. CASE Connect \/ Lose \/ Expire \/ Change
  <2>1. /\ \E kind \in Kinds \ {"end"} : events' = Append(events, E(kind))
        /\ UNCHANGED <<factory, dispatcher, adapter, external>>
    BY <1>2 DEF Connect, Lose, Expire, SessionEvent, Change, Kinds, factoryVars
  <2>2. PICK e \in Event : e.kind # "end" /\ events' = Append(events, e)
    BY <2>1, EventTypes DEF E
  <2>3. In(events') = In(events) \cup {e}
    BY <1>a, <2>2, InAppend
  <2> QED BY <2>1, <2>2, <2>3, EndsKept
<1>3. ASSUME NEW t \in Threads, Answer(t) \/ Synchronize(t) \/ Call(t) \/ TimeOut(t)
      PROVE  EndsInv'
  <2>1. UNCHANGED <<factory, dispatcher, adapter, external>>
    BY <1>3 DEF Answer, Synchronize, Call, Verify, Awake, Ask, PutSync, Return, TimeOut,
                adapterVars, factoryVars
  <2>2. CASE PutSync(t)
    <3>1. PICK e \in Event : e = SyncEvent(caller[t].id)
      BY EventTypes DEF TypeOK
    <3>2. In(events') = In(events) \cup {e} /\ e.kind # "end"
      BY <1>a, <2>2, <3>1, InAppend DEF PutSync, SyncEvent
    <3> QED BY <2>1, <3>2, EndsKept
  <2>3. CASE ~PutSync(t)
    <3>1. events' = events
      BY <1>3, <2>3 DEF Answer, Synchronize, Call, Verify, Awake, Ask, Return, TimeOut, adapterVars
    <3> QED BY <2>1, <3>1, EndsKept
  <2> QED BY <2>2, <2>3
<1>4. CASE Process
  <2>1. /\ adapter /\ adapter' = (Head(events).kind # "end")
        /\ UNCHANGED <<factory, dispatcher>>
    BY <1>4 DEF Process
  <2>2. PICK e \in Event : /\ In(events) = In(events') \cup {e}
                           /\ In(external') = In(external) \cup {e}
                           /\ e = Head(events)
    <3>1. events # <<>> /\ events' = Tail(events) /\ external' = Append(external, Head(events))
      BY <1>4 DEF Process
    <3>2. PICK e \in Event : e = Head(events)
      BY <1>a, <3>1, TailKeeps
    <3> QED BY <1>a, <3>1, <3>2, InTail, InAppend
  <2>3. CASE e.kind = "end"
    <3>1. ~adapter' /\ Ends(events) /\ Ends(external')
      BY <2>1, <2>2, <2>3 DEF Ends
    <3>2. ~Up
      BY <3>1 DEF EndsInv
    <3> QED BY <2>1, <3>1, <3>2 DEF EndsInv, EndUnderWay, Up, Ends
  <2>4. CASE e.kind # "end"
    <3>1. /\ adapter' /\ Ends(events') <=> Ends(events)
      BY <2>1, <2>2, <2>4 DEF Ends
    <3>2. Ends(external') <=> Ends(external)
      BY <2>2, <2>4 DEF Ends
    <3>3. adapter' = TRUE /\ adapter = TRUE
      BY <2>1, <2>2, <2>4
    <3> QED BY <2>1, <3>1, <3>2, <3>3 DEF EndsInv, EndUnderWay, Up, Ends
  <2> QED BY <2>3, <2>4
<1>5. CASE DispatchSession \/ DispatchSync \/ DispatchChange
  <2>1. dispatcher = "loop" /\ UNCHANGED <<events, adapter>>
    BY <1>5 DEF DispatchSession, DispatchSync, DispatchChange, adapterVars
  <2>2. In(external) = In(external') \cup {Head(external)}
    <3>1. external # <<>> /\ external' = Tail(external)
      BY <1>5 DEF DispatchSession, DispatchSync, DispatchChange
    <3> QED BY <1>a, <3>1, InTail
  <2>3. /\ factory' = factory \/ (factory = "connecting" /\ factory' = "running")
        /\ Head(external).kind = "end" => dispatcher' = "end"
    BY <1>5, Zenon DEF DispatchSession, DispatchSync, DispatchChange
  <2>4. Up' <=> Up
    BY <2>3 DEF Up
  <2>5. factory \in {"connecting", "running", "joining"}
    BY <2>1 DEF EndsInv, EndUnderWay
  <2>6. Ends(external) => Ends(external') \/ dispatcher' = "end"
    BY <2>2, <2>3 DEF Ends
  <2>7. /\ factory' \in {"connecting", "running", "joining"}
        /\ factory' = "joining" => factory = "joining"
    BY <2>3, <2>5
  <2> QED BY <2>1, <2>4, <2>6, <2>7 DEF EndsInv, EndUnderWay, Ends
<1>6. CASE DispatchEnd
  <2>1. /\ dispatcher = "end" /\ dispatcher' = "ended"
        /\ UNCHANGED <<factory, adapter, events, external>>
    BY <1>6 DEF DispatchEnd, adapterVars
  <2> QED BY <2>1 DEF EndsInv, EndUnderWay, Up, Ends
<1>7. CASE InjectEndEvent \/ Disconnect
  <2>1. events' = Append(events, E("end")) /\ UNCHANGED <<dispatcher, adapter, external>>
    BY <1>7 DEF InjectEndEvent, Disconnect, factoryVars
  <2>2. PICK e \in Event : e = E("end")
    BY EventTypes DEF Kinds
  <2>3. In(events') = In(events) \cup {e} /\ e.kind = "end"
    BY <1>a, <2>1, <2>2, InAppend DEF E
  <2>4. Ends(events')
    BY <2>3 DEF Ends
  <2>5. CASE InjectEndEvent
    <3>1. factory = "running" /\ factory' = "joining"
      BY <2>5 DEF InjectEndEvent
    <3> QED BY <2>1, <2>4, <3>1 DEF EndsInv, EndUnderWay, Up, Ends
  <2>6. CASE Disconnect
    <3>1. factory = "discarding" /\ factory' = "disconnected"
      BY <2>6 DEF Disconnect
    <3> QED BY <2>1, <2>4, <3>1 DEF EndsInv, EndUnderWay, Up, Ends
  <2> QED BY <1>7, <2>5, <2>6
<1>8. CASE WaitForThreads \/ Deleted
  <2>1. UNCHANGED <<dispatcher, adapter, events, external>>
    BY <1>8 DEF WaitForThreads, Deleted, adapterVars, factoryVars
  <2>2. \/ factory = "joining" /\ dispatcher = "ended" /\ factory' = "discarding"
        \/ factory = "disconnected" /\ factory' = "deleted"
    BY <1>8 DEF WaitForThreads, Deleted
  <2> QED BY <2>1, <2>2 DEF EndsInv, EndUnderWay, Up, Ends
<1>9. CASE \/ \E c \in Clients : CreateClient(c) \/ AddClient(c) \/ EventThread(c)
                                   \/ DiscardClient(c) \/ Discarded(c)
           \/ \E u \in Users, c \in Clients : RemoveClient(u, c) \/ Removed(u, c)
  <2>1. UNCHANGED <<factory, dispatcher, adapter, events, external>>
    BY <1>9 DEF CreateClient, AddClient, EventThread, Look, NoEvent, TakeEvent, Handled,
                DiscardClient, Discarded, RemoveClient, Removed, adapterVars, factoryVars
  <2> QED BY <2>1, EndsKept
<1> QED BY <1>1, <1>2, <1>3, <1>4, <1>5, <1>6, <1>7, <1>8, <1>9 DEF Next, Dispatcher, Destructor

\* ~FactoryOps never joins a thread that nothing will end: the end event that it has put is
\* before the adapter's or the external event thread until that thread has ended, whatever
\* an expired session has ended before, and disconnect() puts another one for an adapter
\* that goes on.  This is the part of ShutdownCompletes that is safety.
THEOREM EndsAreUnderWay == Spec => []EndUnderWay
<1>1. Init => TypeOK /\ EndsInv
  <2> SUFFICES ASSUME Init PROVE EndsInv
    BY InitTypes
  <2>1. factory = "connecting" /\ adapter /\ In(events) = {}
    BY DEF Init, In, Positions
  <2> QED BY <2>1 DEF EndsInv, EndUnderWay, Ends
<1>2. TypeOK /\ EndsInv /\ [Next]_vars => (TypeOK /\ EndsInv)'
  BY StepTypes, EndsStep
<1>3. EndsInv => EndUnderWay
  BY DEF EndsInv
<1> QED BY <1>1, <1>2, <1>3, PTL DEF Spec

=============================================================================
