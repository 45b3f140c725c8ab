------------------------------ MODULE Session -------------------------------
(***************************************************************************)
(* The session with ZooKeeper from its start to the end of the Factory:    *)
(* the adapter's state and its thread of events (src/src/core/zkadapter.cc)*)
(* the external event thread, synchronize(), the clients and ~FactoryOps   *)
(* (src/src/core/factoryops.cc) and the clients' event threads             *)
(* (src/src/core/clientimpl.cc).                                           *)
(*                                                                         *)
(* Events go from ZooKeeper's threads into m_events, through processEvents *)
(* to the external events, and from there to the clients' queues.  The     *)
(* second hop of the adapter (m_userEvents) and the event adapters pass    *)
(* events on in order and are part of the queue of external events.        *)
(***************************************************************************)
EXTENDS Naturals, Sequences, FiniteSets

CONSTANTS Users,       \* threads of the program that call synchronize()
          Clients,     \* the clients that may be created
          NoThread,
          MaxSyncs,    \* bound: calls of synchronize()
          MaxChanges,  \* bound: watched nodes that change
          MaxFaults,   \* bound: lost connections and expired sessions
          MaxTimeouts  \* bound: waits for a connection that end without one

ASSUME SessionAssumption ==
  /\ NoThread \notin Users \cup Clients /\ Users \cap Clients = {}
  /\ MaxSyncs \in Nat /\ MaxChanges \in Nat /\ MaxFaults \in Nat /\ MaxTimeouts \in Nat

VARIABLES
  session,    \* what ZooKeeper holds of mp_zkHandle's session; "none" without a handle
  state,      \* m_state of the adapter
  stateOwner, \* the thread that has thrown with m_stateLock in its hands
  events,     \* m_events of the adapter
  adapter,    \* processEvents() runs
  external,   \* the external events
  dispatcher, \* dispatchExternalEvents(): "loop", "end" (dispatchEndEvent) or "ended"
  connected,  \* m_connected of the Factory
  clients,    \* m_clients
  clientsLock,\* the thread that has the clients lock over more than one step
  client,     \* each client's thread and queue
  caller,     \* where each thread is in synchronize()
  syncId,     \* m_syncEventId
  changes,    \* changes ZooKeeper has told of
  dispatched, \* changes the external event thread has handled
  factory,    \* where the constructor or ~FactoryOps is
  faults, timeouts

vars == <<session, state, stateOwner, events, adapter, external, dispatcher, connected,
          clients, clientsLock, client, caller, syncId, changes, dispatched, factory,
          faults, timeouts>>

adapterVars == <<session, state, stateOwner, events, adapter>>
factoryVars == <<external, dispatcher, connected, dispatched>>
clientVars == <<clients, clientsLock, client>>
callVars == <<caller, syncId>>
boundVars == <<changes, faults, timeouts>>

-----------------------------------------------------------------------------
Threads == Users \cup Clients   \* a client's handlers call synchronize(), too

Kinds == {"connecting", "connected", "expired", "end", "change", "sync"}
Event == [kind : Kinds, id : Nat]
E(kind) == [kind |-> kind, id |-> 0]
SyncEvent(id) == [kind |-> "sync", id |-> id]

IdleCall == [pc |-> "idle", id |-> 0, told |-> 0]
NoClient == [pc |-> "none", queue |-> <<>>, signalled |-> FALSE]

Init ==
  /\ session = "connecting" /\ state = "CONNECTING" /\ stateOwner = NoThread
  /\ events = <<>> /\ adapter = TRUE
  /\ external = <<>> /\ dispatcher = "loop" /\ connected = FALSE
  /\ clients = {} /\ clientsLock = NoThread
  /\ client = [c \in Clients |-> NoClient]
  /\ caller = [t \in Threads |-> IdleCall]
  /\ syncId = 0 /\ changes = 0 /\ dispatched = 0
  /\ factory = "connecting"
  /\ faults = 0 /\ timeouts = 0

-----------------------------------------------------------------------------
(* ZooKeeper: its threads call zkWatcher(), which puts the event into m_events. *)

SessionEvent(from, to) ==
  /\ session = from /\ session' = to
  /\ events' = Append(events, E(to))
  /\ UNCHANGED <<state, stateOwner, adapter, factoryVars, clientVars, callVars,
                 changes, timeouts, factory>>

Connect == SessionEvent("connecting", "connected") /\ UNCHANGED faults

Lose == faults < MaxFaults /\ SessionEvent("connected", "connecting") /\ faults' = faults + 1

Expire == faults < MaxFaults /\ SessionEvent("connecting", "expired") /\ faults' = faults + 1

Change ==
  /\ session = "connected" /\ changes < MaxChanges
  /\ changes' = changes + 1
  /\ events' = Append(events, E("change"))
  /\ UNCHANGED <<session, state, stateOwner, adapter, factoryVars, clientVars, callVars,
                 faults, timeouts, factory>>

\* waitCompletion(): the answer to zoo_async, or the failure sync() does not look at
Answer(t) ==
  /\ caller[t].pc = "asked"
  /\ caller' = [caller EXCEPT ![t].pc = "answered", ![t].told = changes]
  /\ UNCHANGED <<adapterVars, factoryVars, clientVars, syncId, boundVars, factory>>

-----------------------------------------------------------------------------
(* synchronize() *)

StateLockFree(t) == stateOwner \in {NoThread, t}

\* A client's thread calls from a handler, a user's while the Factory is there.
MayCall(t) == IF t \in Clients THEN client[t].pc = "handling" ELSE factory = "running"

\* The id is taken under the lock; the reference to its signal is taken with it.
Synchronize(t) ==
  /\ caller[t].pc = "idle" /\ MayCall(t)
  /\ syncId < MaxSyncs
  /\ syncId' = syncId + 1
  /\ caller' = [caller EXCEPT ![t] = [pc |-> "verify", id |-> syncId + 1, told |-> 0]]
  /\ UNCHANGED <<adapterVars, factoryVars, clientVars, boundVars, factory>>

\* The Exception leaves synchronize(): catch (ZooKeeperException) does not match it, so
\* verifyConnection() does not unlock m_stateLock.
Throw(t) ==
  /\ caller' = [caller EXCEPT ![t] = IdleCall]
  /\ stateOwner' = t

\* Fault: the state is left for the first event of the new session to set.
ReconnectLate ==
  /\ session' = "connecting"
  /\ UNCHANGED state

\* reconnect(): the old handle is closed, its events stay in m_events.
Reconnect ==
  /\ session' = "connecting"
  /\ state' = "CONNECTING"

\* verifyConnection()
Verify(t) ==
  /\ caller[t].pc = "verify" /\ StateLockFree(t)
  /\ \/ /\ state = "CONNECTED"
        /\ caller' = [caller EXCEPT ![t].pc = "ask"]
        /\ UNCHANGED <<session, state, stateOwner>>
     \/ /\ state = "CONNECTING"
        /\ caller' = [caller EXCEPT ![t].pc = "await"]
        /\ UNCHANGED <<session, state, stateOwner>>
     \/ /\ state = "SESSION_EXPIRED"
        /\ Reconnect
        /\ caller' = [caller EXCEPT ![t].pc = "await"]
        /\ UNCHANGED stateOwner
     \/ /\ state \in {"DISCONNECTED", "NORECONNECT"}
        /\ Throw(t)
        /\ UNCHANGED <<session, state>>
  /\ UNCHANGED <<events, adapter, factoryVars, clientVars, syncId, boundVars, factory>>

\* waitUntilConnected(): woken by setState()
Awake(t) ==
  /\ caller[t].pc = "await" /\ StateLockFree(t)
  /\ \/ /\ state = "CONNECTED"
        /\ caller' = [caller EXCEPT ![t].pc = "ask"]
        /\ UNCHANGED <<session, state>>
     \/ /\ state = "SESSION_EXPIRED"
        /\ Reconnect
        /\ UNCHANGED caller
  /\ UNCHANGED <<events, adapter, stateOwner, factoryVars, clientVars, syncId, boundVars,
                 factory>>

TimeOut(t) ==
  /\ caller[t].pc = "await" /\ StateLockFree(t)
  /\ timeouts < MaxTimeouts /\ timeouts' = timeouts + 1
  /\ state # "CONNECTED"
  /\ Throw(t)
  /\ UNCHANGED <<session, state, events, adapter, factoryVars, clientVars, syncId, changes,
                 faults, factory>>

\* zoo_async(), without the lock; no ZOK, and no lock to leave, once the session is gone
Ask(t) ==
  /\ caller[t].pc = "ask"
  /\ caller' = [caller EXCEPT ![t] =
       IF session \in {"connecting", "connected"} THEN [@ EXCEPT !.pc = "asked"] ELSE IdleCall]
  /\ UNCHANGED <<adapterVars, factoryVars, clientVars, syncId, boundVars, factory>>

\* Fault: straight to the listener.
PutSyncDirect(t) ==
  /\ caller[t].pc = "answered"
  /\ external' = Append(external, SyncEvent(caller[t].id))
  /\ caller' = [caller EXCEPT ![t].pc = "waiting"]
  /\ UNCHANGED <<adapterVars, dispatcher, connected, dispatched, clientVars, syncId,
                 boundVars, factory>>

\* sync() puts its own event behind those that came before the answer.
PutSync(t) ==
  /\ caller[t].pc = "answered"
  /\ events' = Append(events, SyncEvent(caller[t].id))
  /\ caller' = [caller EXCEPT ![t].pc = "waiting"]
  /\ UNCHANGED <<session, state, stateOwner, adapter, factoryVars, clientVars, syncId,
                 boundVars, factory>>

Return(t) ==
  /\ caller[t].pc = "signalled"
  /\ caller' = [caller EXCEPT ![t] = IdleCall]
  /\ UNCHANGED <<adapterVars, factoryVars, clientVars, syncId, boundVars, factory>>

-----------------------------------------------------------------------------
(* processEvents(): every event but a change is a ZOO_SESSION_EVENT, the one of a
   sync() has ZOO_CONNECTED_STATE, and the end event ZOO_EXPIRED_SESSION_STATE. *)

StateAfter(e) ==
  CASE e.kind \in {"connected", "sync"} -> "CONNECTED"
    [] e.kind = "connecting" -> "CONNECTING"
    [] e.kind = "expired" -> "SESSION_EXPIRED"
    [] e.kind \in {"end", "change"} -> state

Process ==
  /\ adapter /\ events # <<>>
  /\ Head(events).kind # "change" => stateOwner = NoThread
  /\ state' = StateAfter(Head(events))
  /\ events' = Tail(events)
  /\ external' = Append(external, Head(events))
  /\ adapter' = (Head(events).kind # "end")
  /\ UNCHANGED <<session, stateOwner, dispatcher, connected, dispatched, clientVars,
                 callVars, boundVars, factory>>

-----------------------------------------------------------------------------
(* dispatchExternalEvents() *)

SendAll(e) == client' = [c \in Clients |->
  IF c \in clients THEN [client[c] EXCEPT !.queue = Append(@, e)] ELSE client[c]]

\* dispatchSessionEvent(); m_firstConnect lets the constructor go on.
DispatchSession ==
  /\ dispatcher = "loop" /\ external # <<>>
  /\ Head(external).kind \in {"connecting", "connected", "expired", "end"}
  /\ external' = Tail(external)
  /\ connected' = CASE Head(external).kind = "connected" -> TRUE
                    [] Head(external).kind = "connecting" -> connected
                    [] OTHER -> FALSE
  /\ dispatcher' = IF Head(external).kind \in {"expired", "end"} THEN "end" ELSE "loop"
  /\ factory' = IF factory = "connecting" /\ connected' THEN "running" ELSE factory
  /\ UNCHANGED <<adapterVars, dispatched, clientVars, callVars, boundVars>>

\* Fault: only the youngest call is known.
DispatchLatest ==
  /\ dispatcher = "loop" /\ external # <<>> /\ Head(external).kind = "sync"
  /\ external' = Tail(external)
  /\ caller' = [t \in Threads |->
       IF caller[t].pc = "waiting" /\ caller[t].id = Head(external).id /\ caller[t].id = syncId
         THEN [caller[t] EXCEPT !.pc = "signalled"] ELSE caller[t]]
  /\ UNCHANGED <<adapterVars, dispatcher, connected, dispatched, clientVars, syncId,
                 boundVars, factory>>

\* handleSynchronizeChange(): the signal of the key, if its caller holds it
DispatchSync ==
  /\ dispatcher = "loop" /\ external # <<>> /\ Head(external).kind = "sync"
  /\ external' = Tail(external)
  /\ caller' = [t \in Threads |->
       IF caller[t].pc = "waiting" /\ caller[t].id = Head(external).id
         THEN [caller[t] EXCEPT !.pc = "signalled"] ELSE caller[t]]
  /\ UNCHANGED <<adapterVars, dispatcher, connected, dispatched, clientVars, syncId,
                 boundVars, factory>>

\* dispatchZKEvent(): the cache is updated, then the clients are told under their lock.
DispatchChange ==
  /\ dispatcher = "loop" /\ external # <<>> /\ Head(external).kind = "change"
  /\ clientsLock = NoThread
  /\ external' = Tail(external)
  /\ dispatched' = dispatched + 1
  /\ SendAll("change")
  /\ UNCHANGED <<adapterVars, dispatcher, connected, clients, clientsLock, callVars,
                 boundVars, factory>>

\* Fault: the thread goes on.
DispatchEndOn ==
  /\ dispatcher = "end" /\ clientsLock = NoThread
  /\ dispatcher' = "loop"
  /\ SendAll("end")
  /\ UNCHANGED <<adapterVars, external, connected, dispatched, clients, clientsLock,
                 callVars, boundVars, factory>>

\* dispatchEndEvent()
DispatchEnd ==
  /\ dispatcher = "end" /\ clientsLock = NoThread
  /\ dispatcher' = "ended"
  /\ SendAll("end")
  /\ UNCHANGED <<adapterVars, external, connected, dispatched, clients, clientsLock,
                 callVars, boundVars, factory>>

-----------------------------------------------------------------------------
(* The clients *)

\* createClient(): what it has read of m_connected may be over when the client is added.
CreateClient(c) ==
  /\ factory = "running" /\ connected /\ client[c].pc = "none"
  /\ client' = [client EXCEPT ![c].pc = "created"]
  /\ UNCHANGED <<adapterVars, factoryVars, clients, clientsLock, callVars, boundVars, factory>>

AddClient(c) ==
  /\ client[c].pc = "created" /\ clientsLock = NoThread
  /\ client' = [client EXCEPT ![c].pc = "loop"]
  /\ clients' = clients \cup {c}
  /\ UNCHANGED <<adapterVars, factoryVars, clientsLock, callVars, boundVars, factory>>

\* Fault: only the end event ends the loop.
LookForEnd(c) ==
  /\ client[c].pc = "loop"
  /\ client' = [client EXCEPT ![c].pc = "take"]
  /\ UNCHANGED <<adapterVars, factoryVars, clients, clientsLock, callVars, boundVars, factory>>

\* consumeUserEvents(): the signal of ~ClientImpl is looked at before each event.
Look(c) ==
  /\ client[c].pc = "loop"
  /\ client' = [client EXCEPT ![c].pc = IF client[c].signalled THEN "ended" ELSE "take"]
  /\ UNCHANGED <<adapterVars, factoryVars, clients, clientsLock, callVars, boundVars, factory>>

\* One second without an event
NoEvent(c) ==
  /\ client[c].pc = "take" /\ client[c].queue = <<>>
  /\ client' = [client EXCEPT ![c].pc = "loop"]
  /\ UNCHANGED <<adapterVars, factoryVars, clients, clientsLock, callVars, boundVars, factory>>

TakeEvent(c) ==
  /\ client[c].pc = "take" /\ client[c].queue # <<>>
  /\ client' = [client EXCEPT ![c].pc =
                  IF Head(client[c].queue) = "end" THEN "handlingEnd" ELSE "handling",
                              ![c].queue = Tail(@)]
  /\ UNCHANGED <<adapterVars, factoryVars, clients, clientsLock, callVars, boundVars, factory>>

\* The handlers return; after the end event the loop does, too.
Handled(c) ==
  /\ client[c].pc \in {"handling", "handlingEnd"} /\ caller[c].pc = "idle"
  /\ client' = [client EXCEPT ![c].pc = IF client[c].pc = "handling" THEN "loop" ELSE "ended"]
  /\ UNCHANGED <<adapterVars, factoryVars, clients, clientsLock, callVars, boundVars, factory>>

\* removeClient(): the lock is held until the client's thread has been joined.
RemoveClient(u, c) ==
  /\ factory = "running" /\ c \in clients /\ clientsLock = NoThread
  /\ caller[u].pc = "idle"
  /\ clientsLock' = u
  /\ clients' = clients \ {c}
  /\ client' = [client EXCEPT ![c].signalled = TRUE]
  /\ UNCHANGED <<adapterVars, factoryVars, callVars, boundVars, factory>>

Removed(u, c) ==
  /\ factory = "running" /\ clientsLock = u
  /\ client[c].signalled /\ client[c].pc = "ended"
  /\ clientsLock' = NoThread
  /\ client' = [client EXCEPT ![c] = [NoClient EXCEPT !.pc = "deleted"]]
  /\ UNCHANGED <<adapterVars, factoryVars, clients, callVars, boundVars, factory>>

-----------------------------------------------------------------------------
(* ~FactoryOps, when the program's own threads are done with the Factory *)

UsersDone ==
  /\ \A u \in Users : caller[u].pc = "idle" /\ clientsLock # u
  /\ \A c \in Clients : client[c].pc # "created"

InjectEndEvent ==
  /\ factory = "running" /\ UsersDone
  /\ events' = Append(events, E("end"))
  /\ factory' = "joining"
  /\ UNCHANGED <<session, state, stateOwner, adapter, factoryVars, clientVars, callVars,
                 boundVars>>

\* waitForThreads(); the timer handler thread ends after dispatchEndEvent(), too.
WaitForThreads ==
  /\ factory = "joining" /\ dispatcher = "ended"
  /\ factory' = "discarding"
  /\ UNCHANGED <<adapterVars, factoryVars, clientVars, callVars, boundVars>>

\* discardAllClients(): one client after the other
DiscardClient(c) ==
  /\ factory = "discarding" /\ c \in clients
  /\ \A d \in clients : ~client[d].signalled
  /\ client' = [client EXCEPT ![c].signalled = TRUE]
  /\ UNCHANGED <<adapterVars, factoryVars, clients, clientsLock, callVars, boundVars, factory>>

Discarded(c) ==
  /\ factory = "discarding" /\ c \in clients
  /\ client[c].signalled /\ client[c].pc = "ended"
  /\ clients' = clients \ {c}
  /\ client' = [client EXCEPT ![c] = [NoClient EXCEPT !.pc = "deleted"]]
  /\ UNCHANGED <<adapterVars, factoryVars, clientsLock, callVars, boundVars, factory>>

\* disconnect(true)
Disconnect ==
  /\ factory = "discarding" /\ clients = {} /\ stateOwner = NoThread
  /\ session' = "none" /\ state' = "NORECONNECT"
  /\ events' = Append(events, E("end"))
  /\ factory' = "disconnected"
  /\ UNCHANGED <<stateOwner, adapter, factoryVars, clientVars, callVars, boundVars>>

\* ~ZooKeeperAdapter joins processEvents().
Deleted ==
  /\ factory = "disconnected" /\ ~adapter
  /\ factory' = "deleted"
  /\ UNCHANGED <<adapterVars, factoryVars, clientVars, callVars, boundVars>>

-----------------------------------------------------------------------------
Call(t) == Verify(t) \/ Awake(t) \/ Ask(t) \/ PutSync(t) \/ Return(t)
Dispatcher == DispatchSession \/ DispatchSync \/ DispatchChange \/ DispatchEnd
EventThread(c) == Look(c) \/ NoEvent(c) \/ TakeEvent(c) \/ Handled(c)
Destructor == \/ WaitForThreads \/ Disconnect \/ Deleted
              \/ \E c \in Clients : DiscardClient(c) \/ Discarded(c)

Next ==
  \/ Connect \/ Lose \/ Expire \/ Change
  \/ \E t \in Threads : Answer(t) \/ Synchronize(t) \/ Call(t) \/ TimeOut(t)
  \/ Process \/ Dispatcher
  \/ \E c \in Clients : CreateClient(c) \/ AddClient(c) \/ EventThread(c)
  \/ \E u \in Users, c \in Clients : RemoveClient(u, c) \/ Removed(u, c)
  \/ InjectEndEvent \/ Destructor

Spec == Init /\ [][Next]_vars

\* ZooKeeper connects and answers, the threads are scheduled, a join or a lock that
\* is free is taken.  Nobody has to call, create or remove anything.
Fairness ==
  /\ WF_vars(Connect) /\ WF_vars(Process)
  /\ WF_vars(DispatchSession \/ DispatchSync) /\ WF_vars(DispatchChange) /\ WF_vars(DispatchEnd)
  /\ \A t \in Threads : WF_vars(Answer(t)) /\ WF_vars(Call(t))
  /\ \A c \in Clients : WF_vars(AddClient(c)) /\ WF_vars(EventThread(c))
  /\ \A u \in Users : WF_vars(\E c \in Clients : Removed(u, c))
  /\ WF_vars(Destructor)

FairSpec == Spec /\ Fairness

-----------------------------------------------------------------------------
(* Properties *)

Pcs == {"idle", "verify", "await", "ask", "asked", "answered", "waiting", "signalled"}
ClientPcs == {"none", "created", "loop", "take", "handling", "handlingEnd", "ended", "deleted"}

\* Every variable keeps its type.
TypeOK ==
  /\ session \in {"connecting", "connected", "expired", "none"}
  /\ state \in {"CONNECTING", "CONNECTED", "SESSION_EXPIRED", "DISCONNECTED", "NORECONNECT"}
  /\ stateOwner \in Threads \cup {NoThread}
  /\ events \in Seq(Event) /\ external \in Seq(Event)
  /\ adapter \in BOOLEAN /\ connected \in BOOLEAN
  /\ dispatcher \in {"loop", "end", "ended"}
  /\ clients \subseteq Clients /\ clientsLock \in Users \cup {NoThread}
  /\ client \in [Clients -> [pc : ClientPcs, queue : Seq({"change", "end"}),
                             signalled : BOOLEAN]]
  /\ caller \in [Threads -> [pc : Pcs, id : Nat, told : Nat]]
  /\ syncId \in Nat /\ changes \in Nat /\ dispatched \in Nat
  /\ faults \in Nat /\ timeouts \in Nat
  /\ factory \in {"connecting", "running", "joining", "discarding", "disconnected", "deleted"}

Pending(kind) == \E i \in 1 .. Len(events) : events[i].kind = kind

\* When synchronize() is woken the external event thread has handled every change
\* ZooKeeper had told of before it answered zoo_async(), whatever other threads' calls,
\* lost connections and new sessions came between.
SyncSeesChanges == \A t \in Threads : caller[t].pc = "signalled" => dispatched >= caller[t].told

\* The adapter takes only a session that is over, or that disconnect() has ended, for
\* expired, so that no two threads reconnect one after the other and close each other's
\* session; and it knows of a connection as soon as it has handled what it has been sent.
AdapterKnowsSession ==
  /\ state = "SESSION_EXPIRED" => session \in {"expired", "none"}
  /\ session = "connected" /\ ~Pending("connected") => state = "CONNECTED"

\* The end event is the last a client gets, it gets one at most, and a client that is
\* deleted, or not yet in m_clients, is sent none: removeClient() and discardAllClients()
\* against the external event thread.  (Every variable has its type, too.)
EndIsLast ==
  /\ TypeOK
  /\ \A c \in Clients :
       /\ client[c].pc \in {"none", "created", "deleted"} => client[c].queue = <<>>
       /\ \A i \in 1 .. Len(client[c].queue) :
            client[c].queue[i] = "end" => i = Len(client[c].queue)
       /\ client[c].pc = "handlingEnd" => client[c].queue = <<>>

\* A handler that waits for what the threads that have ended would deliver.
Abandoned(t) == \/ caller[t].pc = "waiting" /\ dispatcher # "loop"
                \/ caller[t].pc = "await" /\ ~adapter

\* removeClient() has the clients lock, joins a client whose handler is in synchronize(),
\* and the event before its answer needs that lock.
RemoverWaits ==
  \E u \in Users, c \in Clients :
    clientsLock = u /\ client[c].signalled /\ caller[c].pc # "idle"

\* ~FactoryOps comes to its end, whatever the session does and whatever the clients'
\* threads are at, unless one of their handlers has been left in synchronize() or an
\* exception has left m_stateLock locked.
ShutdownCompletes ==
  factory = "joining" ~> \/ factory = "deleted"
                         \/ stateOwner # NoThread
                         \/ \E c \in Clients : Abandoned(c)

\* A call of synchronize() that ZooKeeper has answered returns, unless the external event
\* thread ends, waits for removeClient(), or the adapter's thread waits for m_stateLock.
SyncReturns ==
  \A t \in Threads :
    caller[t].pc = "asked" ~> \/ caller[t].pc = "idle"
                              \/ dispatcher # "loop"
                              \/ stateOwner # NoThread
                              \/ RemoverWaits
=============================================================================
