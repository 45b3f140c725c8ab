-------------------------------- MODULE Rpc --------------------------------
(***************************************************************************)
(* Remote procedure calls over distributed queues (clusterlibrpc.cc,       *)
(* jsonrpcmethodhandler.cc, jsonrpcresponsehandler.cc in src/src/core).  A *)
(* client process puts requests on the servers' queue and waits on a       *)
(* PredMutexCond of its response signal map; the servers' method handlers  *)
(* take requests and put the responses on the client's response queue; the *)
(* client's response handler takes them, stores them and signals.  Every   *)
(* handler is run by the client thread of its process for the user events  *)
(* that the process's event thread makes of the queue's one-shot watch     *)
(* (cachedobjectchangehandlers.cc, clientimpl.cc).                         *)
(*                                                                         *)
(* The queues are those of AbstractQueue: a put adds an element at the end *)
(* (two, when the reply to it was lost) and a take removes the first (and  *)
(* loses it when the reply was lost).                                      *)
(***************************************************************************)
EXTENDS Integers, Sequences, FiniteSets

CONSTANTS
  Requests,      \* the ClusterlibRPCRequest objects of the client process
  Servers,       \* processes with a registered method handler
  Responder,     \* the response handler of the client process
  NoWork,        \* no request
  Answerable,    \* does a request name a response queue? a set of BOOLEANs
  MaxCompleted,  \* m_completedQueueMaxSize: -1 for no limit
  MaxFaults      \* bound: lost replies, failed calls, methods that throw, dead servers

ASSUME RpcAssumption ==
  /\ Responder \notin Servers
  /\ NoWork \notin Requests
  /\ Answerable \subseteq BOOLEAN
  /\ MaxCompleted \in Nat \cup {-1}
  /\ MaxFaults \in Nat

VARIABLES
  inbox,      \* inbox: the servers' queue ("recv") and the client's ("resp")
  completed,  \* the number of elements in the completed queue
  watch,      \* watch[h]: the watch of h's process on the queue h handles
  event,      \* event[h]: the user events for h between ZooKeeper and the handler
  initial,    \* initial[h]: the initial run of h is still to come
  hpc,        \* hpc[h]: where the client thread that runs h is
  work,       \* work[h]: the request or response h has taken
  pc,         \* pc[r]: where the thread that uses request r is
  named,      \* named[r]: r names the client's response queue
  entry,      \* entry[r]: the PredMutexCond of r in the response signal map
  responses,  \* the requests whose response is in m_idResponseMap
  untrimmed,  \* how many elements were put on it without a look at its size
  faults

queues == <<inbox, completed, untrimmed>>
notices == <<watch, event, initial>>
handlers == <<hpc, work>>
callers == <<pc, named, entry, responses>>
vars == <<queues, notices, handlers, callers, faults>>

-----------------------------------------------------------------------------
Handlers == Servers \cup {Responder}
QueueOf(h) == IF h = Responder THEN "resp" ELSE "recv"

NoEvent == [read |-> FALSE, queued |-> 0]

HandlerPC == {"idle", "take", "waiting", "invoke", "record", "trim", "drop", "store",
              "signal", "dead"}
CallerPC == {"new", "ready", "sent", "waiting", "polling", "woken", "collect",
             "got", "failed", "broken"}

Init ==
  /\ inbox = [q \in {"recv", "resp"} |-> <<>>]
  /\ completed = 0
  /\ watch = [h \in Handlers |-> "armed"]
  /\ event = [h \in Handlers |-> NoEvent]
  /\ initial = [h \in Handlers |-> TRUE]
  /\ hpc = [h \in Handlers |-> "idle"]
  /\ work = [h \in Handlers |-> NoWork]
  /\ pc = [r \in Requests |-> "new"]
  /\ named = [r \in Requests |-> FALSE]
  /\ entry = [r \in Requests |-> "none"]
  /\ responses = {}
  /\ untrimmed = 0
  /\ faults = 0

-----------------------------------------------------------------------------
Fault == faults < MaxFaults /\ faults' = faults + 1
Run(h, label) == hpc' = [hpc EXCEPT ![h] = label]
Goto(r, label) == pc' = [pc EXCEPT ![r] = label]
\* An exception that leaves a handler ends the client thread and its process.
ClientUp == hpc[Responder] # "dead"

\* ZooKeeper triggers the watches on a queue that changed.
Changed(q, elements) ==
  /\ inbox' = [inbox EXCEPT ![q] = elements]
  /\ watch' = [h \in Handlers |-> IF QueueOf(h) = q /\ watch[h] = "armed" THEN "fired"
                                  ELSE watch[h]]

PutOnce(q, r) == Changed(q, Append(inbox[q], r)) /\ UNCHANGED faults
\* RetryHandler repeats the create of the element.
PutTwice(q, r) == Fault /\ Changed(q, inbox[q] \o <<r, r>>)

-----------------------------------------------------------------------------
(* The threads of the client process that send requests and wait *)

Ready(r) ==
  /\ ClientUp /\ pc[r] = "new"
  /\ entry' = [entry EXCEPT ![r] = "clear"]
  /\ \E n \in Answerable : named' = [named EXCEPT ![r] = n]
  /\ Goto(r, "ready")
  /\ UNCHANGED <<queues, notices, handlers, responses, faults>>

SendRequest(r) ==
  /\ ClientUp /\ pc[r] = "ready"
  /\ PutOnce("recv", r) \/ PutTwice("recv", r)
  /\ Goto(r, "sent")
  /\ UNCHANGED <<completed, untrimmed, event, initial, handlers, named, entry, responses>>

\* checkParams or the put throws: the reference stays in the signal map.
SendFails(r) ==
  /\ ClientUp /\ pc[r] = "ready"
  /\ Fault
  /\ \/ Changed("recv", Append(inbox["recv"], r))
     \/ UNCHANGED <<inbox, watch>>
  /\ Goto(r, "failed")
  /\ UNCHANGED <<completed, untrimmed, event, initial, handlers, named, entry, responses>>

\* waitResponse, or waitMsecsResponse with a timeout.  A request without a
\* response queue expects no answer.
CallWait(r) ==
  /\ ClientUp /\ pc[r] = "sent" /\ named[r]
  /\ Goto(r, "waiting") \/ Goto(r, "polling")
  /\ UNCHANGED <<queues, notices, handlers, named, entry, responses, faults>>

\* The predicate is sticky.
Awake(r) ==
  /\ ClientUp /\ pc[r] \in {"waiting", "polling"}
  /\ entry[r] = "set"
  /\ Goto(r, "woken")
  /\ UNCHANGED <<queues, notices, handlers, named, entry, responses, faults>>

\* Past the deadline a timed wait says no, whether it was signalled or not.
TimeOut(r) ==
  /\ ClientUp /\ pc[r] = "polling"
  /\ Goto(r, "sent")
  /\ UNCHANGED <<queues, notices, handlers, named, entry, responses, faults>>

Release(r) ==
  /\ ClientUp /\ pc[r] = "woken"
  /\ entry' = [entry EXCEPT ![r] = "none"]
  /\ Goto(r, "collect")
  /\ UNCHANGED <<queues, notices, handlers, named, responses, faults>>

\* getIdResponse throws when there is no response.
Collect(r) ==
  /\ ClientUp /\ pc[r] = "collect"
  /\ Goto(r, IF r \in responses THEN "got" ELSE "broken")
  /\ responses' = responses \ {r}
  /\ UNCHANGED <<queues, notices, handlers, named, entry, faults>>

-----------------------------------------------------------------------------
(* The event threads *)

\* handleQueueChildChange sets the watch again.
Rewatch(h) ==
  /\ hpc[h] # "dead"
  /\ watch[h] = "fired" /\ ~event[h].read
  /\ watch' = [watch EXCEPT ![h] = "armed"]
  /\ event' = [event EXCEPT ![h].read = TRUE]
  /\ UNCHANGED <<queues, initial, handlers, callers, faults>>

\* Then the user event is put into the queue of the client.
QueueEvent(h) ==
  /\ hpc[h] # "dead"
  /\ event[h].read
  /\ event' = [event EXCEPT ![h] = [read |-> FALSE, queued |-> @.queued + 1]]
  /\ UNCHANGED <<queues, watch, initial, handlers, callers, faults>>

-----------------------------------------------------------------------------
(* The client threads that run the handlers *)

\* A handler looks whether the queue is empty before it takes.
Check(h) == Run(h, IF inbox[QueueOf(h)] = <<>> THEN "idle" ELSE "take")

\* Fault: a handler is registered without its initial run.
SkipInitialRun(h) ==
  /\ hpc[h] = "idle" /\ initial[h]
  /\ initial' = [initial EXCEPT ![h] = FALSE]
  /\ UNCHANGED <<queues, watch, event, handlers, callers, faults>>

\* A handler with initialRun is called once before it gets any event.
InitialRun(h) ==
  /\ hpc[h] = "idle" /\ initial[h]
  /\ initial' = [initial EXCEPT ![h] = FALSE]
  /\ Check(h)
  /\ UNCHANGED <<queues, watch, event, work, callers, faults>>

\* Until then dispatchHandlers finds nobody for the event.
DropEvent(h) ==
  /\ hpc[h] = "idle" /\ initial[h] /\ event[h].queued > 0
  /\ event' = [event EXCEPT ![h].queued = @ - 1]
  /\ UNCHANGED <<queues, watch, initial, handlers, callers, faults>>

HandleUserEvent(h) ==
  /\ hpc[h] = "idle" /\ ~initial[h] /\ event[h].queued > 0
  /\ event' = [event EXCEPT ![h].queued = @ - 1]
  /\ Check(h)
  /\ UNCHANGED <<queues, watch, initial, work, callers, faults>>

\* Fault: the handler works on the front of the queue and leaves it there.
TakeFront(h) ==
  /\ hpc[h] = "take" /\ inbox[QueueOf(h)] # <<>>
  /\ work' = [work EXCEPT ![h] = Head(inbox[QueueOf(h)])]
  /\ Run(h, IF h = Responder THEN "store" ELSE "invoke")
  /\ UNCHANGED <<queues, notices, callers, faults>>

Take(h) ==
  /\ hpc[h] = "take" /\ inbox[QueueOf(h)] # <<>>
  /\ Changed(QueueOf(h), Tail(inbox[QueueOf(h)]))
  /\ work' = [work EXCEPT ![h] = Head(inbox[QueueOf(h)])]
  /\ Run(h, IF h = Responder THEN "store" ELSE "invoke")
  /\ UNCHANGED <<completed, untrimmed, event, initial, callers, faults>>

\* The delete took effect but its reply was lost: the take goes on without the
\* element (DistQueue, DeleteReplyLost).
TakeLosesElement(h) ==
  /\ hpc[h] = "take" /\ inbox[QueueOf(h)] # <<>>
  /\ Fault
  /\ Changed(QueueOf(h), Tail(inbox[QueueOf(h)]))
  /\ UNCHANGED <<completed, untrimmed, event, initial, handlers, callers>>

TakeWaits(h) ==
  /\ hpc[h] = "take" /\ inbox[QueueOf(h)] = <<>>
  /\ Run(h, "waiting")
  /\ UNCHANGED <<queues, notices, work, callers, faults>>

\* Signalled in time, or the timeout has passed.
WaitEnds(h) ==
  /\ hpc[h] = "waiting"
  /\ Run(h, "take") \/ Run(h, "idle")
  /\ UNCHANGED <<queues, notices, work, callers, faults>>

-----------------------------------------------------------------------------
(* invokeAndResp *)

\* The result of a request without parameters, which names no response queue
\* then: invokeAndResp returns before it looks at the size.
RecordAndReturn(s) ==
  /\ hpc[s] = "invoke" /\ ~named[work[s]]
  /\ completed' = completed + 1
  /\ untrimmed' = untrimmed + 1
  /\ Run(s, "idle")
  /\ work' = [work EXCEPT ![s] = NoWork]
  /\ UNCHANGED <<inbox, notices, callers, faults>>

\* A clusterlib::Exception is reported on the completed queue and nowhere else.
InvokeThrows(s) ==
  /\ hpc[s] = "invoke"
  /\ Fault
  /\ completed' = completed + 1
  /\ untrimmed' = untrimmed + 1
  /\ Run(s, "idle")
  /\ work' = [work EXCEPT ![s] = NoWork]
  /\ UNCHANGED <<inbox, notices, callers>>

Respond(s) ==
  /\ hpc[s] = "invoke" /\ named[work[s]]
  /\ PutOnce("resp", work[s]) \/ PutTwice("resp", work[s])
  /\ Run(s, IF MaxCompleted = 0 THEN "trim" ELSE "record")
  /\ UNCHANGED <<completed, untrimmed, event, initial, work, callers>>

\* getNotifyableFromKey does not find the response queue any more.
NoResponseQueue(s) ==
  /\ hpc[s] = "invoke" /\ named[work[s]]
  /\ Fault
  /\ Run(s, "record")
  /\ UNCHANGED <<queues, notices, work, callers>>

Record(s) ==
  /\ hpc[s] = "record" \/ (hpc[s] = "invoke" /\ ~named[work[s]])
  /\ completed' = completed + 1
  /\ Run(s, "trim")
  /\ UNCHANGED <<inbox, untrimmed, notices, work, callers, faults>>

TooManyCompleted == MaxCompleted # -1 /\ completed > MaxCompleted

Trim(s) ==
  /\ hpc[s] = "trim" /\ TooManyCompleted
  /\ Run(s, "drop")
  /\ UNCHANGED <<queues, notices, work, callers, faults>>

\* The take waits 100 ms at most for an element that another server took.
DropCompleted(s) ==
  /\ hpc[s] = "drop"
  /\ completed' = IF completed = 0 THEN 0 ELSE completed - 1
  /\ Run(s, "trim")
  /\ UNCHANGED <<inbox, untrimmed, notices, work, callers, faults>>

Finish(s) ==
  /\ hpc[s] = "trim" /\ ~TooManyCompleted
  /\ Run(s, "idle")
  /\ work' = [work EXCEPT ![s] = NoWork]
  /\ UNCHANGED <<queues, notices, callers, faults>>

\* The process crashes, or an exception leaves the handler; its watches go too.
ServerDies(s) ==
  /\ hpc[s] # "dead"
  /\ Fault
  /\ Run(s, "dead")
  /\ work' = [work EXCEPT ![s] = NoWork]
  /\ watch' = [watch EXCEPT ![s] = "gone"]
  /\ event' = [event EXCEPT ![s] = NoEvent]
  /\ UNCHANGED <<queues, initial, callers>>

-----------------------------------------------------------------------------
(* The response handler *)

\* Fault: the caller is signalled when the response is not stored yet.
SignalBeforeStoring ==
  /\ hpc[Responder] = "store"
  /\ Run(Responder, "signal")
  /\ entry' = [entry EXCEPT ![work[Responder]] = IF @ = "none" THEN "none" ELSE "set"]
  /\ UNCHANGED <<queues, notices, work, pc, named, responses, faults>>

\* setIdResponse throws when a response with the same id is there already.
SetIdResponse ==
  /\ hpc[Responder] = "store"
  /\ Run(Responder, IF work[Responder] \in responses THEN "dead" ELSE "signal")
  /\ responses' = responses \cup {work[Responder]}
  /\ UNCHANGED <<queues, notices, work, pc, named, entry, faults>>

\* Fault: the predicate does not stick; who comes to wait later is not told.
SignalOnlyWaiting ==
  /\ hpc[Responder] = "signal"
  /\ entry' = [entry EXCEPT ![work[Responder]] =
                 IF pc[work[Responder]] \in {"waiting", "polling"} THEN "set" ELSE @]
  /\ work' = [work EXCEPT ![Responder] = NoWork]
  /\ Run(Responder, "take")
  /\ UNCHANGED <<queues, notices, pc, named, responses, faults>>

\* Nobody is signalled when the entry is gone; the loop takes on.
SignalResponse ==
  /\ hpc[Responder] = "signal"
  /\ entry' = [entry EXCEPT ![work[Responder]] = IF @ = "none" THEN "none" ELSE "set"]
  /\ work' = [work EXCEPT ![Responder] = NoWork]
  /\ Run(Responder, "take")
  /\ UNCHANGED <<queues, notices, pc, named, responses, faults>>

-----------------------------------------------------------------------------
WaitStep(r) == Awake(r) \/ Release(r) \/ Collect(r)
CallerMay(r) == Ready(r) \/ SendRequest(r) \/ SendFails(r) \/ CallWait(r) \/ TimeOut(r)
EventStep(h) == Rewatch(h) \/ QueueEvent(h)
HandlerStep(h) ==
  InitialRun(h) \/ HandleUserEvent(h) \/ Take(h) \/ TakeWaits(h) \/ WaitEnds(h)
ServerStep(s) ==
  \/ RecordAndReturn(s) \/ Respond(s) \/ Record(s)
  \/ Trim(s) \/ DropCompleted(s) \/ Finish(s)
ServerFault(s) == InvokeThrows(s) \/ NoResponseQueue(s) \/ ServerDies(s)
ResponderStep == SetIdResponse \/ SignalResponse

Next ==
  \/ \E r \in Requests : CallerMay(r) \/ WaitStep(r)
  \/ \E h \in Handlers : EventStep(h) \/ HandlerStep(h) \/ DropEvent(h) \/ TakeLosesElement(h)
  \/ \E s \in Servers : ServerStep(s) \/ ServerFault(s)
  \/ ResponderStep

Spec == Init /\ [][Next]_vars

\* Threads that can go on do; nobody has to send, to give up waiting or to fail.
FairSpec ==
  /\ Spec
  /\ \A r \in Requests : WF_vars(WaitStep(r))
  /\ \A h \in Handlers : WF_vars(EventStep(h)) /\ WF_vars(HandlerStep(h))
  /\ \A s \in Servers : WF_vars(ServerStep(s))
  /\ WF_vars(ResponderStep)

-----------------------------------------------------------------------------
\* The values each variable takes.
TypeOK ==
  /\ inbox \in [{"recv", "resp"} -> Seq(Requests)]
  /\ completed \in Nat
  /\ watch \in [Handlers -> {"armed", "fired", "gone"}]
  /\ event \in [Handlers -> [read : BOOLEAN, queued : Nat]]
  /\ initial \in [Handlers -> BOOLEAN]
  /\ hpc \in [Handlers -> HandlerPC]
  /\ work \in [Handlers -> Requests \cup {NoWork}]
  /\ pc \in [Requests -> CallerPC]
  /\ named \in [Requests -> BOOLEAN]
  /\ entry \in [Requests -> {"none", "clear", "set"}]
  /\ responses \subseteq Requests
  /\ untrimmed \in Nat
  /\ faults \in 0 .. MaxFaults

\* A thread that is told of its response finds it in m_idResponseMap, whatever was
\* lost, repeated or timed out before (waitMsecsResponse, getIdResponse).  (Every
\* variable has its type, too.)
ResponseBeforeSignal ==
  /\ TypeOK
  /\ \A r \in Requests : ClientUp /\ (entry[r] = "set" \/ pc[r] \in {"woken", "collect"})
                           => r \in responses

\* An idle handler beside a queue with an element will be run again, though
\* events are dropped before the initial run, several changes make one event
\* and each run of a method handler takes one element only.
NoStrandedElement ==
  \A h \in Handlers :
    hpc[h] = "idle" /\ inbox[QueueOf(h)] # <<>>
      => initial[h] \/ watch[h] = "fired" \/ event[h].read \/ event[h].queued > 0

Occurrences(q, r) == Cardinality({i \in DOMAIN inbox[q] : inbox[q][i] = r})
Holding(labels, r) == Cardinality({h \in Handlers : work[h] = r /\ hpc[h] \in labels})

\* The completed queue holds MaxCompleted elements, one for each server that is
\* still to trim it, and what was put there without a look at its size (error strings, the
\* results of requests without parameters), which goes when a later result is trimmed.
CompletedBounded ==
  MaxCompleted # -1 =>
    completed <= MaxCompleted + untrimmed
                   + Cardinality({s \in Servers : hpc[s] \in {"trim", "drop", "dead"}})

\* As long as nothing fails, a request that was sent and its response are in
\* exactly one place: nothing is served twice, dropped, or left behind uncollected; and
\* the queue of completed requests does not grow.
OneRequestOneAnswer ==
  /\ CompletedBounded
  /\ \A r \in Requests :
       faults = 0 /\ named[r] /\ pc[r] \notin {"new", "ready"}
         => Occurrences("recv", r) + Occurrences("resp", r)
              + Holding({"invoke", "store"}, r)
              + (IF r \in responses THEN 1 ELSE 0) + (IF pc[r] = "got" THEN 1 ELSE 0) = 1

\* A request is taken off the queue as long as a server lives, and waitResponse
\* returns with the response unless something fails.
Answered ==
  /\ inbox["recv"] # <<>> ~> inbox["recv"] = <<>> \/ \A s \in Servers : hpc[s] = "dead"
  /\ \A r \in Requests : pc[r] = "waiting" ~> pc[r] = "got" \/ faults > 0
=============================================================================
