------------------------------ MODULE RpcProofs ------------------------------
(***************************************************************************)
(* The invariants of Rpc, and that its queues are those of AbstractQueue,  *)
(* for any number of requests and servers, any size of the completed queue *)
(* and any number of faults.                                               *)
(***************************************************************************)
EXTENDS Rpc, FiniteSetTheorems, TLAPS

-----------------------------------------------------------------------------
(* Types *)

\* What a handler works on is a request.
AtWork == {"invoke", "store", "signal"}
WorkInv == \A h \in Handlers : hpc[h] \in AtWork => work[h] \in Requests

LEMMA QueueOfType ==
  ASSUME NEW h
  PROVE  QueueOf(h) \in {"recv", "resp"}
BY DEF QueueOf

\* A change of a queue fires the watches on it.
LEMMA ChangedEffect ==
  ASSUME TypeOK, NEW q \in {"recv", "resp"}, NEW elements \in Seq(Requests),
         Changed(q, elements)
  PROVE  /\ inbox' \in [{"recv", "resp"} -> Seq(Requests)]
         /\ watch' \in [Handlers -> {"armed", "fired", "gone"}]
         /\ inbox'[q] = elements
         /\ \A p \in {"recv", "resp"} : p # q => inbox'[p] = inbox[p]
         /\ \A h \in Handlers :
              watch'[h] = IF QueueOf(h) = q /\ watch[h] = "armed" THEN "fired" ELSE watch[h]
BY DEF Changed, TypeOK

\* What a put of r adds.
LEMMA PutEffect ==
  ASSUME TypeOK, NEW q \in {"recv", "resp"}, NEW r \in Requests,
         PutOnce(q, r) \/ PutTwice(q, r)
  PROVE  \E elements \in Seq(Requests) : Changed(q, elements)
<1>1. inbox[q] \in Seq(Requests)
  BY DEF TypeOK
<1>2. Append(inbox[q], r) \in Seq(Requests) /\ inbox[q] \o <<r, r>> \in Seq(Requests)
  BY <1>1
<1> QED BY <1>2 DEF PutOnce, PutTwice

LEMMA FaultType ==
  ASSUME TypeOK, Fault \/ UNCHANGED faults
  PROVE  faults' \in 0 .. MaxFaults
BY RpcAssumption DEF TypeOK, Fault

\* The threads that use requests.
LEMMA CallerTypes ==
  ASSUME TypeOK, WorkInv, NEW r \in Requests, CallerMay(r) \/ WaitStep(r)
  PROVE  TypeOK' /\ WorkInv'
<1>1. CASE Ready(r)
  <2>1. named' \in [Requests -> BOOLEAN]
    BY <1>1, RpcAssumption DEF Ready, TypeOK
  <2>2. pc' \in [Requests -> CallerPC] /\ entry' \in [Requests -> {"none", "clear", "set"}]
    BY <1>1 DEF Ready, Goto, TypeOK, CallerPC
  <2> QED BY <1>1, <2>1, <2>2 DEF Ready, TypeOK, WorkInv, queues, notices, handlers
<1>2. CASE SendRequest(r)
  <2>1. \E elements \in Seq(Requests) : Changed("recv", elements)
    BY <1>2, PutEffect DEF SendRequest
  <2>2. /\ inbox' \in [{"recv", "resp"} -> Seq(Requests)]
        /\ watch' \in [Handlers -> {"armed", "fired", "gone"}]
    BY <2>1, ChangedEffect
  <2>3. faults' \in 0 .. MaxFaults
    BY <1>2, FaultType DEF SendRequest, PutOnce, PutTwice
  <2>4. pc' \in [Requests -> CallerPC]
    BY <1>2 DEF SendRequest, Goto, TypeOK, CallerPC
  <2> QED BY <1>2, <2>2, <2>3, <2>4 DEF SendRequest, TypeOK, WorkInv, handlers
<1>3. CASE SendFails(r)
  <2>1. Append(inbox["recv"], r) \in Seq(Requests)
    BY DEF TypeOK
  <2>2. /\ inbox' \in [{"recv", "resp"} -> Seq(Requests)]
        /\ watch' \in [Handlers -> {"armed", "fired", "gone"}]
    BY <1>3, <2>1, ChangedEffect DEF SendFails, TypeOK
  <2>3. faults' \in 0 .. MaxFaults
    BY <1>3, FaultType DEF SendFails
  <2>4. pc' \in [Requests -> CallerPC]
    BY <1>3 DEF SendFails, Goto, TypeOK, CallerPC
  <2> QED BY <1>3, <2>2, <2>3, <2>4 DEF SendFails, TypeOK, WorkInv, handlers
<1>4. CASE CallWait(r)
  BY <1>4 DEF CallWait, Goto, TypeOK, WorkInv, queues, notices, handlers, CallerPC
<1>5. CASE TimeOut(r)
  BY <1>5 DEF TimeOut, Goto, TypeOK, WorkInv, queues, notices, handlers, CallerPC
<1>6. CASE Awake(r)
  BY <1>6 DEF Awake, Goto, TypeOK, WorkInv, queues, notices, handlers, CallerPC
<1>7. CASE Release(r)
  BY <1>7 DEF Release, Goto, TypeOK, WorkInv, queues, notices, handlers, CallerPC
<1>8. CASE Collect(r)
  <2>1. pc' \in [Requests -> CallerPC] /\ responses' \subseteq Requests
    BY <1>8 DEF Collect, Goto, TypeOK, CallerPC
  <2> QED BY <1>8, <2>1 DEF Collect, TypeOK, WorkInv, queues, notices, handlers
<1> QED BY <1>1, <1>2, <1>3, <1>4, <1>5, <1>6, <1>7, <1>8 DEF CallerMay, WaitStep

\* The event threads.
LEMMA EventTypes ==
  ASSUME TypeOK, WorkInv, NEW h \in Handlers, EventStep(h) \/ DropEvent(h)
  PROVE  TypeOK' /\ WorkInv'
<1>a. event[h].queued \in Nat /\ event[h] \in [read : BOOLEAN, queued : Nat]
  BY DEF TypeOK
<1>1. ASSUME event' \in [Handlers -> [read : BOOLEAN, queued : Nat]],
             watch' \in [Handlers -> {"armed", "fired", "gone"}],
             UNCHANGED <<queues, initial, handlers, callers, faults>>
      PROVE  TypeOK' /\ WorkInv'
  BY <1>1 DEF TypeOK, WorkInv, queues, handlers, callers
<1>2. ASSUME NEW e \in [read : BOOLEAN, queued : Nat], event' = [event EXCEPT ![h] = e]
      PROVE  event' \in [Handlers -> [read : BOOLEAN, queued : Nat]]
  BY <1>2 DEF TypeOK
<1>3. CASE Rewatch(h)
  <2>1. PICK e : e = [event[h] EXCEPT !.read = TRUE]
    OBVIOUS
  <2>2. e \in [read : BOOLEAN, queued : Nat]
    BY <1>a, <2>1
  <2>3. event' = [event EXCEPT ![h] = e]
    BY <1>3, <2>1 DEF Rewatch
  <2>4. watch' \in [Handlers -> {"armed", "fired", "gone"}]
    BY <1>3 DEF Rewatch, TypeOK
  <2> QED BY <1>1, <1>2, <1>3, <2>2, <2>3, <2>4 DEF Rewatch
<1>4. CASE QueueEvent(h)
  <2>1. PICK e : e = [read |-> FALSE, queued |-> event[h].queued + 1]
    OBVIOUS
  <2>2. e \in [read : BOOLEAN, queued : Nat]
    BY <1>a, <2>1
  <2>3. event' = [event EXCEPT ![h] = e]
    BY <1>4, <2>1 DEF QueueEvent
  <2>4. watch' \in [Handlers -> {"armed", "fired", "gone"}]
    BY <1>4 DEF QueueEvent, TypeOK
  <2> QED BY <1>1, <1>2, <1>4, <2>2, <2>3, <2>4 DEF QueueEvent
<1>5. CASE DropEvent(h)
  <2>1. PICK e : e = [event[h] EXCEPT !.queued = event[h].queued - 1]
    OBVIOUS
  <2>2. e \in [read : BOOLEAN, queued : Nat]
    BY <1>5, <1>a, <2>1 DEF DropEvent
  <2>3. event' = [event EXCEPT ![h] = e]
    BY <1>5, <2>1 DEF DropEvent
  <2>4. watch' \in [Handlers -> {"armed", "fired", "gone"}]
    BY <1>5 DEF DropEvent, TypeOK
  <2> QED BY <1>1, <1>2, <1>5, <2>2, <2>3, <2>4 DEF DropEvent
<1> QED BY <1>3, <1>4, <1>5 DEF EventStep

\* An event that is handled is counted off.
LEMMA HandleEventEffect ==
  ASSUME TypeOK, NEW h \in Handlers, HandleUserEvent(h)
  PROVE  event' \in [Handlers -> [read : BOOLEAN, queued : Nat]]
<1>1. event[h].queued \in Nat /\ event[h] \in [read : BOOLEAN, queued : Nat]
  BY DEF TypeOK
<1>2. PICK e : e = [event[h] EXCEPT !.queued = event[h].queued - 1]
  OBVIOUS
<1>3. e \in [read : BOOLEAN, queued : Nat]
  BY <1>1, <1>2 DEF HandleUserEvent
<1>4. event' = [event EXCEPT ![h] = e]
  BY <1>2 DEF HandleUserEvent
<1> QED BY <1>3, <1>4 DEF TypeOK

\* The steps of the threads that run handlers.
LEMMA HandlerTypes ==
  ASSUME TypeOK, WorkInv, NEW h \in Handlers, HandlerStep(h) \/ TakeLosesElement(h)
  PROVE  TypeOK' /\ WorkInv'
<1>1. CASE InitialRun(h)
  <2>1. hpc' \in [Handlers -> HandlerPC] /\ hpc'[h] \notin AtWork
        /\ \A g \in Handlers : g # h => hpc'[g] = hpc[g]
    BY <1>1 DEF InitialRun, Check, Run, TypeOK, HandlerPC, AtWork
  <2> QED BY <1>1, <2>1 DEF InitialRun, TypeOK, WorkInv, queues, callers
<1>2. CASE HandleUserEvent(h)
  <2>1. hpc' \in [Handlers -> HandlerPC] /\ hpc'[h] \notin AtWork
        /\ \A g \in Handlers : g # h => hpc'[g] = hpc[g]
    BY <1>2 DEF HandleUserEvent, Check, Run, TypeOK, HandlerPC, AtWork
  <2>2. event' \in [Handlers -> [read : BOOLEAN, queued : Nat]]
    BY <1>2, HandleEventEffect
  <2> QED BY <1>2, <2>1, <2>2 DEF HandleUserEvent, TypeOK, WorkInv, queues, callers
<1>3. CASE Take(h)
  <2>1. inbox[QueueOf(h)] \in Seq(Requests) /\ inbox[QueueOf(h)] # <<>>
    BY <1>3, QueueOfType DEF TypeOK, Take
  <2>2. Tail(inbox[QueueOf(h)]) \in Seq(Requests) /\ Head(inbox[QueueOf(h)]) \in Requests
    BY <2>1
  <2>3. /\ inbox' \in [{"recv", "resp"} -> Seq(Requests)]
        /\ watch' \in [Handlers -> {"armed", "fired", "gone"}]
    BY <1>3, <2>2, ChangedEffect, QueueOfType DEF Take
  <2>4. /\ work' \in [Handlers -> Requests \cup {NoWork}] /\ work'[h] \in Requests
        /\ hpc' \in [Handlers -> HandlerPC]
        /\ \A g \in Handlers : g # h => hpc'[g] = hpc[g] /\ work'[g] = work[g]
    BY <1>3, <2>2 DEF Take, Run, TypeOK, HandlerPC
  <2>5. TypeOK'
    BY <1>3, <2>3, <2>4 DEF Take, TypeOK, callers
  <2> QED BY <2>4, <2>5 DEF WorkInv
<1>4. CASE TakeWaits(h)
  <2>1. hpc' \in [Handlers -> HandlerPC] /\ hpc'[h] \notin AtWork
        /\ \A g \in Handlers : g # h => hpc'[g] = hpc[g]
    BY <1>4 DEF TakeWaits, Run, TypeOK, HandlerPC, AtWork
  <2> QED BY <1>4, <2>1 DEF TakeWaits, TypeOK, WorkInv, queues, notices, callers
<1>5. CASE WaitEnds(h)
  <2>1. hpc' \in [Handlers -> HandlerPC] /\ hpc'[h] \notin AtWork
        /\ \A g \in Handlers : g # h => hpc'[g] = hpc[g]
    BY <1>5 DEF WaitEnds, Run, TypeOK, HandlerPC, AtWork
  <2> QED BY <1>5, <2>1 DEF WaitEnds, TypeOK, WorkInv, queues, notices, callers
<1>6. CASE TakeLosesElement(h)
  <2>1. inbox[QueueOf(h)] \in Seq(Requests) /\ inbox[QueueOf(h)] # <<>>
    BY <1>6, QueueOfType DEF TypeOK, TakeLosesElement
  <2>2. Tail(inbox[QueueOf(h)]) \in Seq(Requests)
    BY <2>1
  <2>3. /\ inbox' \in [{"recv", "resp"} -> Seq(Requests)]
        /\ watch' \in [Handlers -> {"armed", "fired", "gone"}]
    BY <1>6, <2>2, ChangedEffect, QueueOfType DEF TakeLosesElement
  <2>4. faults' \in 0 .. MaxFaults
    BY <1>6, FaultType DEF TakeLosesElement
  <2> QED BY <1>6, <2>3, <2>4 DEF TakeLosesElement, TypeOK, WorkInv, handlers, callers
<1> QED BY <1>1, <1>2, <1>3, <1>4, <1>5, <1>6 DEF HandlerStep

\* The steps of invokeAndResp.
LEMMA ServerTypes ==
  ASSUME TypeOK, WorkInv, NEW s \in Servers, ServerStep(s) \/ ServerFault(s)
  PROVE  TypeOK' /\ WorkInv'
<1>a. s \in Handlers
  BY DEF Handlers
<1>b. completed \in Nat /\ untrimmed \in Nat
  BY DEF TypeOK
<1>1. ASSUME NEW label \in HandlerPC \ AtWork, Run(s, label),
             work' \in {work, [work EXCEPT ![s] = NoWork]}
      PROVE  /\ hpc' \in [Handlers -> HandlerPC]
             /\ work' \in [Handlers -> Requests \cup {NoWork}]
             /\ WorkInv'
  <2>1. /\ hpc' \in [Handlers -> HandlerPC]
        /\ work' \in [Handlers -> Requests \cup {NoWork}]
    BY <1>1 DEF Run, TypeOK
  <2>2. hpc'[s] = label /\ \A g \in Handlers : g # s => hpc'[g] = hpc[g] /\ work'[g] = work[g]
    BY <1>1, <1>a DEF Run, TypeOK
  <2> QED BY <1>1, <2>1, <2>2 DEF WorkInv
<1>2. CASE RecordAndReturn(s) \/ InvokeThrows(s)
  <2>1. Run(s, "idle") /\ work' = [work EXCEPT ![s] = NoWork]
    BY <1>2 DEF RecordAndReturn, InvokeThrows
  <2>2. /\ hpc' \in [Handlers -> HandlerPC]
        /\ work' \in [Handlers -> Requests \cup {NoWork}] /\ WorkInv'
    BY <1>1, <2>1 DEF HandlerPC, AtWork
  <2>3. faults' \in 0 .. MaxFaults
    BY <1>2, FaultType DEF RecordAndReturn, InvokeThrows
  <2>4. completed' \in Nat /\ untrimmed' \in Nat /\ UNCHANGED <<inbox, notices, callers>>
    BY <1>2, <1>b DEF RecordAndReturn, InvokeThrows
  <2> QED BY <2>2, <2>3, <2>4 DEF TypeOK, notices, callers
<1>3. CASE Respond(s)
  <2>1. work[s] \in Requests
    BY <1>3, <1>a DEF Respond, WorkInv, AtWork
  <2>2. \E elements \in Seq(Requests) : Changed("resp", elements)
    BY <1>3, <2>1, PutEffect DEF Respond
  <2>3. /\ inbox' \in [{"recv", "resp"} -> Seq(Requests)]
        /\ watch' \in [Handlers -> {"armed", "fired", "gone"}]
    BY <2>2, ChangedEffect
  <2>4. \E label \in {"trim", "record"} : Run(s, label)
    BY <1>3 DEF Respond
  <2>5. hpc' \in [Handlers -> HandlerPC] /\ WorkInv'
    BY <1>1, <1>3, <2>4 DEF Respond, HandlerPC, AtWork
  <2>6. faults' \in 0 .. MaxFaults
    BY <1>3, FaultType DEF Respond, PutOnce, PutTwice
  <2> QED BY <1>3, <2>3, <2>5, <2>6 DEF Respond, TypeOK, callers
<1>4. CASE NoResponseQueue(s)
  <2>1. Run(s, "record") /\ UNCHANGED <<queues, notices, work, callers>>
    BY <1>4 DEF NoResponseQueue
  <2>2. hpc' \in [Handlers -> HandlerPC] /\ WorkInv'
    BY <1>1, <2>1 DEF HandlerPC, AtWork
  <2>3. faults' \in 0 .. MaxFaults
    BY <1>4, FaultType DEF NoResponseQueue
  <2> QED BY <2>1, <2>2, <2>3 DEF TypeOK, queues, notices, callers
<1>5. CASE Record(s)
  <2>1. /\ Run(s, "trim") /\ UNCHANGED <<inbox, untrimmed, notices, work, callers, faults>>
        /\ completed' \in Nat
    BY <1>5, <1>b DEF Record
  <2>2. hpc' \in [Handlers -> HandlerPC] /\ WorkInv'
    BY <1>1, <2>1 DEF HandlerPC, AtWork
  <2> QED BY <2>1, <2>2 DEF TypeOK, notices, callers
<1>6. CASE Trim(s) \/ DropCompleted(s)
  <2>1. /\ \E label \in {"trim", "drop"} : Run(s, label)
        /\ UNCHANGED <<inbox, untrimmed, notices, work, callers, faults>>
        /\ completed' \in Nat
    BY <1>6, <1>b DEF Trim, DropCompleted, queues
  <2>2. hpc' \in [Handlers -> HandlerPC] /\ WorkInv'
    BY <1>1, <2>1 DEF HandlerPC, AtWork
  <2> QED BY <2>1, <2>2 DEF TypeOK, notices, callers
<1>7. CASE Finish(s)
  <2>1. /\ Run(s, "idle") /\ work' = [work EXCEPT ![s] = NoWork]
        /\ UNCHANGED <<queues, notices, callers, faults>>
    BY <1>7 DEF Finish
  <2>2. /\ hpc' \in [Handlers -> HandlerPC]
        /\ work' \in [Handlers -> Requests \cup {NoWork}] /\ WorkInv'
    BY <1>1, <2>1 DEF HandlerPC, AtWork
  <2> QED BY <2>1, <2>2 DEF TypeOK, queues, notices, callers
<1>8. CASE ServerDies(s)
  <2>1. /\ Run(s, "dead") /\ work' = [work EXCEPT ![s] = NoWork]
        /\ UNCHANGED <<queues, initial, callers>>
    BY <1>8 DEF ServerDies
  <2>2. /\ hpc' \in [Handlers -> HandlerPC]
        /\ work' \in [Handlers -> Requests \cup {NoWork}] /\ WorkInv'
    BY <1>1, <2>1 DEF HandlerPC, AtWork
  <2>3. /\ watch' \in [Handlers -> {"armed", "fired", "gone"}]
        /\ event' \in [Handlers -> [read : BOOLEAN, queued : Nat]]
    BY <1>8 DEF ServerDies, TypeOK, NoEvent
  <2>4. faults' \in 0 .. MaxFaults
    BY <1>8, FaultType DEF ServerDies
  <2> QED BY <2>1, <2>2, <2>3, <2>4 DEF TypeOK, queues, callers
<1> QED BY <1>2, <1>3, <1>4, <1>5, <1>6, <1>7, <1>8 DEF ServerStep, ServerFault

\* The response handler.
LEMMA ResponderTypes ==
  ASSUME TypeOK, WorkInv, ResponderStep
  PROVE  TypeOK' /\ WorkInv'
<1>a. Responder \in Handlers
  BY DEF Handlers
<1>1. CASE SetIdResponse
  <2>1. work[Responder] \in Requests
    BY <1>1, <1>a DEF SetIdResponse, WorkInv, AtWork
  <2>2. /\ hpc' \in [Handlers -> HandlerPC] /\ responses' \subseteq Requests
        /\ \A g \in Handlers : g # Responder => hpc'[g] = hpc[g]
    BY <1>1, <2>1 DEF SetIdResponse, Run, TypeOK, HandlerPC
  <2> QED BY <1>1, <2>1, <2>2 DEF SetIdResponse, TypeOK, WorkInv, queues, notices
<1>2. CASE SignalResponse
  <2>1. work[Responder] \in Requests
    BY <1>2, <1>a DEF SignalResponse, WorkInv, AtWork
  <2>2. /\ hpc' \in [Handlers -> HandlerPC] /\ hpc'[Responder] = "take"
        /\ work' \in [Handlers -> Requests \cup {NoWork}]
        /\ \A g \in Handlers : g # Responder => hpc'[g] = hpc[g] /\ work'[g] = work[g]
    BY <1>2, <1>a DEF SignalResponse, Run, TypeOK, HandlerPC
  <2>3. entry' \in [Requests -> {"none", "clear", "set"}]
    BY <1>2, <2>1 DEF SignalResponse, TypeOK
  <2> QED BY <1>2, <2>2, <2>3 DEF SignalResponse, TypeOK, WorkInv, AtWork, queues, notices
<1> QED BY <1>1, <1>2 DEF ResponderStep

LEMMA StepTypes ==
  ASSUME TypeOK, WorkInv, [Next]_vars
  PROVE  TypeOK' /\ WorkInv'
<1>1. CASE UNCHANGED vars
  BY <1>1 DEF vars, queues, notices, handlers, callers, TypeOK, WorkInv
<1> QED BY <1>1, CallerTypes, EventTypes, HandlerTypes, ServerTypes, ResponderTypes DEF Next

LEMMA InitTypes == Init => TypeOK /\ WorkInv
BY RpcAssumption DEF Init, TypeOK, WorkInv, AtWork, HandlerPC, CallerPC, NoEvent

-----------------------------------------------------------------------------
(* A response is stored before its thread is told *)

\* Who is told of a response, or was, finds it; who collects has left the signal map,
\* so that nobody tells it again; and the response that is signalled next is stored, or
\* was collected already.
ToldInv(r) ==
  /\ entry[r] = "set" \/ pc[r] \in {"woken", "collect"} => r \in responses
  /\ pc[r] = "collect" => entry[r] = "none"

SignalInv ==
  hpc[Responder] = "signal" =>
    \/ work[Responder] \in responses
    \/ entry[work[Responder]] = "none" /\ pc[work[Responder]] # "new"

ToldStored == SignalInv /\ (ClientUp => \A r \in Requests : ToldInv(r))

\* The threads that use requests.
LEMMA CallerTells ==
  ASSUME TypeOK, WorkInv, ToldStored, NEW r \in Requests, CallerMay(r) \/ WaitStep(r)
  PROVE  ToldStored'
<1>a. /\ hpc[Responder] = "signal" => work[Responder] \in Requests
      /\ ClientUp /\ ToldInv(r)
      /\ \A u \in Requests : ToldInv(u)
      /\ UNCHANGED handlers
  <2>1. UNCHANGED handlers
    BY DEF CallerMay, WaitStep, Ready, SendRequest, SendFails, CallWait, TimeOut, Awake,
           Release, Collect
  <2>2. ClientUp
    BY DEF CallerMay, WaitStep, Ready, SendRequest, SendFails, CallWait, TimeOut, Awake,
           Release, Collect
  <2>3. hpc[Responder] = "signal" => work[Responder] \in Requests
    BY DEF WorkInv, Handlers, AtWork
  <2> QED BY <2>1, <2>2, <2>3 DEF ToldStored
<1>b. hpc' = hpc /\ work' = work
  BY <1>a DEF handlers
<1>1. \A u \in Requests : u # r => pc'[u] = pc[u] /\ entry'[u] = entry[u]
  BY DEF CallerMay, WaitStep, Ready, SendRequest, SendFails, CallWait, TimeOut, Awake,
         Release, Collect, Goto, TypeOK, callers
<1>2. ASSUME ToldInv(r)', responses' = responses,
             \/ pc[r] # "new" /\ pc'[r] # "new" /\ entry'[r] \in {entry[r], "none"}
             \/ pc[r] = "new"
      PROVE  ToldStored'
  <2>1. \A u \in Requests : ToldInv(u)'
    BY <1>a, <1>1, <1>2 DEF ToldInv
  <2>2. SignalInv'
    BY <1>a, <1>b, <1>1, <1>2 DEF SignalInv, ToldStored
  <2> QED BY <2>1, <2>2 DEF ToldStored
<1>3. CASE Ready(r)
  <2>1. /\ pc[r] = "new" /\ pc'[r] = "ready" /\ entry'[r] = "clear" /\ responses' = responses
    BY <1>3 DEF Ready, Goto, TypeOK
  <2> QED BY <1>2, <2>1 DEF ToldInv
<1>4. CASE SendRequest(r) \/ SendFails(r) \/ CallWait(r) \/ TimeOut(r)
  <2>1. /\ pc[r] # "new" /\ pc'[r] \notin {"new", "woken", "collect"}
        /\ entry' = entry /\ responses' = responses
    BY <1>4 DEF SendRequest, SendFails, CallWait, TimeOut, Goto, TypeOK
  <2> QED BY <1>a, <1>2, <2>1 DEF ToldInv
<1>5. CASE Awake(r)
  <2>1. /\ pc[r] # "new" /\ pc'[r] = "woken" /\ entry[r] = "set"
        /\ entry' = entry /\ responses' = responses
    BY <1>5 DEF Awake, Goto, TypeOK
  <2> QED BY <1>a, <1>2, <2>1 DEF ToldInv
<1>6. CASE Release(r)
  <2>1. /\ pc[r] = "woken" /\ pc'[r] = "collect" /\ entry'[r] = "none" /\ responses' = responses
    BY <1>6 DEF Release, Goto, TypeOK
  <2> QED BY <1>a, <1>2, <2>1 DEF ToldInv
<1>7. CASE Collect(r)
  <2>1. /\ pc[r] = "collect" /\ pc'[r] \in {"got", "broken"} /\ entry' = entry
        /\ responses' = responses \ {r}
    BY <1>7 DEF Collect, Goto, TypeOK
  <2>2. entry[r] = "none"
    BY <1>a, <2>1 DEF ToldInv
  <2>3. \A u \in Requests : ToldInv(u)'
    BY <1>a, <1>1, <2>1, <2>2 DEF ToldInv
  <2>4. SignalInv'
    BY <1>a, <1>b, <1>1, <2>1, <2>2 DEF SignalInv, ToldStored
  <2> QED BY <2>3, <2>4 DEF ToldStored
<1> QED BY <1>3, <1>4, <1>5, <1>6, <1>7 DEF CallerMay, WaitStep

\* Every step but those of the response handler leaves the callers alone.
LEMMA OtherTells ==
  ASSUME TypeOK, ToldStored, UNCHANGED callers,
         hpc'[Responder] = "signal" => hpc[Responder] = "signal" /\ work'[Responder] = work[Responder],
         ClientUp' => ClientUp
  PROVE  ToldStored'
<1>1. pc' = pc /\ entry' = entry /\ responses' = responses
  BY DEF callers
<1>2. SignalInv'
  BY <1>1 DEF ToldStored, SignalInv
<1> QED BY <1>1, <1>2 DEF ToldStored, ToldInv

\* What the other handlers' steps do to the response handler.
LEMMA HandlerLeaves ==
  ASSUME TypeOK, NEW h \in Handlers,
         \/ EventStep(h) \/ DropEvent(h) \/ HandlerStep(h) \/ TakeLosesElement(h)
         \/ (h \in Servers /\ (ServerStep(h) \/ ServerFault(h)))
  PROVE  /\ UNCHANGED callers
         /\ hpc'[Responder] = "signal" =>
              hpc[Responder] = "signal" /\ work'[Responder] = work[Responder]
         /\ ClientUp' => ClientUp
<1>a. Responder \in Handlers /\ Responder \notin Servers
  BY RpcAssumption DEF Handlers
<1>1. CASE EventStep(h) \/ DropEvent(h) \/ TakeLosesElement(h)
  BY <1>1 DEF EventStep, Rewatch, QueueEvent, DropEvent, TakeLosesElement, handlers, ClientUp
<1>2. CASE HandlerStep(h)
  <2>1. /\ UNCHANGED callers
        /\ hpc[h] \notin {"dead", "signal"}
        /\ \E label \in HandlerPC \ {"signal", "dead"} : hpc' = [hpc EXCEPT ![h] = label]
        /\ work' = work \/ \E w : work' = [work EXCEPT ![h] = w]
    BY <1>2 DEF HandlerStep, InitialRun, HandleUserEvent, Take, TakeWaits, WaitEnds, Check, Run,
                HandlerPC
  <2> QED BY <1>a, <2>1 DEF TypeOK, ClientUp
<1>3. CASE h \in Servers /\ (ServerStep(h) \/ ServerFault(h))
  <2>1. /\ UNCHANGED callers
        /\ \E label : hpc' = [hpc EXCEPT ![h] = label]
        /\ work' = work \/ \E w : work' = [work EXCEPT ![h] = w]
    BY <1>3 DEF ServerStep, ServerFault, RecordAndReturn, Respond, Record, Trim, DropCompleted,
                Finish, InvokeThrows, NoResponseQueue, ServerDies, Run
  <2>2. hpc'[Responder] = hpc[Responder] /\ work'[Responder] = work[Responder]
    BY <1>a, <1>3, <2>1 DEF TypeOK
  <2> QED BY <2>1, <2>2 DEF ClientUp
<1> QED BY <1>1, <1>2, <1>3

\* The response handler stores, then tells.
LEMMA ResponderTells ==
  ASSUME TypeOK, WorkInv, ToldStored, ResponderStep
  PROVE  ToldStored'
<1>a. Responder \in Handlers
  BY DEF Handlers
<1>b. ClientUp /\ \A u \in Requests : ToldInv(u)
  BY DEF ToldStored, ResponderStep, SetIdResponse, SignalResponse, ClientUp
<1>1. CASE SetIdResponse
  <2>1. /\ responses' = responses \cup {work[Responder]} /\ work' = work /\ pc' = pc /\ entry' = entry
    BY <1>1 DEF SetIdResponse
  <2>2. SignalInv'
    BY <2>1 DEF SignalInv
  <2>3. \A u \in Requests : ToldInv(u)'
    BY <1>b, <2>1 DEF ToldInv
  <2> QED BY <2>2, <2>3 DEF ToldStored
<1>2. CASE SignalResponse
  <2>1. /\ hpc[Responder] = "signal" /\ hpc'[Responder] = "take"
        /\ responses' = responses /\ pc' = pc
        /\ \A u \in Requests : entry'[u] = entry[u]
              \/ (u = work[Responder] /\ entry[u] # "none" /\ entry'[u] = "set")
    BY <1>2, <1>a DEF SignalResponse, Run, TypeOK
  <2>2. \A u \in Requests : ToldInv(u)'
    BY <1>b, <2>1 DEF ToldInv, ToldStored, SignalInv
  <2>3. SignalInv'
    BY <2>1 DEF SignalInv
  <2> QED BY <2>2, <2>3 DEF ToldStored
<1> QED BY <1>1, <1>2 DEF ResponderStep

LEMMA StepTells ==
  ASSUME TypeOK, WorkInv, ToldStored, [Next]_vars
  PROVE  ToldStored'
<1>1. CASE UNCHANGED vars
  BY <1>1 DEF vars, handlers, callers, ToldStored, SignalInv, ToldInv, ClientUp
<1>2. ASSUME NEW r \in Requests, CallerMay(r) \/ WaitStep(r) PROVE ToldStored'
  BY <1>2, CallerTells
<1>3. ASSUME NEW h \in Handlers,
             EventStep(h) \/ HandlerStep(h) \/ DropEvent(h) \/ TakeLosesElement(h)
      PROVE  ToldStored'
  BY <1>3, HandlerLeaves, OtherTells
<1>4. ASSUME NEW s \in Servers, ServerStep(s) \/ ServerFault(s) PROVE ToldStored'
  BY <1>4, HandlerLeaves, OtherTells DEF Handlers
<1>5. CASE ResponderStep
  BY <1>5, ResponderTells
<1> QED BY <1>1, <1>2, <1>3, <1>4, <1>5 DEF Next

\* A thread that is told of its response finds it, with any number of requests,
\* servers, lost replies and repeated puts.
THEOREM ResponseIsThere == Spec => []ResponseBeforeSignal
<1>1. Init => TypeOK /\ WorkInv /\ ToldStored
  <2>1. Init => ToldStored
    BY DEF Init, ToldStored, SignalInv, ToldInv, Handlers
  <2> QED BY <2>1, InitTypes
<1>2. TypeOK /\ WorkInv /\ ToldStored /\ [Next]_vars => (TypeOK /\ WorkInv /\ ToldStored)'
  BY StepTypes, StepTells
<1>3. TypeOK /\ WorkInv /\ ToldStored => ResponseBeforeSignal
  BY DEF ResponseBeforeSignal, ToldStored, ToldInv
<1> QED BY <1>1, <1>2, <1>3, PTL DEF Spec

-----------------------------------------------------------------------------
(* No element is left behind *)

\* A handler that no longer takes will be run again if its queue has an element, and
\* only the dead have lost their watch.
Coming(h) == initial[h] \/ watch[h] = "fired" \/ event[h].read \/ event[h].queued > 0

PendingInv(h) ==
  /\ hpc[h] \notin {"take", "dead"} /\ inbox[QueueOf(h)] # <<>> => Coming(h)
  /\ watch[h] = "gone" => hpc[h] = "dead"

\* A change of a queue runs the handlers of that queue again.
LEMMA ChangePends ==
  ASSUME TypeOK, NEW q \in {"recv", "resp"}, NEW elements \in Seq(Requests),
         Changed(q, elements), NEW h \in Handlers, PendingInv(h),
         event' = event, initial' = initial,
         hpc'[h] = hpc[h] \/ (hpc[h] # "dead" /\ QueueOf(h) = q) \/ (hpc[h] \notin {"take", "dead"} /\ hpc'[h] # "dead")
  PROVE  PendingInv(h)'
<1>1. /\ inbox'[q] = elements
      /\ \A p \in {"recv", "resp"} : p # q => inbox'[p] = inbox[p]
      /\ watch' \in [Handlers -> {"armed", "fired", "gone"}]
      /\ watch'[h] = IF QueueOf(h) = q /\ watch[h] = "armed" THEN "fired" ELSE watch[h]
  BY ChangedEffect
<1>2. QueueOf(h) \in {"recv", "resp"} /\ watch[h] \in {"armed", "fired", "gone"}
  BY QueueOfType DEF TypeOK
<1>3. CASE QueueOf(h) = q
  BY <1>1, <1>2, <1>3 DEF PendingInv, Coming
<1>4. CASE QueueOf(h) # q
  BY <1>1, <1>2, <1>4 DEF PendingInv, Coming
<1> QED BY <1>3, <1>4

\* Without a change, a handler stops taking when its queue is empty.
LEMMA SamePends ==
  ASSUME TypeOK, NEW h \in Handlers, PendingInv(h), inbox' = inbox,
         Coming(h) => Coming(h)' \/ hpc'[h] \in {"take", "dead"} \/ inbox[QueueOf(h)] = <<>>,
         \/ hpc'[h] = hpc[h] \/ hpc'[h] = "dead"
         \/ hpc'[h] # "dead" /\ hpc[h] # "dead" /\ (hpc[h] = "take" => inbox[QueueOf(h)] = <<>>),
         watch'[h] = "gone" => watch[h] = "gone" \/ hpc'[h] = "dead"
  PROVE  PendingInv(h)'
BY DEF PendingInv

LEMMA CallerPends ==
  ASSUME TypeOK, NEW r \in Requests, CallerMay(r) \/ WaitStep(r),
         NEW h \in Handlers, PendingInv(h)
  PROVE  PendingInv(h)'
<1>1. CASE SendRequest(r)
  <2>1. \E elements \in Seq(Requests) : Changed("recv", elements)
    BY <1>1, PutEffect DEF SendRequest
  <2>2. event' = event /\ initial' = initial /\ hpc' = hpc
    BY <1>1 DEF SendRequest, handlers
  <2> QED BY <2>1, <2>2, ChangePends
<1>2. CASE SendFails(r)
  <2>1. event' = event /\ initial' = initial /\ hpc' = hpc
    BY <1>2 DEF SendFails, handlers
  <2>2. Append(inbox["recv"], r) \in Seq(Requests)
    BY DEF TypeOK
  <2>3. ASSUME Changed("recv", Append(inbox["recv"], r)) PROVE PendingInv(h)'
    BY <2>1, <2>2, <2>3, ChangePends
  <2>4. ASSUME UNCHANGED <<inbox, watch>> PROVE PendingInv(h)'
    BY <2>1, <2>4 DEF PendingInv, Coming
  <2> QED BY <1>2, <2>3, <2>4 DEF SendFails
<1>3. ASSUME UNCHANGED <<inbox, notices, hpc>> PROVE PendingInv(h)'
  BY <1>3 DEF notices, PendingInv, Coming
<1> QED BY <1>1, <1>2, <1>3 DEF CallerMay, WaitStep, Ready, CallWait, TimeOut, Awake, Release,
           Collect, queues, handlers

\* The event is on its way until the handler runs.
LEMMA EventPends ==
  ASSUME TypeOK, NEW g \in Handlers, EventStep(g) \/ DropEvent(g),
         NEW h \in Handlers, PendingInv(h)
  PROVE  PendingInv(h)'
<1>a. event[g].queued \in Nat /\ event[g] \in [read : BOOLEAN, queued : Nat]
  BY DEF TypeOK
<1>b. inbox' = inbox /\ initial' = initial /\ hpc' = hpc
  BY DEF EventStep, Rewatch, QueueEvent, DropEvent, queues, handlers
<1>1. CASE Rewatch(g)
  <2>1. PICK e : e = [event[g] EXCEPT !.read = TRUE]
    OBVIOUS
  <2>2. e.read /\ e.queued = event[g].queued
    BY <1>a, <2>1
  <2>3. event' = [event EXCEPT ![g] = e] /\ watch' = [watch EXCEPT ![g] = "armed"]
    BY <1>1, <2>1 DEF Rewatch
  <2>4. /\ event'[h] = IF h = g THEN e ELSE event[h]
        /\ watch'[h] = IF h = g THEN "armed" ELSE watch[h]
    BY <2>3 DEF TypeOK
  <2> QED BY <1>b, <2>2, <2>4 DEF PendingInv, Coming
<1>2. CASE QueueEvent(g)
  <2>1. PICK e : e = [read |-> FALSE, queued |-> event[g].queued + 1]
    OBVIOUS
  <2>2. e.queued > 0
    BY <1>a, <2>1
  <2>3. event' = [event EXCEPT ![g] = e] /\ watch' = watch
    BY <1>2, <2>1 DEF QueueEvent
  <2>4. event'[h] = IF h = g THEN e ELSE event[h]
    BY <2>3 DEF TypeOK
  <2> QED BY <1>b, <2>2, <2>3, <2>4 DEF PendingInv, Coming
<1>3. CASE DropEvent(g)
  <2>1. initial[g] /\ watch' = watch
    BY <1>3 DEF DropEvent
  <2>2. \A u \in Handlers : u # g => event'[u] = event[u]
    BY <1>3 DEF DropEvent, TypeOK
  <2> QED BY <1>b, <2>1, <2>2 DEF PendingInv, Coming
<1> QED BY <1>1, <1>2, <1>3 DEF EventStep

\* A handler goes idle beside an empty queue, or after a change of it.
LEMMA HandlerPends ==
  ASSUME TypeOK, NEW g \in Handlers, HandlerStep(g) \/ TakeLosesElement(g),
         NEW h \in Handlers, PendingInv(h)
  PROVE  PendingInv(h)'
<1>a. \A u \in Handlers : u # g => hpc'[u] = hpc[u]
  BY DEF HandlerStep, TakeLosesElement, InitialRun, HandleUserEvent, Take, TakeWaits, WaitEnds,
         Check, Run, TypeOK, handlers
<1>1. CASE Take(g)
  <2>1. inbox[QueueOf(g)] \in Seq(Requests) /\ inbox[QueueOf(g)] # <<>>
    BY <1>1, QueueOfType DEF TypeOK, Take
  <2>2. Tail(inbox[QueueOf(g)]) \in Seq(Requests)
    BY <2>1
  <2>3. /\ Changed(QueueOf(g), Tail(inbox[QueueOf(g)])) /\ event' = event /\ initial' = initial
        /\ hpc[g] = "take"
    BY <1>1 DEF Take
  <2>4. h = g \/ hpc'[h] = hpc[h]
    BY <1>a
  <2> QED BY <2>2, <2>3, <2>4, ChangePends, QueueOfType
<1>2. CASE TakeLosesElement(g)
  <2>1. inbox[QueueOf(g)] \in Seq(Requests) /\ inbox[QueueOf(g)] # <<>>
    BY <1>2, QueueOfType DEF TypeOK, TakeLosesElement
  <2>2. Tail(inbox[QueueOf(g)]) \in Seq(Requests)
    BY <2>1
  <2>3. /\ Changed(QueueOf(g), Tail(inbox[QueueOf(g)])) /\ event' = event /\ initial' = initial
        /\ hpc' = hpc
    BY <1>2 DEF TakeLosesElement, handlers
  <2> QED BY <2>2, <2>3, ChangePends, QueueOfType
<1>3. CASE InitialRun(g)
  <2>1. /\ inbox' = inbox /\ watch' = watch /\ event' = event
        /\ \A u \in Handlers : u # g => initial'[u] = initial[u]
        /\ hpc[g] = "idle"
        /\ hpc'[g] = IF inbox[QueueOf(g)] = <<>> THEN "idle" ELSE "take"
    BY <1>3 DEF InitialRun, Check, Run, queues, TypeOK
  <2> QED BY <1>a, <2>1 DEF PendingInv, Coming
<1>4. CASE HandleUserEvent(g)
  <2>1. /\ inbox' = inbox /\ watch' = watch /\ initial' = initial
        /\ \A u \in Handlers : u # g => event'[u] = event[u]
        /\ hpc[g] = "idle"
        /\ hpc'[g] = IF inbox[QueueOf(g)] = <<>> THEN "idle" ELSE "take"
    BY <1>4 DEF HandleUserEvent, Check, Run, queues, TypeOK
  <2> QED BY <1>a, <2>1 DEF PendingInv, Coming
<1>5. CASE TakeWaits(g) \/ WaitEnds(g)
  <2>1. /\ inbox' = inbox /\ UNCHANGED notices
        /\ \/ hpc[g] = "take" /\ inbox[QueueOf(g)] = <<>> /\ hpc'[g] = "waiting"
           \/ hpc[g] = "waiting" /\ hpc'[g] \in {"take", "idle"}
    BY <1>5 DEF TakeWaits, WaitEnds, Run, queues, TypeOK
  <2> QED BY <1>a, <2>1 DEF notices, PendingInv, Coming
<1> QED BY <1>1, <1>2, <1>3, <1>4, <1>5 DEF HandlerStep

LEMMA ServerPends ==
  ASSUME TypeOK, WorkInv, NEW s \in Servers, ServerStep(s) \/ ServerFault(s),
         NEW h \in Handlers, PendingInv(h)
  PROVE  PendingInv(h)'
<1>a. s \in Handlers
  BY DEF Handlers
<1>1. CASE Respond(s)
  <2>1. work[s] \in Requests
    BY <1>1, <1>a DEF Respond, WorkInv, AtWork
  <2>2. \E elements \in Seq(Requests) : Changed("resp", elements)
    BY <1>1, <2>1, PutEffect DEF Respond
  <2>3. event' = event /\ initial' = initial /\ hpc[s] = "invoke"
        /\ hpc'[s] # "dead" /\ \A u \in Handlers : u # s => hpc'[u] = hpc[u]
    BY <1>1, <1>a DEF Respond, Run, TypeOK
  <2> QED BY <2>2, <2>3, ChangePends
<1>2. CASE ServerDies(s)
  <2>1. /\ inbox' = inbox /\ initial' = initial /\ hpc'[s] = "dead"
        /\ \A u \in Handlers : u # s => /\ hpc'[u] = hpc[u] /\ watch'[u] = watch[u]
                                        /\ event'[u] = event[u]
    BY <1>2, <1>a DEF ServerDies, Run, TypeOK, queues
  <2> QED BY <2>1 DEF PendingInv, Coming
<1>3. ASSUME NEW label \in HandlerPC \ {"take", "dead"}, Run(s, label), hpc[s] \notin {"take", "dead"},
             inbox' = inbox, UNCHANGED notices
      PROVE  PendingInv(h)'
  <2>1. hpc'[s] = label /\ \A u \in Handlers : u # s => hpc'[u] = hpc[u]
    BY <1>3, <1>a DEF Run, TypeOK
  <2> QED BY <1>3, <2>1 DEF notices, PendingInv, Coming
<1>4. CASE RecordAndReturn(s) \/ InvokeThrows(s)
  <2>1. Run(s, "idle") /\ hpc[s] = "invoke" /\ inbox' = inbox /\ UNCHANGED notices
    BY <1>4 DEF RecordAndReturn, InvokeThrows
  <2> QED BY <2>1, <1>3 DEF HandlerPC
<1>5. CASE NoResponseQueue(s)
  <2>1. Run(s, "record") /\ hpc[s] = "invoke" /\ inbox' = inbox /\ UNCHANGED notices
    BY <1>5 DEF NoResponseQueue, queues
  <2> QED BY <2>1, <1>3 DEF HandlerPC
<1>6. CASE Record(s)
  <2>1. Run(s, "trim") /\ hpc[s] \in {"record", "invoke"} /\ inbox' = inbox /\ UNCHANGED notices
    BY <1>6 DEF Record
  <2> QED BY <2>1, <1>3 DEF HandlerPC
<1>7. CASE Trim(s)
  <2>1. Run(s, "drop") /\ hpc[s] = "trim" /\ inbox' = inbox /\ UNCHANGED notices
    BY <1>7 DEF Trim, queues
  <2> QED BY <2>1, <1>3 DEF HandlerPC
<1>8. CASE DropCompleted(s)
  <2>1. Run(s, "trim") /\ hpc[s] = "drop" /\ inbox' = inbox /\ UNCHANGED notices
    BY <1>8 DEF DropCompleted
  <2> QED BY <2>1, <1>3 DEF HandlerPC
<1>9. CASE Finish(s)
  <2>1. Run(s, "idle") /\ hpc[s] = "trim" /\ inbox' = inbox /\ UNCHANGED notices
    BY <1>9 DEF Finish, queues
  <2> QED BY <2>1, <1>3 DEF HandlerPC
<1> QED BY <1>1, <1>2, <1>4, <1>5, <1>6, <1>7, <1>8, <1>9 DEF ServerStep, ServerFault

LEMMA ResponderPends ==
  ASSUME TypeOK, ResponderStep, NEW h \in Handlers, PendingInv(h)
  PROVE  PendingInv(h)'
<1>1. /\ inbox' = inbox /\ UNCHANGED notices
      /\ \A u \in Handlers : u # Responder => hpc'[u] = hpc[u]
      /\ \/ hpc[Responder] = "store" /\ hpc'[Responder] \in {"signal", "dead"}
         \/ hpc[Responder] = "signal" /\ hpc'[Responder] = "take"
  BY DEF ResponderStep, SetIdResponse, SignalResponse, Run, TypeOK, queues, Handlers
<1> QED BY <1>1 DEF notices, PendingInv, Coming

LEMMA StepPends ==
  ASSUME TypeOK, WorkInv, [Next]_vars, NEW h \in Handlers, PendingInv(h)
  PROVE  PendingInv(h)'
<1>1. CASE UNCHANGED vars
  BY <1>1 DEF vars, queues, notices, handlers, PendingInv, Coming
<1> QED BY <1>1, CallerPends, EventPends, HandlerPends, ServerPends, ResponderPends DEF Next

\* An idle handler beside a queue with an element will be run again, with any number
\* of requests, servers, lost replies and dead servers.
THEOREM NothingIsStranded == Spec => []NoStrandedElement
<1> DEFINE Pending == \A h \in Handlers : PendingInv(h)
<1>1. Init => TypeOK /\ WorkInv /\ Pending
  <2>1. Init => Pending
    BY DEF Init, PendingInv, Coming
  <2> QED BY <2>1, InitTypes
<1>2. TypeOK /\ WorkInv /\ Pending /\ [Next]_vars => (TypeOK /\ WorkInv /\ Pending)'
  BY StepTypes, StepPends
<1>3. Pending => NoStrandedElement
  BY DEF NoStrandedElement, PendingInv, Coming
<1> HIDE DEF Pending
<1> QED BY <1>1, <1>2, <1>3, PTL DEF Spec

-----------------------------------------------------------------------------
(* The completed queue does not grow *)

\* The servers that look at the size of the completed queue, or died before they did.
Trimming == {s \in Servers : hpc[s] \in {"trim", "drop", "dead"}}

BoundInv ==
  /\ IsFiniteSet(Trimming)
  /\ MaxCompleted # -1 => completed <= MaxCompleted + untrimmed + Cardinality(Trimming)

LEMMA OthersBound ==
  ASSUME BoundInv, \A s \in Servers : s \in Trimming' <=> s \in Trimming,
         UNCHANGED <<completed, untrimmed>>
  PROVE  BoundInv'
<1>1. Trimming' = Trimming
  BY DEF Trimming
<1> QED BY <1>1 DEF BoundInv

\* A server comes to look at the size.
LEMMA JoinBound ==
  ASSUME BoundInv, TypeOK, NEW s \in Servers, s \in Trimming',
         \A u \in Servers : u # s => (u \in Trimming' <=> u \in Trimming),
         untrimmed' = untrimmed,
         \/ completed' = completed
         \/ s \notin Trimming /\ completed' = completed + 1
         \/ completed > 0 /\ completed' = completed - 1
  PROVE  BoundInv'
<1>1. Trimming' = Trimming \cup {s}
  BY DEF Trimming
<1>2. IsFiniteSet(Trimming) /\ Cardinality(Trimming) \in Nat
  BY FS_CardinalityType DEF BoundInv
<1>3. /\ IsFiniteSet(Trimming')
      /\ Cardinality(Trimming') = IF s \in Trimming THEN Cardinality(Trimming)
                                  ELSE Cardinality(Trimming) + 1
  BY <1>1, <1>2, FS_AddElement
<1>4. completed \in Nat /\ untrimmed \in Nat /\ MaxCompleted \in Nat \cup {-1}
  BY RpcAssumption DEF TypeOK
<1> QED BY <1>2, <1>3, <1>4 DEF BoundInv

LEMMA ServerBound ==
  ASSUME TypeOK, BoundInv, NEW s \in Servers, ServerStep(s) \/ ServerFault(s)
  PROVE  BoundInv'
<1>a. s \in Handlers /\ Servers \subseteq Handlers
  BY DEF Handlers
<1>b. completed \in Nat /\ untrimmed \in Nat /\ MaxCompleted \in Nat \cup {-1}
  BY RpcAssumption DEF TypeOK
<1>c. ASSUME NEW label, Run(s, label)
      PROVE  /\ s \in Trimming' <=> label \in {"trim", "drop", "dead"}
             /\ \A u \in Servers : u # s => (u \in Trimming' <=> u \in Trimming)
  BY <1>a, <1>c DEF Run, TypeOK, Trimming
<1>1. CASE RecordAndReturn(s) \/ InvokeThrows(s)
  <2>1. /\ Run(s, "idle") /\ hpc[s] = "invoke"
        /\ completed' = completed + 1 /\ untrimmed' = untrimmed + 1
    BY <1>1 DEF RecordAndReturn, InvokeThrows
  <2>2. \A u \in Servers : u \in Trimming' <=> u \in Trimming
    BY <1>c, <2>1 DEF Trimming
  <2>3. Trimming' = Trimming
    BY <2>2 DEF Trimming
  <2>4. Cardinality(Trimming) \in Nat
    BY FS_CardinalityType DEF BoundInv
  <2> QED BY <1>b, <2>1, <2>3, <2>4 DEF BoundInv
<1>2. CASE Respond(s)
  <2>1. completed' = completed /\ untrimmed' = untrimmed /\ hpc[s] = "invoke"
    BY <1>2 DEF Respond
  <2>2. CASE Run(s, "trim")
    BY <1>c, <2>1, <2>2, JoinBound
  <2>3. CASE Run(s, "record")
    <3>1. \A u \in Servers : u \in Trimming' <=> u \in Trimming
      BY <1>c, <2>1, <2>3 DEF Trimming
    <3> QED BY <2>1, <3>1, OthersBound
  <2> QED BY <1>2, <2>2, <2>3 DEF Respond
<1>3. CASE NoResponseQueue(s)
  <2>1. /\ completed' = completed /\ untrimmed' = untrimmed /\ hpc[s] = "invoke" /\ Run(s, "record")
    BY <1>3 DEF NoResponseQueue, queues
  <2>2. \A u \in Servers : u \in Trimming' <=> u \in Trimming
    BY <1>c, <2>1 DEF Trimming
  <2> QED BY <2>1, <2>2, OthersBound
<1>4. CASE Record(s)
  <2>1. /\ completed' = completed + 1 /\ untrimmed' = untrimmed /\ hpc[s] \in {"record", "invoke"}
        /\ Run(s, "trim")
    BY <1>4 DEF Record
  <2>2. s \notin Trimming
    BY <2>1 DEF Trimming
  <2> QED BY <1>c, <2>1, <2>2, JoinBound
<1>5. CASE Trim(s)
  <2>1. completed' = completed /\ untrimmed' = untrimmed /\ Run(s, "drop")
    BY <1>5 DEF Trim, queues
  <2> QED BY <1>c, <2>1, JoinBound
<1>6. CASE DropCompleted(s)
  <2>1. /\ untrimmed' = untrimmed /\ Run(s, "trim")
        /\ \/ completed' = completed
           \/ completed > 0 /\ completed' = completed - 1
    BY <1>6, <1>b DEF DropCompleted
  <2> QED BY <1>c, <2>1, JoinBound
<1>7. CASE Finish(s)
  <2>1. completed' = completed /\ untrimmed' = untrimmed /\ Run(s, "idle")
        /\ (MaxCompleted = -1 \/ ~ completed > MaxCompleted)
    BY <1>7 DEF Finish, TooManyCompleted, queues
  <2>2. Trimming' = Trimming \ {s}
    BY <1>c, <2>1 DEF Trimming
  <2>3. IsFiniteSet(Trimming')
    BY <2>2, FS_RemoveElement DEF BoundInv
  <2>4. Cardinality(Trimming') \in Nat
    BY <2>3, FS_CardinalityType
  <2> QED BY <1>b, <2>1, <2>3, <2>4 DEF BoundInv
<1>8. CASE ServerDies(s)
  <2>1. completed' = completed /\ untrimmed' = untrimmed /\ Run(s, "dead")
    BY <1>8 DEF ServerDies, queues
  <2> QED BY <1>c, <2>1, JoinBound
<1> QED BY <1>1, <1>2, <1>3, <1>4, <1>5, <1>6, <1>7, <1>8 DEF ServerStep, ServerFault

LEMMA StepBound ==
  ASSUME TypeOK, BoundInv, [Next]_vars
  PROVE  BoundInv'
<1>a. Servers \subseteq Handlers /\ Responder \notin Servers
  BY RpcAssumption DEF Handlers
<1>1. ASSUME UNCHANGED <<hpc, completed, untrimmed>> PROVE BoundInv'
  BY <1>1, OthersBound DEF Trimming
<1>2. CASE UNCHANGED vars
  BY <1>1, <1>2 DEF vars, queues, handlers
<1>3. ASSUME NEW r \in Requests, CallerMay(r) \/ WaitStep(r) PROVE BoundInv'
  BY <1>1, <1>3 DEF CallerMay, WaitStep, Ready, SendRequest, SendFails, CallWait, TimeOut, Awake,
                    Release, Collect, queues, handlers
<1>4. ASSUME NEW h \in Handlers, EventStep(h) \/ DropEvent(h) \/ TakeLosesElement(h) PROVE BoundInv'
  BY <1>1, <1>4 DEF EventStep, Rewatch, QueueEvent, DropEvent, TakeLosesElement, queues, handlers
<1>5. ASSUME NEW h \in Handlers, HandlerStep(h) PROVE BoundInv'
  <2>1. /\ UNCHANGED <<completed, untrimmed>> /\ hpc[h] \in {"idle", "take", "waiting"}
        /\ hpc'[h] \in {"idle", "take", "waiting", "store", "invoke"}
        /\ \A u \in Handlers : u # h => hpc'[u] = hpc[u]
    BY <1>5 DEF HandlerStep, InitialRun, HandleUserEvent, Take, TakeWaits, WaitEnds, Check, Run,
                queues, TypeOK
  <2>2. \A u \in Servers : u \in Trimming' <=> u \in Trimming
    BY <1>a, <2>1 DEF Trimming
  <2> QED BY <2>1, <2>2, OthersBound
<1>6. CASE ResponderStep
  <2>1. UNCHANGED <<completed, untrimmed>> /\ \A u \in Handlers : u # Responder => hpc'[u] = hpc[u]
    BY <1>6 DEF ResponderStep, SetIdResponse, SignalResponse, Run, TypeOK, queues
  <2>2. \A u \in Servers : u \in Trimming' <=> u \in Trimming
    BY <1>a, <2>1 DEF Trimming
  <2> QED BY <2>1, <2>2, OthersBound
<1> QED BY <1>2, <1>3, <1>4, <1>5, <1>6, ServerBound DEF Next

LEMMA InitBound == Init => BoundInv
<1> SUFFICES ASSUME Init PROVE BoundInv
  OBVIOUS
<1>1. Trimming = {}
  BY DEF Init, Trimming, Handlers
<1>2. IsFiniteSet({}) /\ Cardinality({}) = 0
  BY FS_EmptySet
<1> QED BY <1>1, <1>2, RpcAssumption DEF Init, BoundInv

-----------------------------------------------------------------------------
(* A request and its response are in one place *)

Places(s, r) == {i \in DOMAIN s : s[i] = r}

LEMMA PlacesFinite ==
  ASSUME NEW s \in Seq(Requests), NEW r
  PROVE  IsFiniteSet(Places(s, r)) /\ Cardinality(Places(s, r)) \in Nat
<1>1. Len(s) \in Nat /\ DOMAIN s = 1 .. Len(s)
  OBVIOUS
<1>2. IsFiniteSet(1 .. Len(s))
  BY <1>1, FS_Interval
<1>3. Places(s, r) \subseteq 1 .. Len(s)
  BY <1>1 DEF Places
<1> QED BY <1>2, <1>3, FS_Subset, FS_CardinalityType

\* A put adds one place for its element.
LEMMA PlacesAppend ==
  ASSUME NEW s \in Seq(Requests), NEW x \in Requests, NEW r
  PROVE  Cardinality(Places(Append(s, x), r)) =
           Cardinality(Places(s, r)) + IF x = r THEN 1 ELSE 0
<1>1. PICK n : n = Len(s) + 1
  OBVIOUS
<1>2. /\ DOMAIN Append(s, x) = DOMAIN s \cup {n} /\ n \notin DOMAIN s
      /\ Append(s, x)[n] = x /\ \A i \in DOMAIN s : Append(s, x)[i] = s[i]
  BY <1>1
<1>3. CASE x = r
  <2>1. Places(Append(s, x), r) = Places(s, r) \cup {n} /\ n \notin Places(s, r)
    BY <1>2, <1>3 DEF Places
  <2>2. Cardinality(Places(s, r) \cup {n}) = Cardinality(Places(s, r)) + 1
    BY <2>1, PlacesFinite, FS_AddElement
  <2> QED BY <1>3, <2>1, <2>2
<1>4. CASE x # r
  <2>1. Places(Append(s, x), r) = Places(s, r)
    BY <1>2, <1>4 DEF Places
  <2> QED BY <1>4, <2>1, PlacesFinite
<1> QED BY <1>3, <1>4

\* A take removes one place for its element and moves the others.
LEMMA PlacesTail ==
  ASSUME NEW s \in Seq(Requests), s # <<>>, NEW r
  PROVE  Cardinality(Places(s, r)) =
           Cardinality(Places(Tail(s), r)) + IF Head(s) = r THEN 1 ELSE 0
<1>a. Tail(s) \in Seq(Requests)
  OBVIOUS
<1>1. PICK t \in Seq(Requests) : t = Tail(s)
  BY <1>a
<1>2. /\ Len(s) \in Nat /\ Len(t) = Len(s) - 1 /\ DOMAIN s = 1 .. Len(s) /\ DOMAIN t = 1 .. Len(t)
      /\ s[1] = Head(s) /\ \A i \in DOMAIN t : t[i] = s[i + 1]
  BY <1>1
<1>3. PICK later : later = Places(s, r) \ {1}
  OBVIOUS
<1>4. ExistsBijection(Places(t, r), later)
  <2>1. PICK f : f = [i \in Places(t, r) |-> i + 1]
    OBVIOUS
  <2>2. f \in [Places(t, r) -> later]
    BY <1>2, <1>3, <2>1 DEF Places
  <2>3. \A i, j \in Places(t, r) : f[i] = f[j] => i = j
    BY <1>2, <2>1 DEF Places
  <2>4. ASSUME NEW j \in later PROVE \E i \in Places(t, r) : f[i] = j
    <3>1. j \in 2 .. Len(s) /\ s[j] = r
      BY <1>2, <1>3 DEF Places
    <3>2. j - 1 \in DOMAIN t /\ t[j - 1] = r
      BY <1>2, <3>1
    <3>3. j - 1 \in Places(t, r) /\ f[j - 1] = j
      BY <2>1, <3>1, <3>2 DEF Places
    <3> QED BY <3>3
  <2>5. f \in Bijection(Places(t, r), later)
    BY <2>2, <2>3, <2>4 DEF Bijection, Injection, Surjection, IsInjective
  <2> QED BY <2>5 DEF ExistsBijection
<1>5. Cardinality(later) = Cardinality(Places(t, r))
  BY <1>4, PlacesFinite, FS_Bijection
<1>6. Cardinality(later) = IF 1 \in Places(s, r) THEN Cardinality(Places(s, r)) - 1
                           ELSE Cardinality(Places(s, r))
  BY <1>3, PlacesFinite, FS_RemoveElement
<1>7. 1 \in DOMAIN s
  BY <1>2
<1>8. 1 \in Places(s, r) <=> Head(s) = r
  BY <1>2, <1>7 DEF Places
<1>9. Cardinality(Places(s, r)) \in Nat
  BY PlacesFinite
<1> QED BY <1>1, <1>5, <1>6, <1>8, <1>9

\* The handlers that hold a request or response in their hands.
Holders == {h \in Handlers : hpc[h] \in {"invoke", "store"}}
HoldersOf(r) == {h \in Handlers : work[h] = r /\ hpc[h] \in {"invoke", "store"}}

Total(r) ==
  Occurrences("recv", r) + Occurrences("resp", r) + Holding({"invoke", "store"}, r)
    + (IF r \in responses THEN 1 ELSE 0) + (IF pc[r] = "got" THEN 1 ELSE 0)

OnePlace(r) ==
  faults = 0 =>
    /\ pc[r] \in {"new", "ready"} => Total(r) = 0
    /\ named[r] /\ pc[r] \notin {"new", "ready"} => Total(r) = 1

ConservedInv == IsFiniteSet(Holders) /\ \A r \in Requests : OnePlace(r)

\* The counts are numbers.
LEMMA CountTypes ==
  ASSUME TypeOK, IsFiniteSet(Holders), NEW r \in Requests
  PROVE  /\ Occurrences("recv", r) = Cardinality(Places(inbox["recv"], r))
         /\ Occurrences("resp", r) = Cardinality(Places(inbox["resp"], r))
         /\ Holding({"invoke", "store"}, r) = Cardinality(HoldersOf(r))
         /\ Occurrences("recv", r) \in Nat /\ Occurrences("resp", r) \in Nat
         /\ IsFiniteSet(HoldersOf(r)) /\ Cardinality(HoldersOf(r)) \in Nat
<1>1. inbox["recv"] \in Seq(Requests) /\ inbox["resp"] \in Seq(Requests)
  BY DEF TypeOK
<1>2. Occurrences("recv", r) = Cardinality(Places(inbox["recv"], r))
  BY DEF Occurrences, Places
<1>3. Occurrences("resp", r) = Cardinality(Places(inbox["resp"], r))
  BY DEF Occurrences, Places
<1>4. Holding({"invoke", "store"}, r) = Cardinality(HoldersOf(r))
  BY DEF Holding, HoldersOf
<1>5. HoldersOf(r) \subseteq Holders
  BY DEF Holders, HoldersOf
<1>6. IsFiniteSet(HoldersOf(r)) /\ Cardinality(HoldersOf(r)) \in Nat
  BY <1>5, FS_Subset, FS_CardinalityType
<1> QED BY <1>1, <1>2, <1>3, <1>4, <1>6, PlacesFinite

\* The same total in the terms that the steps change.
LEMMA TotalIs ==
  ASSUME NEW r
  PROVE  /\ Total(r) =
              Cardinality(Places(inbox["recv"], r)) + Cardinality(Places(inbox["resp"], r))
                + Cardinality(HoldersOf(r))
                + (IF r \in responses THEN 1 ELSE 0) + (IF pc[r] = "got" THEN 1 ELSE 0)
         /\ Total(r)' =
              Cardinality(Places(inbox'["recv"], r)) + Cardinality(Places(inbox'["resp"], r))
                + Cardinality(HoldersOf(r)')
                + (IF r \in responses' THEN 1 ELSE 0) + (IF pc'[r] = "got" THEN 1 ELSE 0)
BY DEF Total, Occurrences, Holding, Places, HoldersOf

\* A step that moves nothing.
LEMMA NothingMoves ==
  ASSUME ConservedInv, inbox' = inbox, responses' = responses, named' = named,
         faults' = 0 => faults = 0,
         \A h \in Handlers :
           /\ hpc'[h] \in {"invoke", "store"} <=> hpc[h] \in {"invoke", "store"}
           /\ hpc[h] \in {"invoke", "store"} => work'[h] = work[h],
         \A r \in Requests :
           /\ pc'[r] \in {"new", "ready"} <=> pc[r] \in {"new", "ready"}
           /\ pc'[r] = "got" <=> pc[r] = "got"
  PROVE  ConservedInv'
<1>1. Holders' = Holders /\ \A r \in Requests : HoldersOf(r)' = HoldersOf(r)
  BY DEF Holders, HoldersOf
<1>2. \A r \in Requests : Total(r)' = Total(r)
  BY <1>1, TotalIs
<1> QED BY <1>1, <1>2 DEF ConservedInv, OnePlace

\* A fault ends what is said of a run without faults.
LEMMA FaultConserves ==
  ASSUME TypeOK, IsFiniteSet(Holders'), faults' = faults + 1
  PROVE  ConservedInv'
<1>1. faults' # 0
  BY DEF TypeOK
<1> QED BY <1>1 DEF ConservedInv, OnePlace

LEMMA HoldersSame ==
  ASSUME UNCHANGED handlers
  PROVE  Holders' = Holders /\ \A r \in Requests : HoldersOf(r)' = HoldersOf(r)
BY DEF handlers, Holders, HoldersOf

\* The threads that use requests.
LEMMA CallerConserves ==
  ASSUME TypeOK, WorkInv, ToldStored, ConservedInv, NEW r \in Requests, CallerMay(r) \/ WaitStep(r)
  PROVE  ConservedInv'
<1>a. /\ UNCHANGED handlers /\ ClientUp
      /\ \A u \in Requests : u # r => pc'[u] = pc[u] /\ named'[u] = named[u]
  BY DEF CallerMay, WaitStep, Ready, SendRequest, SendFails, CallWait, TimeOut, Awake,
         Release, Collect, Goto, TypeOK, callers
<1>b. Holders' = Holders /\ \A u \in Requests : HoldersOf(u)' = HoldersOf(u)
  BY <1>a, HoldersSame
<1>c. IsFiniteSet(Holders')
  BY <1>b DEF ConservedInv
<1>d. faults \in Nat
  BY DEF TypeOK
<1>1. CASE Ready(r)
  <2>1. /\ inbox' = inbox /\ responses' = responses /\ faults' = faults
        /\ pc[r] = "new" /\ pc'[r] = "ready"
    BY <1>1 DEF Ready, Goto, TypeOK, queues
  <2>2. \A u \in Requests : Total(u)' = Total(u)
    BY <1>a, <1>b, <2>1, TotalIs
  <2>3. \A u \in Requests : OnePlace(u)'
    BY <1>a, <2>1, <2>2 DEF ConservedInv, OnePlace
  <2> QED BY <1>c, <2>3 DEF ConservedInv
<1>2. CASE SendRequest(r)
  <2>1. CASE PutOnce("recv", r)
    <3>1. /\ inbox["recv"] \in Seq(Requests) /\ "recv" # "resp"
          /\ Append(inbox["recv"], r) \in Seq(Requests)
          /\ Changed("recv", Append(inbox["recv"], r)) /\ faults' = faults
      BY <2>1 DEF PutOnce, TypeOK
    <3>2. inbox'["recv"] = Append(inbox["recv"], r) /\ inbox'["resp"] = inbox["resp"]
      BY <3>1, ChangedEffect
    <3>3. /\ pc[r] = "ready" /\ pc'[r] = "sent" /\ named' = named /\ responses' = responses
      BY <1>2 DEF SendRequest, Goto, TypeOK
    <3>4. \A u \in Requests :
            Cardinality(Places(inbox'["recv"], u)) =
              Cardinality(Places(inbox["recv"], u)) + IF r = u THEN 1 ELSE 0
      BY <3>1, <3>2, PlacesAppend
    <3>5. \A u \in Requests : Cardinality(Places(inbox["recv"], u)) \in Nat
                              /\ Cardinality(Places(inbox["resp"], u)) \in Nat
                              /\ Cardinality(HoldersOf(u)) \in Nat
      BY CountTypes DEF ConservedInv
    <3>6. ASSUME NEW u \in Requests, u # r PROVE Total(u)' = Total(u)
      <4>1. Cardinality(Places(inbox'["recv"], u)) = Cardinality(Places(inbox["recv"], u))
        BY <3>4, <3>5, <3>6
      <4>2. HoldersOf(u)' = HoldersOf(u) /\ pc'[u] = pc[u]
        BY <1>a, <1>b, <3>6
      <4> QED BY <3>2, <3>3, <4>1, <4>2, TotalIs
    <3>7. Total(r)' = Total(r) + 1
      <4>1. PICK n \in Nat : n = Cardinality(Places(inbox["recv"], r))
        BY <3>5
      <4>2. Cardinality(Places(inbox'["recv"], r)) = n + 1
        BY <3>4, <4>1
      <4>3. HoldersOf(r)' = HoldersOf(r) /\ pc[r] # "got" /\ pc'[r] # "got"
        BY <1>b, <3>3
      <4> QED BY <3>2, <3>3, <3>5, <4>1, <4>2, <4>3, TotalIs
    <3>8. \A u \in Requests : OnePlace(u)'
      BY <1>a, <3>1, <3>3, <3>6, <3>7 DEF ConservedInv, OnePlace
    <3> QED BY <1>c, <3>8 DEF ConservedInv
  <2>2. CASE PutTwice("recv", r)
    BY <1>c, <2>2, FaultConserves DEF PutTwice, Fault
  <2> QED BY <1>2, <2>1, <2>2 DEF SendRequest
<1>3. CASE SendFails(r)
  BY <1>3, <1>c, FaultConserves DEF SendFails, Fault
<1>4. CASE CallWait(r) \/ TimeOut(r) \/ Awake(r) \/ Release(r)
  <2>1. /\ inbox' = inbox /\ responses' = responses /\ faults' = faults /\ named' = named
        /\ pc[r] \notin {"new", "ready", "got"} /\ pc'[r] \notin {"new", "ready", "got"}
    BY <1>4 DEF CallWait, TimeOut, Awake, Release, Goto, TypeOK, queues
  <2>2. hpc' = hpc /\ work' = work
    BY <1>a DEF handlers
  <2> QED BY <1>a, <2>1, <2>2, NothingMoves
<1>5. CASE Collect(r)
  <2>1. /\ inbox' = inbox /\ faults' = faults /\ named' = named /\ responses' = responses \ {r}
        /\ pc[r] = "collect" /\ pc'[r] = IF r \in responses THEN "got" ELSE "broken"
    BY <1>5 DEF Collect, Goto, TypeOK, queues
  <2>2. r \in responses
    BY <1>a, <2>1 DEF ToldStored, ToldInv
  <2>3. \A u \in Requests : Cardinality(Places(inbox["recv"], u)) \in Nat
                            /\ Cardinality(Places(inbox["resp"], u)) \in Nat
                            /\ Cardinality(HoldersOf(u)) \in Nat
    BY CountTypes DEF ConservedInv
  <2>4. Total(r)' = Total(r)
    BY <1>b, <2>1, <2>2, <2>3, TotalIs
  <2>5. \A u \in Requests : u # r => Total(u)' = Total(u)
    BY <1>a, <1>b, <2>1, TotalIs
  <2>6. \A u \in Requests : OnePlace(u)'
    BY <1>a, <2>1, <2>4, <2>5 DEF ConservedInv, OnePlace
  <2> QED BY <1>c, <2>6 DEF ConservedInv
<1> QED BY <1>1, <1>2, <1>3, <1>4, <1>5 DEF CallerMay, WaitStep

\* The event threads move nothing.
LEMMA EventConserves ==
  ASSUME ConservedInv, NEW h \in Handlers, EventStep(h) \/ DropEvent(h)
  PROVE  ConservedInv'
<1>1. UNCHANGED <<inbox, responses, named, faults, hpc, work, pc>>
  BY DEF EventStep, Rewatch, QueueEvent, DropEvent, queues, handlers, callers
<1> QED BY <1>1, NothingMoves

\* A step that takes x into h's hands, or out of them.
LEMMA HoldersAdd ==
  ASSUME TypeOK, IsFiniteSet(Holders), NEW h \in Handlers, NEW x \in Requests,
         hpc[h] \notin {"invoke", "store"}, hpc'[h] \in {"invoke", "store"}, work'[h] = x,
         \A g \in Handlers : g # h => hpc'[g] = hpc[g] /\ work'[g] = work[g]
  PROVE  /\ IsFiniteSet(Holders')
         /\ \A r \in Requests : Cardinality(HoldersOf(r)') =
                                  Cardinality(HoldersOf(r)) + IF x = r THEN 1 ELSE 0
<1>1. Holders' = Holders \cup {h}
  BY DEF Holders
<1>2. IsFiniteSet(Holders')
  BY <1>1, FS_AddElement
<1>3. ASSUME NEW r \in Requests
      PROVE  Cardinality(HoldersOf(r)') = Cardinality(HoldersOf(r)) + IF x = r THEN 1 ELSE 0
  <2>1. IsFiniteSet(HoldersOf(r)) /\ Cardinality(HoldersOf(r)) \in Nat /\ h \notin HoldersOf(r)
    BY CountTypes DEF HoldersOf
  <2>2. CASE x = r
    <3>1. HoldersOf(r)' = HoldersOf(r) \cup {h}
      BY <2>2 DEF HoldersOf
    <3> QED BY <2>1, <2>2, <3>1, FS_AddElement, ZenonT(60)
  <2>3. CASE x # r
    <3>1. HoldersOf(r)' = HoldersOf(r)
      BY <2>3 DEF HoldersOf
    <3> QED BY <2>1, <2>3, <3>1
  <2> QED BY <2>2, <2>3
<1> QED BY <1>2, <1>3

LEMMA HoldersDrop ==
  ASSUME TypeOK, IsFiniteSet(Holders), NEW h \in Handlers, NEW x \in Requests,
         hpc[h] \in {"invoke", "store"}, hpc'[h] \notin {"invoke", "store"}, work[h] = x,
         \A g \in Handlers : g # h => hpc'[g] = hpc[g] /\ work'[g] = work[g]
  PROVE  /\ IsFiniteSet(Holders')
         /\ \A r \in Requests : Cardinality(HoldersOf(r)) =
                                  Cardinality(HoldersOf(r)') + IF x = r THEN 1 ELSE 0
         /\ \A r \in Requests : Cardinality(HoldersOf(r)') \in Nat
<1>1. Holders' = Holders \ {h}
  BY DEF Holders
<1>2. IsFiniteSet(Holders')
  BY <1>1, FS_RemoveElement
<1>3. ASSUME NEW r \in Requests
      PROVE  /\ Cardinality(HoldersOf(r)) = Cardinality(HoldersOf(r)') + IF x = r THEN 1 ELSE 0
             /\ Cardinality(HoldersOf(r)') \in Nat
  <2>1. IsFiniteSet(HoldersOf(r)) /\ Cardinality(HoldersOf(r)) \in Nat
    BY CountTypes
  <2>2. CASE x = r
    <3>1. HoldersOf(r)' = HoldersOf(r) \ {h} /\ h \in HoldersOf(r)
      BY <2>2 DEF HoldersOf
    <3>2. IsFiniteSet(HoldersOf(r)')
      BY <2>1, <3>1, FS_RemoveElement
    <3>3. Cardinality(HoldersOf(r)') \in Nat
      BY <3>2, FS_CardinalityType
    <3>4. Cardinality(HoldersOf(r)') = Cardinality(HoldersOf(r)) - 1
      BY <2>1, <3>1, FS_RemoveElement
    <3> QED BY <2>1, <2>2, <3>3, <3>4
  <2>3. CASE x # r
    <3>1. HoldersOf(r)' = HoldersOf(r)
      BY <2>3 DEF HoldersOf
    <3> QED BY <2>1, <2>3, <3>1
  <2> QED BY <2>2, <2>3
<1> QED BY <1>2, <1>3

\* A take moves the first element of a queue into the handler's hands.
LEMMA HandlerConserves ==
  ASSUME TypeOK, ConservedInv, NEW h \in Handlers, HandlerStep(h) \/ TakeLosesElement(h)
  PROVE  ConservedInv'
<1>a. IsFiniteSet(Holders) /\ \A u \in Requests : OnePlace(u)
  BY DEF ConservedInv
<1>b. pc' = pc /\ responses' = responses /\ named' = named
  BY DEF HandlerStep, InitialRun, HandleUserEvent, Take, TakeWaits, WaitEnds, TakeLosesElement,
         callers
<1>1. CASE Take(h)
  <2>1. PICK q \in {"recv", "resp"} : q = QueueOf(h)
    BY QueueOfType
  <2>2. inbox[q] \in Seq(Requests) /\ inbox[q] # <<>>
    BY <1>1, <2>1 DEF TypeOK, Take
  <2>3. Tail(inbox[q]) \in Seq(Requests)
    BY <2>2
  <2>4. PICK x \in Requests : x = Head(inbox[q])
    BY <2>2
  <2>5. Changed(q, Tail(inbox[q])) /\ hpc[h] = "take" /\ faults' = faults
    BY <1>1, <2>1 DEF Take
  <2>6. /\ hpc'[h] \in {"invoke", "store"} /\ work'[h] = x
        /\ \A g \in Handlers : g # h => hpc'[g] = hpc[g] /\ work'[g] = work[g]
    BY <1>1, <2>1, <2>4 DEF Take, Run, TypeOK
  <2>7. inbox'[q] = Tail(inbox[q]) /\ \A p \in {"recv", "resp"} : p # q => inbox'[p] = inbox[p]
    BY <2>3, <2>5, ChangedEffect
  <2>8. /\ IsFiniteSet(Holders')
        /\ \A r \in Requests : Cardinality(HoldersOf(r)') =
                                 Cardinality(HoldersOf(r)) + IF x = r THEN 1 ELSE 0
    BY <1>a, <2>5, <2>6, HoldersAdd
  <2>9. ASSUME NEW r \in Requests PROVE Total(r)' = Total(r)
    <3>1. PICK n : n = IF x = r THEN 1 ELSE 0
      OBVIOUS
    <3>2. n \in Nat
      BY <3>1
    <3>3. Cardinality(Places(inbox[q], r)) = Cardinality(Places(inbox'[q], r)) + n
      BY <2>2, <2>4, <2>7, <3>1, PlacesTail
    <3>4. Cardinality(HoldersOf(r)') = Cardinality(HoldersOf(r)) + n
      BY <2>8, <3>1
    <3>5. /\ Cardinality(Places(inbox["recv"], r)) \in Nat
          /\ Cardinality(Places(inbox["resp"], r)) \in Nat
          /\ Cardinality(HoldersOf(r)) \in Nat
      BY <1>a, CountTypes
    <3>6. Cardinality(Places(inbox'[q], r)) \in Nat
      BY <2>3, <2>7, PlacesFinite
    <3>7. CASE q = "recv"
      <4>1. inbox'["resp"] = inbox["resp"]
        BY <2>7, <3>7
      <4> QED BY <1>b, <3>2, <3>3, <3>4, <3>5, <3>6, <3>7, <4>1, TotalIs
    <3>8. CASE q = "resp"
      <4>1. inbox'["recv"] = inbox["recv"]
        BY <2>7, <3>8
      <4> QED BY <1>b, <3>2, <3>3, <3>4, <3>5, <3>6, <3>8, <4>1, TotalIs
    <3> QED BY <3>7, <3>8
  <2>10. \A r \in Requests : OnePlace(r)'
    BY <1>a, <1>b, <2>5, <2>9 DEF OnePlace
  <2> QED BY <2>8, <2>10 DEF ConservedInv
<1>2. CASE TakeLosesElement(h)
  <2>1. Holders' = Holders /\ faults' = faults + 1
    BY <1>2, HoldersSame DEF TakeLosesElement, Fault
  <2> QED BY <1>a, <2>1, FaultConserves
<1>3. CASE InitialRun(h) \/ HandleUserEvent(h) \/ TakeWaits(h) \/ WaitEnds(h)
  <2>1. /\ inbox' = inbox /\ faults' = faults /\ work' = work
        /\ hpc[h] \notin {"invoke", "store"} /\ hpc'[h] \notin {"invoke", "store"}
        /\ \A g \in Handlers : g # h => hpc'[g] = hpc[g]
    BY <1>3 DEF InitialRun, HandleUserEvent, TakeWaits, WaitEnds, Check, Run, TypeOK, queues
  <2> QED BY <1>b, <2>1, NothingMoves
<1> QED BY <1>1, <1>2, <1>3 DEF HandlerStep

\* A response goes out of the server's hands into the client's queue; a result that
\* nobody waits for just goes.
LEMMA ServerConserves ==
  ASSUME TypeOK, WorkInv, ConservedInv, NEW s \in Servers, ServerStep(s) \/ ServerFault(s)
  PROVE  ConservedInv'
<1>a. IsFiniteSet(Holders) /\ \A u \in Requests : OnePlace(u)
  BY DEF ConservedInv
<1>b. /\ pc' = pc /\ responses' = responses /\ named' = named
      /\ \A g \in Handlers : g # s => hpc'[g] = hpc[g] /\ work'[g] = work[g]
  BY DEF ServerStep, ServerFault, RecordAndReturn, Respond, Record, Trim, DropCompleted,
         Finish, InvokeThrows, NoResponseQueue, ServerDies, Run, TypeOK, callers
<1>c. s \in Handlers
  BY DEF Handlers
<1>d. hpc[s] = "invoke" => work[s] \in Requests
  BY <1>c DEF WorkInv, AtWork
<1>1. ASSUME faults' = faults + 1, hpc'[s] \notin {"invoke", "store"} PROVE ConservedInv'
  <2>1. Holders' \subseteq Holders
    BY <1>b, <1>1 DEF Holders
  <2>2. IsFiniteSet(Holders')
    BY <1>a, <2>1, FS_Subset
  <2> QED BY <1>1, <2>2, FaultConserves
<1>2. CASE ServerFault(s)
  <2>1. faults' = faults + 1 /\ hpc'[s] \notin {"invoke", "store"}
    BY <1>2, <1>c DEF ServerFault, InvokeThrows, NoResponseQueue, ServerDies, Fault, Run, TypeOK
  <2> QED BY <1>1, <2>1
<1>3. CASE Respond(s)
  <2>1. PICK x \in Requests : x = work[s]
    BY <1>3, <1>d DEF Respond
  <2>2. hpc[s] = "invoke" /\ hpc'[s] \in {"trim", "record"}
    BY <1>3, <1>c DEF Respond, Run, TypeOK
  <2>3. CASE PutTwice("resp", x)
    BY <1>1, <2>2, <2>3 DEF PutTwice, Fault
  <2>4. CASE PutOnce("resp", x)
    <3>1. /\ inbox["resp"] \in Seq(Requests) /\ "recv" # "resp"
          /\ Append(inbox["resp"], x) \in Seq(Requests)
          /\ Changed("resp", Append(inbox["resp"], x)) /\ faults' = faults
      BY <2>4 DEF PutOnce, TypeOK
    <3>2. inbox'["resp"] = Append(inbox["resp"], x) /\ inbox'["recv"] = inbox["recv"]
      BY <3>1, ChangedEffect
    <3>3. /\ IsFiniteSet(Holders')
          /\ \A r \in Requests : Cardinality(HoldersOf(r)) =
                                   Cardinality(HoldersOf(r)') + IF x = r THEN 1 ELSE 0
          /\ \A r \in Requests : Cardinality(HoldersOf(r)') \in Nat
      BY <1>a, <1>b, <1>c, <2>1, <2>2, HoldersDrop
    <3>4. ASSUME NEW r \in Requests PROVE Total(r)' = Total(r)
      <4>1. PICK n : n = IF x = r THEN 1 ELSE 0
        OBVIOUS
      <4>2. n \in Nat
        BY <4>1
      <4>3. Cardinality(Places(inbox'["resp"], r)) = Cardinality(Places(inbox["resp"], r)) + n
        BY <3>1, <3>2, <4>1, PlacesAppend
      <4>4. /\ Cardinality(HoldersOf(r)) = Cardinality(HoldersOf(r)') + n
            /\ Cardinality(HoldersOf(r)') \in Nat
        BY <3>3, <4>1
      <4>5. /\ Cardinality(Places(inbox["recv"], r)) \in Nat
            /\ Cardinality(Places(inbox["resp"], r)) \in Nat
        BY <1>a, CountTypes
      <4> QED BY <1>b, <3>2, <4>2, <4>3, <4>4, <4>5, TotalIs
    <3>5. \A r \in Requests : OnePlace(r)'
      BY <1>a, <1>b, <3>1, <3>4 DEF OnePlace
    <3> QED BY <3>3, <3>5 DEF ConservedInv
  <2> QED BY <1>3, <2>1, <2>3, <2>4 DEF Respond
<1>4. ASSUME hpc[s] = "invoke", ~ named[work[s]], hpc'[s] \notin {"invoke", "store"},
             inbox' = inbox, faults' = faults
      PROVE  ConservedInv'
  <2>1. PICK x \in Requests : x = work[s]
    BY <1>4, <1>d
  <2>2. /\ IsFiniteSet(Holders')
        /\ \A r \in Requests : Cardinality(HoldersOf(r)) =
                                 Cardinality(HoldersOf(r)') + IF x = r THEN 1 ELSE 0
        /\ \A r \in Requests : Cardinality(HoldersOf(r)') \in Nat
    BY <1>a, <1>b, <1>c, <1>4, <2>1, HoldersDrop
  <2>3. ASSUME NEW r \in Requests, r # x PROVE OnePlace(r)'
    <3>1. Cardinality(HoldersOf(r)) = Cardinality(HoldersOf(r)')
      BY <2>2, <2>3
    <3>2. Total(r)' = Total(r)
      BY <1>b, <1>4, <3>1, TotalIs
    <3> QED BY <1>a, <1>b, <1>4, <3>2 DEF OnePlace
  <2>4. OnePlace(x)'
    <3>1. /\ Cardinality(Places(inbox["recv"], x)) \in Nat
          /\ Cardinality(Places(inbox["resp"], x)) \in Nat
      BY <1>a, CountTypes
    <3>2. Cardinality(HoldersOf(x)) = Cardinality(HoldersOf(x)') + 1 /\ Cardinality(HoldersOf(x)') \in Nat
      BY <2>2
    <3>3. Total(x) # 0
      BY <3>1, <3>2, TotalIs
    <3> QED BY <1>a, <1>b, <1>4, <2>1, <3>3 DEF OnePlace
  <2> QED BY <2>2, <2>3, <2>4 DEF ConservedInv
<1>5. CASE RecordAndReturn(s)
  <2>1. /\ hpc[s] = "invoke" /\ ~ named[work[s]] /\ hpc'[s] = "idle" /\ inbox' = inbox
        /\ faults' = faults
    BY <1>5, <1>c DEF RecordAndReturn, Run, TypeOK
  <2> QED BY <1>4, <2>1
<1>6. CASE Record(s)
  <2>1. /\ hpc'[s] = "trim" /\ inbox' = inbox /\ faults' = faults /\ work' = work
        /\ hpc[s] = "record" \/ (hpc[s] = "invoke" /\ ~ named[work[s]])
    BY <1>6, <1>c DEF Record, Run, TypeOK
  <2>2. CASE hpc[s] = "record"
    BY <1>b, <2>1, <2>2, NothingMoves
  <2> QED BY <1>4, <2>1, <2>2
<1>7. CASE Trim(s) \/ DropCompleted(s) \/ Finish(s)
  <2>1. /\ hpc[s] \notin {"invoke", "store"} /\ hpc'[s] \notin {"invoke", "store"}
        /\ inbox' = inbox /\ faults' = faults
    BY <1>7, <1>c DEF Trim, DropCompleted, Finish, Run, TypeOK, queues
  <2> QED BY <1>b, <2>1, NothingMoves
<1> QED BY <1>2, <1>3, <1>5, <1>6, <1>7 DEF ServerStep

\* A response goes out of the response handler's hands into the map.
LEMMA ResponderConserves ==
  ASSUME TypeOK, WorkInv, ConservedInv, ResponderStep
  PROVE  ConservedInv'
<1>a. IsFiniteSet(Holders) /\ \A u \in Requests : OnePlace(u)
  BY DEF ConservedInv
<1>b. /\ pc' = pc /\ named' = named /\ inbox' = inbox /\ faults' = faults
      /\ \A g \in Handlers : g # Responder => hpc'[g] = hpc[g] /\ work'[g] = work[g]
      /\ Responder \in Handlers
  BY DEF ResponderStep, SetIdResponse, SignalResponse, Run, TypeOK, queues, Handlers
<1>1. CASE SetIdResponse
  <2>1. /\ hpc[Responder] = "store" /\ hpc'[Responder] \in {"signal", "dead"}
        /\ responses' = responses \cup {work[Responder]}
    BY <1>1, <1>b DEF SetIdResponse, Run, TypeOK
  <2>2. PICK x \in Requests : x = work[Responder]
    BY <1>b, <2>1 DEF WorkInv, AtWork
  <2>3. /\ IsFiniteSet(Holders')
        /\ \A r \in Requests : Cardinality(HoldersOf(r)) =
                                 Cardinality(HoldersOf(r)') + IF x = r THEN 1 ELSE 0
        /\ \A r \in Requests : Cardinality(HoldersOf(r)') \in Nat
    BY <1>a, <1>b, <2>1, <2>2, HoldersDrop
  <2>4. ASSUME NEW r \in Requests, r # x PROVE OnePlace(r)'
    <3>1. Cardinality(HoldersOf(r)) = Cardinality(HoldersOf(r)')
      BY <2>3, <2>4
    <3>2. Total(r)' = Total(r)
      BY <1>b, <2>1, <2>2, <2>4, <3>1, TotalIs
    <3> QED BY <1>a, <1>b, <3>2 DEF OnePlace
  <2>5. OnePlace(x)'
    <3>1. /\ Cardinality(Places(inbox["recv"], x)) \in Nat
          /\ Cardinality(Places(inbox["resp"], x)) \in Nat
      BY <1>a, CountTypes
    <3>2. Cardinality(HoldersOf(x)) = Cardinality(HoldersOf(x)') + 1 /\ Cardinality(HoldersOf(x)') \in Nat
      BY <2>3
    <3>3. CASE x \in responses
      <4>1. Total(x) >= 2
        BY <3>1, <3>2, <3>3, TotalIs
      <4> QED BY <1>a, <1>b, <4>1 DEF OnePlace
    <3>4. CASE x \notin responses
      <4>1. Total(x)' = Total(x)
        BY <1>b, <2>1, <2>2, <3>1, <3>2, <3>4, TotalIs
      <4> QED BY <1>a, <1>b, <4>1 DEF OnePlace
    <3> QED BY <3>3, <3>4
  <2> QED BY <2>3, <2>4, <2>5 DEF ConservedInv
<1>2. CASE SignalResponse
  <2>1. hpc[Responder] = "signal" /\ hpc'[Responder] = "take" /\ responses' = responses
    BY <1>2, <1>b DEF SignalResponse, Run, TypeOK
  <2> QED BY <1>b, <2>1, NothingMoves
<1> QED BY <1>1, <1>2 DEF ResponderStep

LEMMA StepConserves ==
  ASSUME TypeOK, WorkInv, ToldStored, ConservedInv, [Next]_vars
  PROVE  ConservedInv'
<1>1. CASE UNCHANGED vars
  <2>1. UNCHANGED <<inbox, responses, named, faults, hpc, work, pc>>
    BY <1>1 DEF vars, queues, handlers, callers
  <2> QED BY <2>1, NothingMoves
<1> QED BY <1>1, CallerConserves, EventConserves, HandlerConserves, ServerConserves,
           ResponderConserves DEF Next

LEMMA InitConserves == Init => ConservedInv
<1> SUFFICES ASSUME Init PROVE ConservedInv
  OBVIOUS
<1>1. Holders = {} /\ \A r \in Requests : HoldersOf(r) = {}
  BY DEF Init, Holders, HoldersOf
<1>2. \A r \in Requests : Places(inbox["recv"], r) = {} /\ Places(inbox["resp"], r) = {}
  BY DEF Init, Places
<1>3. IsFiniteSet({}) /\ Cardinality({}) = 0
  BY FS_EmptySet
<1>4. ASSUME NEW r \in Requests PROVE Total(r) = 0 /\ pc[r] = "new"
  <2>1. pc[r] = "new" /\ responses = {}
    BY DEF Init
  <2>2. /\ Cardinality(Places(inbox["recv"], r)) = 0 /\ Cardinality(Places(inbox["resp"], r)) = 0
        /\ Cardinality(HoldersOf(r)) = 0
    BY <1>1, <1>2, <1>3
  <2> QED BY <2>1, <2>2, TotalIs
<1> QED BY <1>1, <1>3, <1>4 DEF ConservedInv, OnePlace

\* While nothing fails, a request that was sent and its response are in one place, with
\* any number of requests and servers; and the completed queue is bounded.
THEOREM OneAnswer == Spec => []OneRequestOneAnswer
<1> DEFINE IInv == TypeOK /\ WorkInv /\ ToldStored /\ BoundInv /\ ConservedInv
<1>1. Init => IInv
  <2>1. Init => ToldStored
    BY DEF Init, ToldStored, SignalInv, ToldInv, Handlers
  <2> QED BY <2>1, InitTypes, InitBound, InitConserves
<1>2. IInv /\ [Next]_vars => IInv'
  BY StepTypes, StepTells, StepBound, StepConserves
<1>3. IInv => OneRequestOneAnswer
  <2> SUFFICES ASSUME IInv PROVE OneRequestOneAnswer
    OBVIOUS
  <2>1. {s \in Servers : hpc[s] \in {"trim", "drop", "dead"}} = Trimming
    BY DEF Trimming
  <2>2. CompletedBounded
    BY <2>1 DEF CompletedBounded, BoundInv
  <2>3. ASSUME NEW r \in Requests, faults = 0, named[r], pc[r] \notin {"new", "ready"}
        PROVE  Total(r) = 1
    BY <2>3 DEF ConservedInv, OnePlace
  <2> QED BY <2>2, <2>3 DEF OneRequestOneAnswer, Total
<1> HIDE DEF IInv
<1> QED BY <1>1, <1>2, <1>3, PTL DEF Spec

-----------------------------------------------------------------------------
(* The queues are those of AbstractQueue *)

\* History, which no step of Rpc looks at: how many elements have left a queue, and the
\* numbers of those that a handler was handed.  So the first element of queue q has the
\* number gone[q].
VARIABLES gone, handed

Inboxes == {"recv", "resp"}

Took(h) == hpc[h] = "take" /\ hpc'[h] \in {"invoke", "store"}
Shrank(q) == Len(inbox'[q]) < Len(inbox[q])

HInit ==
  /\ Init
  /\ gone = [q \in Inboxes |-> 0]
  /\ handed = [h \in Handlers |-> {}]

\* The history of a step is a function of the step.
HNext ==
  /\ Next
  /\ gone' = [q \in Inboxes |-> IF Shrank(q) THEN gone[q] + 1 ELSE gone[q]]
  /\ handed' = [h \in Handlers |-> IF Took(h) THEN handed[h] \cup {gone[QueueOf(h)]}
                                             ELSE handed[h]]

HSpec == HInit /\ [][HNext]_<<vars, gone, handed>>

TakersOf(q) == {h \in Handlers : QueueOf(h) = q}
NumbersIn(q) == gone[q] .. gone[q] + Len(inbox[q]) - 1

Queue(q) == INSTANCE AbstractQueue WITH
  Takers <- TakersOf(q), queue <- NumbersIn(q), nextId <- gone[q] + Len(inbox[q]),
  taken <- [h \in TakersOf(q) |-> handed[h]], removed <- {}, lossy <- (faults > 0)

HInv ==
  /\ TypeOK /\ WorkInv
  /\ gone \in [Inboxes -> Nat]
  /\ handed \in [Handlers -> SUBSET Nat]

\* What a step does to queue q: nothing; one element or, when a reply was lost, two come
\* to its end; a handler takes the first; or the first is lost.
Left(q) == \A h \in TakersOf(q) : ~ Took(h)
Faulty == faults' = faults + 1
Unmoved(q) == inbox'[q] = inbox[q] /\ Left(q) /\ (faults' = faults \/ Faulty)
Added(q, n) ==
  /\ Len(inbox'[q]) = Len(inbox[q]) + n
  /\ Left(q)
  /\ faults' = faults \/ Faulty
  /\ n = 2 => Faulty
TakenBy(q, h) ==
  /\ Len(inbox[q]) > 0 /\ Len(inbox'[q]) = Len(inbox[q]) - 1
  /\ Took(h) /\ (\A g \in TakersOf(q) \ {h} : ~ Took(g))
  /\ faults' = faults
Lost(q) ==
  /\ Len(inbox[q]) > 0 /\ Len(inbox'[q]) = Len(inbox[q]) - 1
  /\ Left(q) /\ Faulty
Kinds(q) ==
  \/ Unmoved(q)
  \/ \E n \in {1, 2} : Added(q, n)
  \/ \E h \in TakersOf(q) : TakenBy(q, h)
  \/ Lost(q)

\* Who does not leave the place before the take has not taken.
LEMMA NobodyTakes ==
  ASSUME TypeOK, NEW q \in Inboxes,
         \/ hpc' = hpc
         \/ \E h \in Handlers : \E label : Run(h, label) /\ label \notin {"invoke", "store"}
  PROVE  Left(q)
BY DEF Left, TakersOf, Took, Run, TypeOK

\* A step that touches no queue.
LEMMA UnmovedKinds ==
  ASSUME NEW q \in Inboxes, Left(q), UNCHANGED inbox, faults' = faults \/ Fault
  PROVE  Kinds(q)
BY DEF Kinds, Unmoved, Fault, Faulty

\* A put into one of the queues.
LEMMA PutKinds ==
  ASSUME TypeOK, NEW q \in Inboxes, NEW p \in Inboxes, NEW r \in Requests, Left(q),
         \/ PutOnce(p, r) \/ PutTwice(p, r)
         \/ Fault /\ Changed(p, Append(inbox[p], r))
  PROVE  Kinds(q)
<1>a. inbox[p] \in Seq(Requests) /\ q \in {"recv", "resp"} /\ p \in {"recv", "resp"}
  BY DEF TypeOK, Inboxes
<1>b. \A s \in Seq(Requests) : Len(s) \in Nat
  OBVIOUS
<1>1. ASSUME NEW n \in {1, 2}, NEW elements \in Seq(Requests), Changed(p, elements),
             Len(elements) = Len(inbox[p]) + n, faults' = faults \/ Fault, n = 2 => Fault
      PROVE  Kinds(q)
  <2>1. /\ inbox'[p] = elements
        /\ q # p => inbox'[q] = inbox[q]
    BY <1>a, <1>1, ChangedEffect
  <2>2. CASE q = p
    <3>1. Added(q, n)
      BY <1>1, <2>1, <2>2 DEF Added, Fault, Faulty
    <3> QED BY <3>1 DEF Kinds
  <2>3. CASE q # p
    BY <1>1, <2>1, <2>3 DEF Kinds, Unmoved, Fault, Faulty
  <2> QED BY <2>2, <2>3
<1>2. CASE PutOnce(p, r)
  <2>1. Append(inbox[p], r) \in Seq(Requests) /\ Len(Append(inbox[p], r)) = Len(inbox[p]) + 1
    BY <1>a
  <2>2. Changed(p, Append(inbox[p], r)) /\ faults' = faults
    BY <1>2 DEF PutOnce
  <2>3. 1 \in {1, 2} /\ (1 = 2 => Fault)
    OBVIOUS
  <2> QED BY <1>1, <2>1, <2>2, <2>3
<1>3. CASE PutTwice(p, r)
  <2>1. /\ inbox[p] \o <<r, r>> \in Seq(Requests)
        /\ Len(inbox[p] \o <<r, r>>) = Len(inbox[p]) + 2
    BY <1>a
  <2> QED BY <1>1, <1>3, <2>1 DEF PutTwice
<1>4. CASE Fault /\ Changed(p, Append(inbox[p], r))
  <2>1. Append(inbox[p], r) \in Seq(Requests) /\ Len(Append(inbox[p], r)) = Len(inbox[p]) + 1
    BY <1>a
  <2> QED BY <1>1, <1>4, <2>1
<1> QED BY <1>2, <1>3, <1>4

\* The first element leaves the queue of h.
LEMMA TailKinds ==
  ASSUME TypeOK, NEW q \in Inboxes, NEW h \in Handlers, inbox[QueueOf(h)] # <<>>,
         Changed(QueueOf(h), Tail(inbox[QueueOf(h)]))
  PROVE  /\ q = QueueOf(h) => Len(inbox[q]) > 0 /\ Len(inbox'[q]) = Len(inbox[q]) - 1
         /\ q # QueueOf(h) => inbox'[q] = inbox[q]
<1>1. PICK p \in {"recv", "resp"} : p = QueueOf(h)
  BY QueueOfType
<1>2. inbox[p] \in Seq(Requests) /\ inbox[p] # <<>> /\ q \in {"recv", "resp"}
  BY <1>1 DEF TypeOK, Inboxes
<1>3. Tail(inbox[p]) \in Seq(Requests) /\ Len(Tail(inbox[p])) = Len(inbox[p]) - 1 /\ Len(inbox[p]) > 0
  BY <1>2
<1>4. inbox'[p] = Tail(inbox[p]) /\ \A o \in {"recv", "resp"} : o # p => inbox'[o] = inbox[o]
  BY <1>1, <1>3, ChangedEffect
<1> QED BY <1>1, <1>2, <1>3, <1>4

LEMMA StepKinds ==
  ASSUME TypeOK, WorkInv, NEW q \in Inboxes, Next
  PROVE  Kinds(q)
<1>1. ASSUME NEW r \in Requests, CallerMay(r) \/ WaitStep(r) PROVE Kinds(q)
  <2>1. Left(q)
    <3>1. hpc' = hpc
      BY <1>1 DEF CallerMay, WaitStep, Ready, SendRequest, SendFails, CallWait, TimeOut, Awake,
                  Release, Collect, handlers
    <3> QED BY <3>1, NobodyTakes
  <2>2. CASE SendRequest(r)
    BY <2>1, <2>2, PutKinds DEF SendRequest, Inboxes
  <2>3. CASE SendFails(r)
    BY <2>1, <2>3, PutKinds, UnmovedKinds DEF SendFails, Inboxes
  <2>4. CASE Ready(r) \/ CallWait(r) \/ TimeOut(r) \/ WaitStep(r)
    BY <2>1, <2>4, UnmovedKinds DEF Ready, CallWait, TimeOut, WaitStep, Awake, Release, Collect,
                                    queues
  <2> QED BY <1>1, <2>2, <2>3, <2>4 DEF CallerMay
<1>2. ASSUME NEW h \in Handlers, EventStep(h) \/ DropEvent(h) PROVE Kinds(q)
  <2>1. hpc' = hpc /\ inbox' = inbox /\ faults' = faults
    BY <1>2 DEF EventStep, Rewatch, QueueEvent, DropEvent, queues, handlers
  <2> QED BY <2>1, NobodyTakes, UnmovedKinds
<1>3. ASSUME NEW h \in Handlers, InitialRun(h) \/ HandleUserEvent(h) \/ TakeWaits(h) \/ WaitEnds(h)
      PROVE  Kinds(q)
  <2>1. inbox' = inbox /\ faults' = faults
    BY <1>3 DEF InitialRun, HandleUserEvent, TakeWaits, WaitEnds, queues
  <2>2. \E label : Run(h, label) /\ label \notin {"invoke", "store"}
    BY <1>3 DEF InitialRun, HandleUserEvent, TakeWaits, WaitEnds, Check
  <2> QED BY <2>1, <2>2, NobodyTakes, UnmovedKinds
<1>4. ASSUME NEW h \in Handlers, Take(h) PROVE Kinds(q)
  <2>1. /\ q = QueueOf(h) => Len(inbox[q]) > 0 /\ Len(inbox'[q]) = Len(inbox[q]) - 1
        /\ q # QueueOf(h) => inbox'[q] = inbox[q]
    BY <1>4, TailKinds DEF Take
  <2>2. Took(h) /\ (\A g \in Handlers : g # h => ~ Took(g)) /\ faults' = faults
    BY <1>4 DEF Take, Took, Run, TypeOK
  <2>3. CASE q = QueueOf(h)
    <3>1. h \in TakersOf(q) /\ TakenBy(q, h)
      BY <2>1, <2>2, <2>3 DEF TakersOf, TakenBy
    <3> QED BY <3>1 DEF Kinds
  <2>4. CASE q # QueueOf(h)
    BY <2>1, <2>2, <2>4 DEF Kinds, Unmoved, Left, TakersOf
  <2> QED BY <2>3, <2>4
<1>5. ASSUME NEW h \in Handlers, TakeLosesElement(h) PROVE Kinds(q)
  <2>1. /\ q = QueueOf(h) => Len(inbox[q]) > 0 /\ Len(inbox'[q]) = Len(inbox[q]) - 1
        /\ q # QueueOf(h) => inbox'[q] = inbox[q]
    BY <1>5, TailKinds DEF TakeLosesElement
  <2>2. hpc' = hpc /\ Faulty
    BY <1>5 DEF TakeLosesElement, handlers, Fault, Faulty
  <2>3. Left(q)
    BY <2>2, NobodyTakes
  <2> QED BY <2>1, <2>2, <2>3 DEF Kinds, Unmoved, Lost
<1>6. ASSUME NEW s \in Servers, ServerStep(s) \/ ServerFault(s) PROVE Kinds(q)
  <2>1. s \in Handlers
    BY DEF Handlers
  <2>2. Left(q)
    <3>1. \E label : Run(s, label) /\ label \notin {"invoke", "store"}
      BY <1>6 DEF ServerStep, ServerFault, RecordAndReturn, Respond, Record, Trim, DropCompleted,
                  Finish, InvokeThrows, NoResponseQueue, ServerDies
    <3> QED BY <2>1, <3>1, NobodyTakes
  <2>3. CASE Respond(s)
    <3>1. work[s] \in Requests
      BY <2>1, <2>3 DEF Respond, WorkInv, AtWork
    <3> QED BY <2>2, <2>3, <3>1, PutKinds DEF Respond, Inboxes
  <2>4. CASE ~ Respond(s)
    <3>1. inbox' = inbox /\ (faults' = faults \/ Fault)
      BY <1>6, <2>4 DEF ServerStep, ServerFault, RecordAndReturn, Record, Trim, DropCompleted,
                        Finish, InvokeThrows, NoResponseQueue, ServerDies, queues
    <3> QED BY <2>2, <3>1, UnmovedKinds
  <2> QED BY <2>3, <2>4
<1>7. ASSUME ResponderStep PROVE Kinds(q)
  <2>1. inbox' = inbox /\ faults' = faults
    BY <1>7 DEF ResponderStep, SetIdResponse, SignalResponse, queues
  <2>2. Responder \in Handlers /\ \E label : Run(Responder, label) /\ label \notin {"invoke", "store"}
    BY <1>7 DEF ResponderStep, SetIdResponse, SignalResponse, Handlers
  <2> QED BY <2>1, <2>2, NobodyTakes, UnmovedKinds
<1> QED BY <1>1, <1>2, <1>3, <1>4, <1>5, <1>6, <1>7 DEF Next, HandlerStep

\* What comes to the end of an interval, and what leaves its front.
LEMMA EndGrows ==
  ASSUME NEW g \in Nat, NEW l \in Nat, NEW n \in {1, 2}
  PROVE  g .. g + (l + n) - 1 = (g .. g + l - 1) \cup (g + l .. g + l + n - 1)
OBVIOUS

LEMMA FrontLeaves ==
  ASSUME NEW g \in Nat, NEW l \in Nat, l > 0
  PROVE  /\ g + 1 .. g + 1 + (l - 1) - 1 = (g .. g + l - 1) \ {g}
         /\ g \in g .. g + l - 1
         /\ g + 1 + (l - 1) = g + l
         /\ \A x \in g .. g + l - 1 : g <= x
OBVIOUS

\* Every step is one of the abstract queue.
LEMMA QueueMaps ==
  ASSUME HInv, NEW q \in Inboxes, HNext
  PROVE  [Queue(q)!Next]_(Queue(q)!vars)
<1>a. /\ gone[q] \in Nat /\ Len(inbox[q]) \in Nat /\ faults \in Nat
      /\ TypeOK /\ WorkInv /\ handed \in [Handlers -> SUBSET Nat]
      /\ TakersOf(q) \subseteq Handlers /\ \A h \in TakersOf(q) : QueueOf(h) = q
  BY DEF HInv, TypeOK, Inboxes, TakersOf
<1>b. /\ gone'[q] = IF Shrank(q) THEN gone[q] + 1 ELSE gone[q]
      /\ \A h \in Handlers : handed'[h] = IF Took(h) THEN handed[h] \cup {gone[QueueOf(h)]}
                                                   ELSE handed[h]
  BY DEF HNext
<1> DEFINE l == Len(inbox[q])
           taken == [h \in TakersOf(q) |-> handed[h]]
<1>c. Kinds(q)
  BY <1>a, StepKinds DEF HNext
<1>d. Left(q) => taken' = taken
  BY <1>a, <1>b DEF Left
<1>1. CASE Unmoved(q)
  <2>1. gone'[q] = gone[q] /\ inbox'[q] = inbox[q] /\ taken' = taken
    BY <1>a, <1>b, <1>d, <1>1 DEF Unmoved, Shrank
  <2>2. NumbersIn(q)' = NumbersIn(q) /\ gone'[q] + Len(inbox'[q]) = gone[q] + Len(inbox[q])
    BY <2>1 DEF NumbersIn
  <2>3. CASE faults' = faults
    BY <2>1, <2>2, <2>3 DEF Queue!vars
  <2>4. CASE Faulty
    <3>1. (faults > 0)' = TRUE
      BY <1>a, <2>4 DEF Faulty
    <3> QED BY <2>1, <2>2, <3>1 DEF Queue!Next, Queue!LoseReply
  <2> QED BY <1>1, <2>3, <2>4 DEF Unmoved
<1>2. ASSUME NEW n \in {1, 2}, Added(q, n) PROVE Queue(q)!Next
  <2>1. /\ gone'[q] = gone[q] /\ Len(inbox'[q]) = l + n /\ taken' = taken
        /\ faults > 0 => (faults > 0)'
        /\ n = 2 => (faults > 0)'
    BY <1>a, <1>b, <1>d, <1>2 DEF Added, Shrank, Faulty
  <2>2. NumbersIn(q)' = NumbersIn(q) \cup (gone[q] + l .. gone[q] + l + n - 1)
    <3>1. gone[q] .. gone[q] + (l + n) - 1
            = (gone[q] .. gone[q] + l - 1) \cup (gone[q] + l .. gone[q] + l + n - 1)
      BY <1>a, EndGrows, SMTT(30)
    <3> QED BY <2>1, <3>1 DEF NumbersIn
  <2>3. gone'[q] + Len(inbox'[q]) = gone[q] + l + n
    BY <1>a, <2>1, SMTT(30)
  <2>4. Queue(q)!Put
    BY <2>1, <2>2, <2>3 DEF Queue!Put
  <2> QED BY <2>4 DEF Queue!Next
<1>3. ASSUME Len(inbox[q]) > 0, Len(inbox'[q]) = Len(inbox[q]) - 1
      PROVE  /\ gone'[q] = gone[q] + 1
             /\ gone[q] \in NumbersIn(q) /\ \A x \in NumbersIn(q) : gone[q] <= x
             /\ NumbersIn(q)' = NumbersIn(q) \ {gone[q]}
             /\ gone'[q] + Len(inbox'[q]) = gone[q] + Len(inbox[q])
  <2>1. gone'[q] = gone[q] + 1 /\ Len(inbox'[q]) = l - 1 /\ l > 0
    BY <1>a, <1>b, <1>3 DEF Shrank
  <2>2. /\ gone[q] + 1 .. gone[q] + 1 + (l - 1) - 1 = (gone[q] .. gone[q] + l - 1) \ {gone[q]}
        /\ gone[q] \in gone[q] .. gone[q] + l - 1
        /\ gone[q] + 1 + (l - 1) = gone[q] + l
        /\ \A x \in gone[q] .. gone[q] + l - 1 : gone[q] <= x
    BY <1>a, <2>1, FrontLeaves
  <2> HIDE DEF l
  <2>3. l = Len(inbox[q])
    BY DEF l
  <2> QED BY <2>1, <2>2, <2>3 DEF NumbersIn
<1>4. ASSUME NEW h \in TakersOf(q), TakenBy(q, h) PROVE Queue(q)!Next
  <2>1. /\ gone[q] \in NumbersIn(q) /\ \A x \in NumbersIn(q) : gone[q] <= x
        /\ NumbersIn(q)' = NumbersIn(q) \ {gone[q]}
        /\ gone'[q] + Len(inbox'[q]) = gone[q] + Len(inbox[q])
        /\ faults' = faults
    BY <1>3, <1>4 DEF TakenBy
  <2>2. taken' = [taken EXCEPT ![h] = @ \cup {gone[q]}]
    <3>1. \A g \in TakersOf(q) : handed'[g] = IF g = h THEN handed[g] \cup {gone[q]} ELSE handed[g]
      BY <1>a, <1>b, <1>4 DEF TakenBy
    <3> QED BY <3>1
  <2>3. Queue(q)!Take(h)
    BY <2>1, <2>2 DEF Queue!Take
  <2> QED BY <2>3 DEF Queue!Next
<1>5. CASE Lost(q)
  <2>1. /\ gone[q] \in NumbersIn(q)
        /\ NumbersIn(q)' = NumbersIn(q) \ {gone[q]}
        /\ gone'[q] + Len(inbox'[q]) = gone[q] + Len(inbox[q])
        /\ taken' = taken
    BY <1>3, <1>5, <1>d DEF Lost
  <2>2. (faults > 0)'
    BY <1>a, <1>5 DEF Lost, Faulty
  <2>3. Queue(q)!Lose
    BY <2>1, <2>2 DEF Queue!Lose
  <2> QED BY <2>3 DEF Queue!Next
<1> QED BY <1>c, <1>1, <1>2, <1>4, <1>5 DEF Kinds

LEMMA HInvStep ==
  ASSUME HInv, [HNext]_<<vars, gone, handed>>
  PROVE  HInv'
<1>1. CASE HNext
  <2>1. TypeOK' /\ WorkInv'
    BY <1>1, StepTypes DEF HInv, HNext
  <2>2. gone' \in [Inboxes -> Nat]
    BY <1>1 DEF HInv, HNext
  <2>3. handed' \in [Handlers -> SUBSET Nat]
    <3>1. \A h \in Handlers : gone[QueueOf(h)] \in Nat
      BY QueueOfType DEF HInv, Inboxes
    <3> QED BY <1>1, <3>1 DEF HInv, HNext
  <2> QED BY <2>1, <2>2, <2>3 DEF HInv
<1>2. CASE UNCHANGED <<vars, gone, handed>>
  <2>1. TypeOK' /\ WorkInv'
    BY <1>2, StepTypes DEF HInv
  <2> QED BY <1>2, <2>1 DEF HInv
<1> QED BY <1>1, <1>2

\* The history adds nothing to the behaviours of Rpc; being a function of the step, it
\* takes none away.
LEMMA HistoryIsHistory == HSpec => Spec
<1>1. HInit => Init
  BY DEF HInit
<1>2. [HNext]_<<vars, gone, handed>> => [Next]_vars
  BY DEF HNext
<1> QED BY <1>1, <1>2, PTL DEF HSpec, Spec

\* The queue of the requests and that of the responses, with all the events, crashes and
\* lost replies of Rpc, are the FIFO queue that queueimpl.cc is proved to be: every element
\* goes to one handler, the oldest first.  The two modules meet at AbstractQueue.
THEOREM QueuesAreQueues ==
  ASSUME NEW q \in Inboxes
  PROVE  HSpec => Queue(q)!Spec
<1>1. HInit => HInv
  BY InitTypes DEF HInit, HInv
<1>2. HInv /\ [HNext]_<<vars, gone, handed>> => HInv'
  BY HInvStep
<1>3. HInit => Queue(q)!Init
  <2> SUFFICES ASSUME HInit PROVE Queue(q)!Init
    OBVIOUS
  <2>1. gone[q] = 0 /\ inbox[q] = <<>> /\ faults = 0
    BY DEF HInit, Init, Inboxes
  <2>2. NumbersIn(q) = {} /\ gone[q] + Len(inbox[q]) = 0 /\ (faults > 0) = FALSE
    BY <2>1 DEF NumbersIn
  <2>3. [h \in TakersOf(q) |-> handed[h]] = [h \in TakersOf(q) |-> {}]
    BY DEF HInit, TakersOf
  <2> QED BY <2>2, <2>3 DEF Queue!Init
<1>4. HInv /\ [HNext]_<<vars, gone, handed>> => [Queue(q)!Next]_(Queue(q)!vars)
  <2> SUFFICES ASSUME HInv, [HNext]_<<vars, gone, handed>>
               PROVE  [Queue(q)!Next]_(Queue(q)!vars)
    OBVIOUS
  <2>1. CASE UNCHANGED <<vars, gone, handed>>
    BY <2>1 DEF Queue!vars, NumbersIn, vars, queues
  <2> QED BY <2>1, QueueMaps
<1> QED BY <1>1, <1>2, <1>3, <1>4, PTL DEF HSpec, Queue!Spec
=============================================================================
