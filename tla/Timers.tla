------------------------------- MODULE Timers -------------------------------
(***************************************************************************)
(* The timers of a Factory: the users' registerTimer and cancelTimer, the  *)
(* worker thread of class Timer (src/src/core/event.h), the external event *)
(* thread that passes an alarm on, and the thread that runs the handlers   *)
(* (src/src/core/factoryops.cc).                                           *)
(*                                                                         *)
(* An alarm goes from the worker's queue through the queue of external     *)
(* events to the queue of the handler thread.  Neither queue nor the read  *)
(* of the payload's flag is under the timers lock, so a cancel can come at *)
(* any point of the way.  The end event makes the external event thread    *)
(* end and the handler thread after it; what is still on its way stays.    *)
(***************************************************************************)
EXTENDS Integers, Sequences, FiniteSets

CONSTANTS Users,      \* the threads that register and cancel timers
          Delays,     \* the values of afterMsecs
          MaxTimers,  \* bound: timers registered
          MaxCancels, \* bound: calls of cancelTimer
          MaxTime     \* bound: the clock

ASSUME TimersAssumption ==
  /\ Delays \subseteq Nat
  /\ MaxTimers \in Nat /\ MaxCancels \in Nat /\ MaxTime \in Nat

VARIABLES
  now,       \* the clock
  nextId,    \* m_currentEventID
  at,        \* the alarm time of each TimerEvent
  alarms,    \* Timer::m_queue, sorted by alarm time
  worker,    \* the thread of sendAlarms()
  external,  \* m_externalEventAdapter's queue: alarms, and the end event
  live,      \* dispatchExternalEvents() runs
  expired,   \* m_timerEventQueue: payloads, and NULL
  handler,   \* the thread of consumeTimerEvents()
  payload,   \* the TimerEventPayload of each timer
  registry,  \* m_timerRegistry
  user,      \* where each user thread is; it has the timers lock unless idle
  runs,      \* how often each handler was called
  confirmed, \* the timers a cancelTimer returned true for
  cancels    \* the calls of cancelTimer

vars == <<now, nextId, at, alarms, worker, external, live, expired, handler,
          payload, registry, user, runs, confirmed, cancels>>

-----------------------------------------------------------------------------
Ids == 0 .. MaxTimers - 1
NoTimer == -1       \* no timer in a thread's hand, and the NULL of the queue
EndEvent == -2      \* the end event among the external events
NoAlarm == -1       \* waitMsecs(100) over an empty queue

Payload == [st : {"none", "live", "freed"}, known : BOOLEAN, cancelled : BOOLEAN]
Idle == [pc |-> "idle", id |-> NoTimer]

Init ==
  /\ now = 0 /\ nextId = 0
  /\ at = [i \in Ids |-> 0]
  /\ alarms = <<>> /\ external = <<>> /\ expired = <<>>
  /\ worker = [pc |-> "loop", until |-> NoAlarm, id |-> NoTimer]
  /\ live = TRUE
  /\ handler = [pc |-> "take", id |-> NoTimer]
  /\ payload = [i \in Ids |-> [st |-> "none", known |-> FALSE, cancelled |-> FALSE]]
  /\ registry = {}
  /\ user = [u \in Users |-> Idle]
  /\ runs = [i \in Ids |-> 0]
  /\ confirmed = {}
  /\ cancels = 0

Tick == /\ now < MaxTime
        /\ now' = now + 1
        /\ UNCHANGED <<nextId, at, alarms, worker, external, live, expired, handler,
                       payload, registry, user, runs, confirmed, cancels>>

-----------------------------------------------------------------------------
(* The users *)

TimersLockFree == \A u \in Users : user[u] = Idle

\* lower_bound: before the first alarm that is not earlier
Position(p, t) ==
  /\ \A k \in 1 .. p - 1 : at[alarms[k]] < t
  /\ p <= Len(alarms) => at[alarms[p]] >= t

InsertAlarm(i, p) ==
  [k \in 1 .. Len(alarms) + 1 |->
     IF k < p THEN alarms[k] ELSE IF k = p THEN i ELSE alarms[k - 1]]

EraseAlarm(p) ==
  [k \in 1 .. Len(alarms) - 1 |-> IF k < p THEN alarms[k] ELSE alarms[k + 1]]

\* Fault: the worker is not told of the new alarm.
NotNotified == worker

\* m_lock.notify()
Notified == IF worker.pc = "asleep" THEN [worker EXCEPT !.pc = "loop"] ELSE worker

\* registerTimer() up to the return of scheduleAt(): the worker may fire the alarm
\* from now on, the payload does not know its id yet.
Schedule(u, delay) ==
  /\ TimersLockFree
  /\ nextId \in Ids
  /\ at' = [at EXCEPT ![nextId] = now + delay]
  /\ \E p \in 1 .. Len(alarms) + 1 :
       Position(p, now + delay) /\ alarms' = InsertAlarm(nextId, p)
  /\ nextId' = nextId + 1
  /\ worker' = Notified
  /\ payload' = [payload EXCEPT ![nextId] =
                   [st |-> "live", known |-> FALSE, cancelled |-> FALSE]]
  /\ user' = [user EXCEPT ![u] = [pc |-> "scheduled", id |-> nextId]]
  /\ UNCHANGED <<now, external, live, expired, handler, registry, runs, confirmed, cancels>>

\* updateTimerId() and the entry in the registry
Register(u) ==
  /\ user[u].pc = "scheduled"
  /\ payload' = [payload EXCEPT ![user[u].id].known = TRUE]
  /\ registry' = registry \cup {user[u].id}
  /\ user' = [user EXCEPT ![u] = Idle]
  /\ UNCHANGED <<now, nextId, at, alarms, worker, external, live, expired, handler,
                 runs, confirmed, cancels>>

\* cancelTimer(): the registry's payload is marked; false when there is none.
Mark(u, i) ==
  /\ TimersLockFree
  /\ cancels < MaxCancels
  /\ cancels' = cancels + 1
  /\ IF i \in registry
       THEN /\ payload' = [payload EXCEPT ![i].cancelled = TRUE]
            /\ user' = [user EXCEPT ![u] = [pc |-> "marked", id |-> i]]
       ELSE UNCHANGED <<payload, user>>
  /\ UNCHANGED <<now, nextId, at, alarms, worker, external, live, expired, handler,
                 registry, runs, confirmed>>

\* Fault: true is returned for every timer that was found.
CancelAlarmAlways(u) ==
  /\ user[u].pc = "marked"
  /\ user' = [user EXCEPT ![u] = Idle]
  /\ alarms' = SelectSeq(alarms, LAMBDA i : i # user[u].id)
  /\ confirmed' = confirmed \cup {user[u].id}
  /\ UNCHANGED <<now, nextId, at, worker, external, live, expired, handler, payload,
                 registry, runs, cancels>>

\* Fault: the front alarm is erased, whichever timer it is.
CancelFirst(u) ==
  /\ user[u].pc = "marked"
  /\ user' = [user EXCEPT ![u] = Idle]
  /\ alarms' = IF alarms = <<>> THEN alarms ELSE Tail(alarms)
  /\ UNCHANGED <<now, nextId, at, worker, external, live, expired, handler, payload,
                 registry, runs, confirmed, cancels>>

\* cancelAlarm(), which tells what cancelTimer() returns
CancelAlarm(u) ==
  /\ user[u].pc = "marked"
  /\ user' = [user EXCEPT ![u] = Idle]
  /\ \/ \E p \in 1 .. Len(alarms) :
          /\ alarms[p] = user[u].id
          /\ alarms' = EraseAlarm(p)
          /\ confirmed' = confirmed \cup {user[u].id}
     \/ /\ \A p \in 1 .. Len(alarms) : alarms[p] # user[u].id
        /\ UNCHANGED <<alarms, confirmed>>
  /\ UNCHANGED <<now, nextId, at, worker, external, live, expired, handler, payload,
                 registry, runs, cancels>>

-----------------------------------------------------------------------------
(* The worker of class Timer *)

\* One round of sendAlarms(): it waits for an alarm, or until the first one is due.
Sleep ==
  /\ worker.pc = "loop"
  /\ \/ alarms = <<>> /\ worker' = [worker EXCEPT !.pc = "asleep", !.until = NoAlarm]
     \/ /\ alarms # <<>> /\ at[Head(alarms)] > now
        /\ worker' = [worker EXCEPT !.pc = "asleep", !.until = at[Head(alarms)]]
  /\ UNCHANGED <<now, nextId, at, alarms, external, live, expired, handler, payload,
                 registry, user, runs, confirmed, cancels>>

\* The wait is over: 100 ms over an empty queue, or the time of the first alarm.
Wake ==
  /\ worker.pc = "asleep"
  /\ worker.until = NoAlarm \/ worker.until <= now
  /\ worker' = [worker EXCEPT !.pc = "loop"]
  /\ UNCHANGED <<now, nextId, at, alarms, external, live, expired, handler, payload,
                 registry, user, runs, confirmed, cancels>>

Pop ==
  /\ worker.pc = "loop"
  /\ alarms # <<>> /\ at[Head(alarms)] <= now
  /\ alarms' = Tail(alarms)
  /\ worker' = [worker EXCEPT !.pc = "fire", !.id = Head(alarms)]
  /\ UNCHANGED <<now, nextId, at, external, live, expired, handler, payload,
                 registry, user, runs, confirmed, cancels>>

\* fireEventToAllListeners(), after the unlock
Fire ==
  /\ worker.pc = "fire"
  /\ external' = Append(external, worker.id)
  /\ worker' = [worker EXCEPT !.pc = "loop", !.id = NoTimer]
  /\ UNCHANGED <<now, nextId, at, alarms, live, expired, handler, payload,
                 registry, user, runs, confirmed, cancels>>

-----------------------------------------------------------------------------
(* The external event thread *)

\* The session expires or the Factory is deleted.
EndArrives ==
  /\ live
  /\ \A k \in 1 .. Len(external) : external[k] # EndEvent
  /\ external' = Append(external, EndEvent)
  /\ UNCHANGED <<now, nextId, at, alarms, worker, live, expired, handler, payload,
                 registry, user, runs, confirmed, cancels>>

\* dispatchTimerEvent()
Dispatch ==
  /\ live /\ external # <<>> /\ Head(external) # EndEvent
  /\ external' = Tail(external)
  /\ expired' = Append(expired, Head(external))
  /\ UNCHANGED <<now, nextId, at, alarms, worker, live, handler, payload,
                 registry, user, runs, confirmed, cancels>>

\* dispatchSessionEvent() sets m_shutdown, the loop ends with dispatchEndEvent().
DispatchEnd ==
  /\ live /\ external # <<>> /\ Head(external) = EndEvent
  /\ external' = Tail(external)
  /\ live' = FALSE
  /\ expired' = Append(expired, NoTimer)
  /\ UNCHANGED <<now, nextId, at, alarms, worker, handler, payload,
                 registry, user, runs, confirmed, cancels>>

-----------------------------------------------------------------------------
(* The timer handler thread *)

\* Fault: NULL is taken for a payload.
TakeNull ==
  /\ handler.pc = "take" /\ expired # <<>>
  /\ expired' = Tail(expired)
  /\ handler' = [pc |-> "check", id |-> Head(expired)]
  /\ UNCHANGED <<now, nextId, at, alarms, worker, external, live, payload,
                 registry, user, runs, confirmed, cancels>>

Take ==
  /\ handler.pc = "take" /\ expired # <<>>
  /\ expired' = Tail(expired)
  /\ handler' = IF Head(expired) = NoTimer
                  THEN [pc |-> "ended", id |-> NoTimer]
                  ELSE [pc |-> "check", id |-> Head(expired)]
  /\ UNCHANGED <<now, nextId, at, alarms, worker, external, live, payload,
                 registry, user, runs, confirmed, cancels>>

\* cancelled(), read without the lock
Check ==
  /\ handler.pc = "check"
  /\ handler' = [handler EXCEPT !.pc = IF payload[handler.id].cancelled
                                         THEN "free" ELSE "run"]
  /\ UNCHANGED <<now, nextId, at, alarms, worker, external, live, expired, payload,
                 registry, user, runs, confirmed, cancels>>

\* handleTimerEvent(); a thread that runs the user's handler may call the Factory.
Run ==
  /\ handler.pc = "run"
  /\ runs' = [runs EXCEPT ![handler.id] = @ + 1]
  /\ handler' = [handler EXCEPT !.pc = "free"]
  /\ UNCHANGED <<now, nextId, at, alarms, worker, external, live, expired, payload,
                 registry, user, confirmed, cancels>>

\* What getId() returns: 0 before updateTimerId().
IdOf(i) == IF payload[i].known THEN i ELSE 0

\* Fault: the payload is deallocated without the timers lock.
FreeUnlocked ==
  /\ handler.pc = "free"
  /\ registry' = registry \ {IdOf(handler.id)}
  /\ payload' = [payload EXCEPT ![handler.id].st = "freed"]
  /\ handler' = [pc |-> "take", id |-> NoTimer]
  /\ UNCHANGED <<now, nextId, at, alarms, worker, external, live, expired,
                 user, runs, confirmed, cancels>>

\* The registry entry and the payload go, under the timers lock.
Free ==
  /\ handler.pc = "free" /\ TimersLockFree
  /\ registry' = registry \ {IdOf(handler.id)}
  /\ payload' = [payload EXCEPT ![handler.id].st = "freed"]
  /\ handler' = [pc |-> "take", id |-> NoTimer]
  /\ UNCHANGED <<now, nextId, at, alarms, worker, external, live, expired,
                 user, runs, confirmed, cancels>>

-----------------------------------------------------------------------------
Next ==
  \/ Tick
  \/ \E u \in Users :
       \/ \E delay \in Delays : Schedule(u, delay)
       \/ Register(u)
       \/ \E i \in 0 .. nextId - 1 : Mark(u, i)
       \/ CancelAlarm(u)
  \/ Sleep \/ Wake \/ Pop \/ Fire
  \/ EndArrives \/ Dispatch \/ DispatchEnd
  \/ Take \/ Check \/ Run \/ Free

Spec == Init /\ [][Next]_vars

\* Time passes, the three threads are scheduled, and a user gives the lock back.
Fairness ==
  /\ WF_vars(Tick)
  /\ WF_vars(Sleep \/ Wake \/ Pop \/ Fire)
  /\ WF_vars(Dispatch \/ DispatchEnd)
  /\ WF_vars(Take \/ Check \/ Run) /\ SF_vars(Free)
  /\ \A u \in Users : WF_vars(Register(u) \/ CancelAlarm(u))

FairSpec == Spec /\ Fairness
-----------------------------------------------------------------------------
(* Properties *)

In(s) == {s[k] : k \in DOMAIN s}
OneEach(s) == \A k, l \in DOMAIN s : s[k] = s[l] => k = l

\* The timers in each of the five places of the way
Held(t) == {t.id} \ {NoTimer}
Alarmed == In(alarms)
Fired == In(external) \ {EndEvent}
Queued == In(expired) \ {NoTimer}
OnItsWay == Alarmed \cup Held(worker) \cup Fired \cup Queued \cup Held(handler)

TypeOK ==
  /\ now \in Nat /\ nextId \in 0 .. MaxTimers
  /\ at \in [Ids -> Nat]
  /\ alarms \in Seq(Ids) /\ external \in Seq(Ids \cup {EndEvent})
  /\ expired \in Seq(Ids \cup {NoTimer})
  /\ worker \in [pc : {"loop", "asleep", "fire"}, until : Nat \cup {NoAlarm},
                 id : Ids \cup {NoTimer}]
  /\ worker.pc = "fire" <=> worker.id # NoTimer
  /\ live \in BOOLEAN
  /\ handler \in [pc : {"take", "check", "run", "free", "ended"}, id : Ids \cup {NoTimer}]
  /\ handler.pc \in {"check", "run", "free"} <=> handler.id # NoTimer
  /\ payload \in [Ids -> Payload]
  /\ registry \subseteq Ids
  /\ user \in [Users -> [pc : {"idle", "scheduled", "marked"}, id : Ids \cup {NoTimer}]]
  /\ \A u \in Users : user[u].pc = "idle" <=> user[u].id = NoTimer
  /\ runs \in [Ids -> Nat]
  /\ confirmed \subseteq Ids
  /\ cancels \in Nat

\* An alarm is in one place of its way, once; the end event does not come twice.
OnePlace ==
  /\ OneEach(alarms) /\ OneEach(external) /\ OneEach(expired)
  /\ Alarmed \cap (Held(worker) \cup Fired \cup Queued \cup Held(handler)) = {}
  /\ Held(worker) \cap (Fired \cup Queued \cup Held(handler)) = {}
  /\ Fired \cap (Queued \cup Held(handler)) = {}
  /\ Queued \cap Held(handler) = {}

\* The queues, the threads and the registry point to the payloads: what is on its way
\* has its payload still, a registered timer's payload is not freed under the feet of
\* a cancelTimer that has found it, and no payload is lost but those of the timers that
\* were cancelled in time, which nothing deletes any more.
PayloadsLive ==
  /\ \A i \in OnItsWay : payload[i].st = "live"
  /\ registry = {i \in Ids : payload[i].st = "live" /\ payload[i].known}
  /\ \A u \in Users : user[u].pc = "marked" => user[u].id \in registry
  /\ {i \in Ids : payload[i].st = "live"} = OnItsWay \cup confirmed

\* A timer for which cancelTimer has returned true is nowhere on its way and never ran.
CancelledIsGone ==
  /\ confirmed \cap OnItsWay = {}
  /\ \A i \in confirmed : runs[i] = 0

\* Every timer is accounted for, from registerTimer to the end of its handler.
TimersAccounted == OnePlace /\ PayloadsLive /\ CancelledIsGone

\* The alarms are in the order of their times, and the worker does not sleep over one:
\* it is woken by the first alarm's time at the latest.
PromptAlarms ==
  /\ \A k, l \in DOMAIN alarms : k < l => at[alarms[k]] <= at[alarms[l]]
  /\ worker.pc = "asleep" =>
       IF worker.until = NoAlarm THEN alarms = <<>>
       ELSE \A i \in Alarmed : worker.until <= at[i]

\* The timers of client.h: at most one call, not before the time, none after a
\* cancelTimer that returned true.
TimerState(i) ==
  CASE runs[i] > 1 -> "twice"
    [] runs[i] = 1 -> "run"
    [] runs[i] = 0 /\ i \in confirmed -> "cancelled"
    [] runs[i] = 0 /\ i \notin confirmed /\ i < nextId -> "set"
    [] OTHER -> "unset"

Abstract == INSTANCE AbstractTimers
  WITH Timers <- Ids, clock <- now, due <- at, timer <- [i \in Ids |-> TimerState(i)]

ImplementsAbstractTimers == Abstract!Spec

\* A timer that nobody cancels runs, unless the end event comes first.
Ended == ~live \/ EndEvent \in In(external)
TimersRun ==
  \A i \in Ids : i < nextId ~> runs[i] = 1 \/ payload[i].cancelled \/ Ended \/ at[i] > MaxTime
=============================================================================
