----------------------------- MODULE ProcessSlot -----------------------------
(***************************************************************************)
(* A process slot of an active node: the updater thread that starts and    *)
(* kills the slot's program (src/src/activenode/processslotupdater.cc), the *)
(* users that publish a desired state (src/src/cli/generalcommands.cc and  *)
(* the GUI's JSON-RPC adaptor), and the operating system's processes.      *)
(*                                                                         *)
(* The updater's run() holds the NOTIFYABLE_LOCK from its start to its     *)
(* publish, so its cache is the latest version when it begins (module      *)
(* CachedState); a user without the lock can still publish meanwhile.  The *)
(* processes are numbered as they are forked; a pid is not used again.     *)
(***************************************************************************)
EXTENDS Integers, Sequences, FiniteSets

CONSTANTS
  MaxStartsValues, \* values of _processStateMaxStarts, Unlimited or naturals
  MaxEdits,        \* bound: publishes of a desired state
  MaxGuiEdits,     \* bound: those of the GUI, without the lock
  MaxExits,        \* bound: programs that end without being killed
  MaxFaults,       \* bound: failed forks and publishes
  MaxRestarts,     \* bound: restarts of the active node
  MaxCount         \* bound: totalStarts is counted no further than this

Unlimited == -1

ASSUME ProcessSlotAssumption ==
  /\ MaxStartsValues \subseteq Nat \cup {Unlimited} /\ MaxStartsValues # {}
  /\ {MaxEdits, MaxGuiEdits, MaxExits, MaxFaults, MaxRestarts, MaxCount} \subseteq Nat
  /\ \A max \in MaxStartsValues : max < MaxCount

VARIABLES
  desired,  \* the published desired state
  seen,     \* the updater's cached desired state
  current,  \* the published current state
  work,     \* the updater's cached current state during run()
  oldPid,   \* run()'s oldPid
  pc,       \* "idle", "decide", "publish"; "dead" after an exception
  procs,    \* the processes forked for this slot, in order
  edits, guiEdits, exits, faults, restarts

vars == <<desired, seen, current, work, oldPid, pc, procs,
          edits, guiEdits, exits, faults, restarts>>
users == <<desired, edits, guiEdits>>
others == <<exits, faults, restarts>>

-----------------------------------------------------------------------------
NoPid == -1

\* The stamps are the times of the users' publishes; the GUI sets none when it
\* starts a program and a string when it stops one.
Missing == 0
Text == -1

Desired == [state : {"none", "once", "cont", "exit", "clean"}, stamp : Int,
            max : Nat \cup {Unlimited}, command : BOOLEAN]
Current == [state : {"none", "running", "exit", "failure"}, pid : Int,
            starts : Nat, from : Int]
\* "doomed": SIGKILL was sent; "zombie": ended, by itself with an exit status if
\* it returned; "reaped": waited for; "orphan": its active node has ended.
Process == [st : {"running", "doomed", "zombie", "reaped", "orphan"},
            returned : BOOLEAN, stamp : Int]

NoDesired == [state |-> "none", stamp |-> Missing, max |-> Unlimited, command |-> FALSE]
NoCurrent == [state |-> "none", pid |-> NoPid, starts |-> 0, from |-> Missing]

Init ==
  /\ desired = NoDesired /\ seen = NoDesired
  /\ current = NoCurrent /\ work = NoCurrent
  /\ oldPid = NoPid
  /\ pc = "idle"
  /\ procs = <<>>
  /\ edits = 0 /\ guiEdits = 0 /\ exits = 0 /\ faults = 0 /\ restarts = 0

-----------------------------------------------------------------------------
(* The users *)

Edit(d) ==
  /\ edits < MaxEdits
  /\ edits' = edits + 1
  /\ desired' = d
  /\ UNCHANGED <<seen, current, work, oldPid, pc, procs, others>>

\* The NOTIFYABLE_LOCK, which the updater holds during run(), is free.
Unlocked == pc \in {"idle", "dead"}

\* Fault: the lock is not taken.
ManageUnlocked(state) ==
  /\ Edit([desired EXCEPT !.state = state, !.stamp = edits + 1])
  /\ UNCHANGED guiEdits

\* ManageProcessSlot::action
ManageProcessSlot(state) ==
  /\ Unlocked
  /\ Edit([desired EXCEPT !.state = state, !.stamp = edits + 1])
  /\ UNCHANGED guiEdits

\* The user publishes the other keys of the desired state.
Configure(max, command) ==
  /\ Unlocked
  /\ Edit([desired EXCEPT !.max = max, !.command = command])
  /\ UNCHANGED guiEdits

GuiStart ==
  /\ guiEdits < MaxGuiEdits
  /\ guiEdits' = guiEdits + 1
  /\ Edit([desired EXCEPT !.state = "cont"])

GuiStop ==
  /\ guiEdits < MaxGuiEdits
  /\ guiEdits' = guiEdits + 1
  /\ Edit([desired EXCEPT !.state = "exit", !.stamp = Text])

-----------------------------------------------------------------------------
(* The operating system *)

Status(pid) == IF pid \in DOMAIN procs THEN procs[pid].st ELSE "none"
Running(pid) == Status(pid) = "running"
Zombie(pid) == Status(pid) = "zombie"

ProgramEnds(pid) ==
  /\ \/ /\ Running(pid)
        /\ exits < MaxExits
        /\ exits' = exits + 1
        /\ \E returns \in BOOLEAN :
             procs' = [procs EXCEPT ![pid].st = "zombie", ![pid].returned = returns]
     \/ /\ Status(pid) = "doomed"
        /\ procs' = [procs EXCEPT ![pid].st = "zombie"]
        /\ UNCHANGED exits
  /\ UNCHANGED <<desired, seen, current, work, oldPid, pc, edits, guiEdits, faults, restarts>>

\* stopLocal: a signal for a process that does not run has no effect.
Killed(pid) ==
  IF Running(pid) THEN [procs EXCEPT ![pid].st = "doomed"] ELSE procs

-----------------------------------------------------------------------------
(* The updater *)

Outcome(pid) == IF procs[pid].returned THEN "exit" ELSE "failure"

\* run() up to determineAction: the lock is taken, and waitpid(WNOHANG) tells how
\* a program ended, that it has not, or fails for a pid already waited for.
Begin ==
  /\ pc = "idle"
  /\ seen' = desired
  /\ oldPid' = current.pid
  /\ \/ /\ Zombie(current.pid)
        /\ procs' = [procs EXCEPT ![current.pid].st = "reaped"]
        /\ work' = [current EXCEPT !.pid = NoPid, !.state = Outcome(current.pid)]
        /\ pc' = "decide"
     \/ /\ Status(current.pid) = "reaped"
        /\ pc' = "dead"
        /\ UNCHANGED <<procs, work>>
     \/ /\ Status(current.pid) \in {"none", "running", "doomed"}
        /\ pc' = "decide"
        /\ work' = current
        /\ UNCHANGED procs
  /\ UNCHANGED <<users, current, others>>

\* The event thread brings a publish that did not wait for the lock.
Refresh ==
  /\ pc \in {"decide", "publish"}
  /\ seen # desired
  /\ seen' = desired
  /\ UNCHANGED <<users, current, work, oldPid, pc, procs, others>>

Wanted ==
  CASE seen.state \in {"once", "cont"} -> "start"
    [] seen.state = "exit"             -> "kill"
    [] OTHER                           -> "none"

\* determineAction throws when the time of the desired state is missing, or when
\* it is compared and one of the two times is a string.
BadStamp ==
  /\ seen.state # "none" /\ work.state # "none"
  /\ \/ seen.stamp = Missing
     \/ work.from # Missing /\ Text \in {seen.stamp, work.from}

\* The current state is that of this desired state already.
Satisfied ==
  /\ work.state # "none"
  /\ work.from \in {Missing, seen.stamp}
  /\ \/ Wanted = "start" /\ work.state = "running"
     \/ seen.state = "once" /\ work.state = "exit"
     \/ Wanted = "kill" /\ work.state = "exit"

DecideFails ==
  /\ pc = "decide"
  /\ BadStamp
  /\ pc' = "dead"
  /\ UNCHANGED <<users, seen, current, work, oldPid, procs, others>>

DecideNone ==
  /\ pc = "decide" /\ ~BadStamp
  /\ Wanted = "none" \/ Satisfied
  /\ pc' = "publish"
  /\ UNCHANGED <<users, seen, current, work, oldPid, procs, others>>

\* Fault: the state is set and the program left alone.
DecideKillForgets ==
  /\ pc = "decide" /\ ~BadStamp
  /\ Wanted = "kill" /\ ~Satisfied
  /\ work' = [work EXCEPT !.state = "exit"]
  /\ pc' = "publish"
  /\ UNCHANGED <<users, seen, current, oldPid, procs, others>>

\* The pid stays: the next run() waits for the process.
DecideKill ==
  /\ pc = "decide" /\ ~BadStamp
  /\ Wanted = "kill" /\ ~Satisfied
  /\ procs' = Killed(oldPid)
  /\ work' = [work EXCEPT !.state = "exit"]
  /\ pc' = "publish"
  /\ UNCHANGED <<users, seen, current, oldPid, others>>

Forked(before) == Append(before, [st |-> "running", returned |-> FALSE, stamp |-> seen.stamp])

\* totalStarts
Counted == IF work.starts < MaxCount THEN work.starts + 1 ELSE work.starts

\* Fault: the old program is left running beside the new one.
StartBesideOld ==
  /\ pc = "decide" /\ ~BadStamp
  /\ Wanted = "start" /\ ~Satisfied
  /\ procs' = Forked(procs)
  /\ work' = [work EXCEPT !.state = "running", !.pid = Len(procs) + 1, !.starts = Counted]
  /\ pc' = "publish"
  /\ UNCHANGED <<users, seen, current, oldPid, others>>

\* Fault: the limit is compared with the starts so far.
TooManyStartsOffByOne == seen.max # Unlimited /\ work.starts > seen.max

TooManyStarts == seen.max # Unlimited /\ work.starts + 1 > seen.max

\* An old program is killed first.  Beyond the limit, and without a command, the
\* state becomes a failure; a fork that fails throws.
DecideStart ==
  /\ pc = "decide" /\ ~BadStamp
  /\ Wanted = "start" /\ ~Satisfied
  /\ \/ /\ TooManyStarts
        /\ procs' = Killed(oldPid)
        /\ work' = [work EXCEPT !.state = "failure"]
        /\ pc' = "publish"
        /\ UNCHANGED faults
     \/ /\ ~TooManyStarts /\ ~seen.command
        /\ procs' = Killed(oldPid)
        /\ work' = [work EXCEPT !.state = "failure", !.starts = Counted]
        /\ pc' = "publish"
        /\ UNCHANGED faults
     \/ /\ ~TooManyStarts /\ seen.command
        /\ procs' = Forked(Killed(oldPid))
        /\ work' = [work EXCEPT !.state = "running", !.pid = Len(procs) + 1,
                                !.starts = Counted]
        /\ pc' = "publish"
        /\ UNCHANGED faults
     \/ /\ ~TooManyStarts /\ seen.command
        /\ faults < MaxFaults
        /\ faults' = faults + 1
        /\ procs' = Killed(oldPid)
        /\ work' = [work EXCEPT !.starts = Counted]
        /\ pc' = "dead"
  /\ UNCHANGED <<users, seen, current, oldPid, exits, restarts>>

Stamped == [work EXCEPT !.from = IF seen.stamp = Missing THEN @ ELSE seen.stamp]

\* The rest of run(): the current state says which desired state it came from.  A
\* publish that throws, written or not, ends the thread.
Publish ==
  /\ pc = "publish"
  /\ work' = Stamped
  /\ \/ current' = Stamped /\ pc' = "idle" /\ UNCHANGED faults
     \/ /\ faults < MaxFaults
        /\ faults' = faults + 1
        /\ current' \in {current, Stamped}
        /\ pc' = "dead"
  /\ UNCHANGED <<users, seen, oldPid, procs, exits, restarts>>

\* The active node shuts down or crashes and starts again: its constructor removes
\* the slots and creates new ones; nobody looks for the programs still running.
Restart ==
  /\ restarts < MaxRestarts
  /\ restarts' = restarts + 1
  /\ desired' = NoDesired /\ seen' = NoDesired
  /\ current' = NoCurrent /\ work' = NoCurrent
  /\ oldPid' = NoPid
  /\ pc' = "idle"
  /\ procs' = [pid \in DOMAIN procs |-> [procs[pid] EXCEPT !.st = "orphan"]]
  /\ UNCHANGED <<edits, guiEdits, exits, faults>>

-----------------------------------------------------------------------------
Updater == Begin \/ DecideFails \/ DecideNone \/ DecideKill \/ DecideStart \/ Publish

User ==
  \/ \E state \in {"once", "cont", "exit", "clean"} : ManageProcessSlot(state)
  \/ \E max \in MaxStartsValues, command \in BOOLEAN : Configure(max, command)
  \/ GuiStart \/ GuiStop

Next ==
  \/ User \/ Updater \/ Refresh \/ Restart
  \/ \E pid \in DOMAIN procs : ProgramEnds(pid)

Spec == Init /\ [][Next]_vars

\* The updater runs every two seconds, and a killed program dies.
FairSpec ==
  /\ Spec
  /\ WF_vars(Updater)
  /\ WF_vars(\E pid \in DOMAIN procs : Status(pid) = "doomed" /\ ProgramEnds(pid))

-----------------------------------------------------------------------------
(* Properties *)

\* The values of the published and cached states and of the processes.
TypeOK ==
  /\ desired \in Desired /\ seen \in Desired
  /\ current \in Current /\ work \in Current
  /\ oldPid \in Int
  /\ pc \in {"idle", "decide", "publish", "dead"}
  /\ procs \in Seq(Process)
  /\ {edits, guiEdits, exits, faults, restarts} \subseteq Nat

\* The pid in the current state is a child that nobody has waited for yet: waitpid
\* does not fail, which would end the updater.
PidIsChild ==
  pc # "dead" /\ current.pid # NoPid /\ (pc = "idle" \/ work.pid = current.pid)
    => /\ current.pid \in DOMAIN procs
       /\ Status(current.pid) \notin {"reaped", "orphan"}

\* Between two run()s a current state other than RUNNING means that no program of
\* the slot runs on, killed ones aside, and the program that runs is the one whose
\* pid the current state has.
StoppedMeansStopped ==
  pc = "idle" =>
    \A pid \in DOMAIN procs :
      Running(pid) => current.state = "running" /\ current.pid = pid

\* A slot runs one program at a time: of the processes this active node has forked
\* for it at most one runs and has not been killed, whatever fails; and it is the one
\* the current state tells of.  (Every variable has its type, too.)
OneProgram ==
  /\ TypeOK
  /\ Cardinality({pid \in DOMAIN procs : Running(pid)}) <= 1
  /\ PidIsChild /\ StoppedMeansStopped

\* isCurrentStateFromDesiredState: when it returns TRUE the current state is the
\* outcome of the desired state, not of an earlier one, if all users take the lock.
CurrentAnswersDesired ==
  guiEdits = 0 /\ pc \in {"idle", "dead"} /\ current.from # Missing /\ current.from = desired.stamp =>
    CASE desired.state = "exit"  -> current.state = "exit"
      [] desired.state = "cont"  -> current.state \in {"running", "failure"}
      [] desired.state = "once"  -> current.state \in {"running", "failure", "exit"}
      [] OTHER -> TRUE

Starts == {pid \in DOMAIN procs : procs[pid].st # "orphan"}

\* A new program is started only below the limit on starts, which counts every
\* start since the active node came up; and a program to run once that has returned by
\* itself is not started again for the same desired state.
StartsAsAsked ==
  [][Len(procs') > Len(procs) =>
       /\ \/ seen.max = Unlimited
          \/ Cardinality(Starts) < seen.max
       /\ seen.state = "once" =>
            ~\E pid \in Starts : procs[pid].stamp = seen.stamp /\ procs[pid].returned]_vars

\* A desired state EXIT that stays ends with no program of the slot alive, and a
\* program that is to run continuously is started again whenever it ends.
FollowsDesired ==
  /\ <>[](desired.state = "exit" /\ pc # "dead")
       => <>[](\A pid \in Starts : Status(pid) \notin {"running", "doomed"})
  /\ <>[](desired.state = "cont" /\ desired.command /\ desired.max = Unlimited /\ pc # "dead")
       => []<>(\E pid \in Starts : Running(pid))
=============================================================================
