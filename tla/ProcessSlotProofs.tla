-------------------------- MODULE ProcessSlotProofs --------------------------
(***************************************************************************)
(* The invariants of ProcessSlot and the limits on its starts, for any     *)
(* number of publishes, failures, ends of programs and restarts.           *)
(***************************************************************************)
EXTENDS ProcessSlot, FiniteSetTheorems, TLAPS

-----------------------------------------------------------------------------
(* Types *)

\* The values of the updater's part of the state.
UpdaterType ==
  /\ seen' \in Desired /\ current' \in Current /\ work' \in Current
  /\ oldPid' \in Int /\ pc' \in {"idle", "decide", "publish", "dead"}
  /\ procs' \in Seq(Process)

LEMMA StatusRunning ==
  ASSUME NEW pid, Running(pid)
  PROVE  pid \in DOMAIN procs /\ procs[pid].st = "running"
BY DEF Running, Status

\* A signal changes nobody but the one it is sent to.
LEMMA KilledEffect ==
  ASSUME procs \in Seq(Process), NEW pid \in Int
  PROVE  /\ Killed(pid) \in Seq(Process)
         /\ Len(Killed(pid)) = Len(procs) /\ DOMAIN Killed(pid) = DOMAIN procs
         /\ \A q \in DOMAIN procs :
              /\ Killed(pid)[q].st = IF q = pid /\ procs[q].st = "running"
                                     THEN "doomed" ELSE procs[q].st
              /\ Killed(pid)[q].returned = procs[q].returned
              /\ Killed(pid)[q].stamp = procs[q].stamp
<1>1. CASE ~ Running(pid)
  BY <1>1 DEF Killed, Running, Status
<1>2. CASE Running(pid)
  <2>1. pid \in DOMAIN procs /\ procs[pid].st = "running"
    BY <1>2, StatusRunning
  <2>2. Killed(pid) = [procs EXCEPT ![pid].st = "doomed"]
    BY <1>2 DEF Killed
  <2>3. procs[pid] \in Process
    BY <2>1
  <2>4. [procs[pid] EXCEPT !.st = "doomed"] \in Process
    BY <2>3 DEF Process
  <2>5. Killed(pid) = [procs EXCEPT ![pid] = [procs[pid] EXCEPT !.st = "doomed"]]
    BY <2>2
  <2>6. Killed(pid) \in Seq(Process) /\ Len(Killed(pid)) = Len(procs)
    BY <2>1, <2>4, <2>5
  <2>7. /\ Killed(pid)[pid].st = "doomed"
        /\ Killed(pid)[pid].returned = procs[pid].returned
        /\ Killed(pid)[pid].stamp = procs[pid].stamp
    BY <2>1, <2>3, <2>5 DEF Process
  <2> QED BY <2>1, <2>5, <2>6, <2>7
<1> QED BY <1>1, <1>2

\* A fork adds a process.
LEMMA ForkedEffect ==
  ASSUME NEW before \in Seq(Process), seen \in Desired
  PROVE  /\ Forked(before) \in Seq(Process)
         /\ Len(Forked(before)) = Len(before) + 1
         /\ \A q \in DOMAIN before : Forked(before)[q] = before[q]
         /\ Forked(before)[Len(before) + 1] =
              [st |-> "running", returned |-> FALSE, stamp |-> seen.stamp]
         /\ DOMAIN Forked(before) = DOMAIN before \cup {Len(before) + 1}
<1>1. [st |-> "running", returned |-> FALSE, stamp |-> seen.stamp] \in Process
  BY DEF Process, Desired
<1> QED BY <1>1 DEF Forked

-----------------------------------------------------------------------------
(* One program at a time *)

\* The pid in c is a child that nobody has waited for yet.
Child(c) ==
  c.pid # NoPid => c.pid \in DOMAIN procs /\ procs[c.pid].st \notin {"reaped", "orphan"}

\* Only the process that c tells of runs.
OnlyRuns(c) ==
  \A pid \in DOMAIN procs :
    procs[pid].st = "running" => c.state = "running" /\ c.pid = pid

\* The published state tells the truth between two run()s, the cached one within
\* run(), and no second program runs, not even after an exception.
RunInv ==
  /\ pc = "idle" => Child(current) /\ OnlyRuns(current)
  /\ pc \in {"decide", "publish"} => Child(work) /\ OnlyRuns(work)
  /\ pc = "decide" => \A pid \in DOMAIN procs : procs[pid].st = "running" => pid = oldPid
  /\ \A p, q \in DOMAIN procs : procs[p].st = "running" /\ procs[q].st = "running" => p = q

LEMMA InitRuns == Init => TypeOK /\ RunInv
<1>1. NoDesired \in Desired /\ NoCurrent \in Current
  BY DEF NoDesired, NoCurrent, Desired, Current, Missing, NoPid
<1>2. NoCurrent.pid = NoPid
  BY DEF NoCurrent
<1> QED BY <1>1, <1>2 DEF Init, TypeOK, RunInv, Child, OnlyRuns, NoPid

\* The users.
LEMMA UserRuns ==
  ASSUME TypeOK, RunInv, User
  PROVE  TypeOK' /\ RunInv'
<1>1. ASSUME NEW d \in Desired, Edit(d), guiEdits' \in Nat
      PROVE  TypeOK' /\ RunInv'
  <2>1. /\ desired' \in Desired /\ edits' \in Nat
        /\ UNCHANGED <<seen, current, work, oldPid, pc, procs, exits, faults, restarts>>
    BY <1>1 DEF Edit, others, TypeOK
  <2>2. TypeOK'
    BY <1>1, <2>1 DEF TypeOK
  <2> QED BY <2>1, <2>2 DEF RunInv, Child, OnlyRuns
<1>2. ASSUME NEW state \in {"once", "cont", "exit", "clean"}, ManageProcessSlot(state)
      PROVE  TypeOK' /\ RunInv'
  <2>a. PICK m \in Int : m = edits + 1
    BY DEF TypeOK
  <2>b. desired \in Desired /\ guiEdits \in Nat /\ guiEdits' = guiEdits
    BY <1>2 DEF TypeOK, ManageProcessSlot
  <2>c. [desired EXCEPT !.state = state, !.stamp = m] \in Desired
    BY <2>b DEF Desired
  <2>1. [desired EXCEPT !.state = state, !.stamp = edits + 1] \in Desired /\ guiEdits' \in Nat
    BY <2>a, <2>b, <2>c
  <2> QED BY <1>1, <1>2, <2>1 DEF ManageProcessSlot
<1>3. ASSUME NEW max \in MaxStartsValues, NEW command \in BOOLEAN, Configure(max, command)
      PROVE  TypeOK' /\ RunInv'
  <2>1. [desired EXCEPT !.max = max, !.command = command] \in Desired /\ guiEdits' \in Nat
    BY <1>3, ProcessSlotAssumption DEF TypeOK, Desired, Configure
  <2> QED BY <1>1, <1>3, <2>1 DEF Configure
<1>4. CASE GuiStart
  <2>1. [desired EXCEPT !.state = "cont"] \in Desired /\ guiEdits' \in Nat
    BY <1>4 DEF TypeOK, Desired, GuiStart
  <2> QED BY <1>1, <1>4, <2>1 DEF GuiStart
<1>5. CASE GuiStop
  <2>a. desired \in Desired /\ guiEdits' \in Nat /\ Text \in Int
    BY <1>5 DEF TypeOK, GuiStop, Text
  <2>1. [desired EXCEPT !.state = "exit", !.stamp = Text] \in Desired /\ guiEdits' \in Nat
    BY <2>a DEF Desired
  <2> QED BY <1>1, <1>5, <2>1 DEF GuiStop
<1> QED BY <1>2, <1>3, <1>4, <1>5 DEF User

\* A program that ends is running or doomed, and a child that has not been waited for
\* stays one.
LEMMA EndEffect ==
  ASSUME TypeOK, NEW pid \in DOMAIN procs, ProgramEnds(pid)
  PROVE  /\ procs' \in Seq(Process) /\ DOMAIN procs' = DOMAIN procs /\ Len(procs') = Len(procs)
         /\ procs[pid].st \in {"running", "doomed"} /\ procs'[pid].st = "zombie"
         /\ procs'[pid].stamp = procs[pid].stamp
         /\ procs'[pid].returned => procs[pid].returned \/ procs[pid].st = "running"
         /\ \A q \in DOMAIN procs : q # pid => procs'[q] = procs[q]
         /\ exits' \in Nat
<1>a. procs \in Seq(Process) /\ procs[pid] \in Process /\ exits \in Nat
  BY DEF TypeOK
<1>1. CASE Running(pid)
  <2>1. PICK r \in BOOLEAN :
          procs' = [procs EXCEPT ![pid].st = "zombie", ![pid].returned = r]
    BY <1>1 DEF ProgramEnds, Running
  <2>2. [procs[pid] EXCEPT !.st = "zombie", !.returned = r] \in Process
    BY <1>a DEF Process
  <2>3. procs' = [procs EXCEPT ![pid] = [procs[pid] EXCEPT !.st = "zombie", !.returned = r]]
    BY <2>1
  <2>4. procs[pid].st = "running"
    BY <1>1, StatusRunning
  <2>5. procs'[pid] = [procs[pid] EXCEPT !.st = "zombie", !.returned = r]
    BY <2>3, <1>a
  <2>6. procs'[pid].st = "zombie" /\ procs'[pid].stamp = procs[pid].stamp
    BY <2>5, <1>a DEF Process
  <2>7. procs' \in Seq(Process) /\ DOMAIN procs' = DOMAIN procs /\ Len(procs') = Len(procs)
    BY <1>a, <2>2, <2>3
  <2>8. exits' \in Nat
    <3>1. exits' = exits + 1 \/ exits' = exits
      BY DEF ProgramEnds
    <3> QED BY <3>1, <1>a
  <2>9. \A q \in DOMAIN procs : q # pid => procs'[q] = procs[q]
    BY <1>a, <2>3
  <2> QED BY <2>4, <2>6, <2>7, <2>8, <2>9
<1>2. CASE Status(pid) = "doomed"
  <2>1. procs' = [procs EXCEPT ![pid].st = "zombie"] /\ procs[pid].st = "doomed" /\ exits' = exits
    BY <1>2 DEF ProgramEnds, Running, Status
  <2>2. [procs[pid] EXCEPT !.st = "zombie"] \in Process
    BY <1>a DEF Process
  <2>3. procs' = [procs EXCEPT ![pid] = [procs[pid] EXCEPT !.st = "zombie"]]
    BY <2>1
  <2>4. procs'[pid] = [procs[pid] EXCEPT !.st = "zombie"]
    BY <2>3, <1>a
  <2>5. /\ procs'[pid].st = "zombie" /\ procs'[pid].stamp = procs[pid].stamp
        /\ procs'[pid].returned = procs[pid].returned
    BY <2>4, <1>a DEF Process
  <2> QED BY <1>a, <2>1, <2>2, <2>3, <2>5
<1> QED BY <1>1, <1>2 DEF ProgramEnds

LEMMA EndRuns ==
  ASSUME TypeOK, RunInv, NEW pid \in DOMAIN procs, ProgramEnds(pid)
  PROVE  TypeOK' /\ RunInv'
<1>1. /\ procs' \in Seq(Process) /\ DOMAIN procs' = DOMAIN procs
      /\ procs'[pid].st = "zombie"
      /\ \A q \in DOMAIN procs : q # pid => procs'[q] = procs[q]
      /\ exits' \in Nat
  BY EndEffect
<1>2. UNCHANGED <<desired, seen, current, work, oldPid, pc, edits, guiEdits, faults, restarts>>
  BY DEF ProgramEnds
<1>3. TypeOK'
  BY <1>1, <1>2 DEF TypeOK
<1>4. \A q \in DOMAIN procs' : procs'[q].st = "running" => procs[q].st = "running"
  BY <1>1
<1>5. \A q \in DOMAIN procs : procs'[q].st \in {"reaped", "orphan"} => procs[q].st \in {"reaped", "orphan"}
  BY <1>1
<1>6. RunInv'
  BY <1>1, <1>2, <1>4, <1>5 DEF RunInv, Child, OnlyRuns
<1> QED BY <1>3, <1>6

\* What Begin does with the processes and its copy of the current state.
LEMMA BeginEffect ==
  ASSUME TypeOK, Begin
  PROVE  /\ procs' \in Seq(Process) /\ DOMAIN procs' = DOMAIN procs /\ Len(procs') = Len(procs)
         /\ work' \in Current
         /\ seen' = desired /\ oldPid' = current.pid
         /\ UNCHANGED <<desired, current, edits, guiEdits, exits, faults, restarts>>
         /\ \A q \in DOMAIN procs :
              /\ procs'[q].stamp = procs[q].stamp /\ procs'[q].returned = procs[q].returned
              /\ q # current.pid => procs'[q] = procs[q]
         /\ \/ /\ current.pid \in DOMAIN procs /\ procs[current.pid].st = "zombie"
               /\ procs'[current.pid].st = "reaped"
               /\ work'.pid = NoPid
               /\ work'.state = IF procs[current.pid].returned THEN "exit" ELSE "failure"
               /\ work'.from = current.from /\ work'.starts = current.starts
               /\ pc' = "decide"
            \/ pc' = "dead" /\ UNCHANGED <<procs, work>>
            \/ /\ pc' = "decide" /\ work' = current /\ procs' = procs
               /\ Status(current.pid) \in {"none", "running", "doomed"}
<1>a. /\ procs \in Seq(Process) /\ current \in Current
      /\ UNCHANGED <<desired, current, edits, guiEdits, exits, faults, restarts>>
      /\ seen' = desired /\ oldPid' = current.pid
  BY DEF TypeOK, Begin, users, others
<1>p. PICK c : c = current.pid
  OBVIOUS
<1>1. CASE /\ Zombie(current.pid)
           /\ procs' = [procs EXCEPT ![current.pid].st = "reaped"]
           /\ work' = [current EXCEPT !.pid = NoPid, !.state = Outcome(current.pid)]
           /\ pc' = "decide"
  <2>1. c \in DOMAIN procs /\ procs[c].st = "zombie"
    BY <1>1, <1>p DEF Zombie, Status
  <2>2. procs[c] \in Process
    BY <1>a, <2>1
  <2>3. [procs[c] EXCEPT !.st = "reaped"] \in Process
    BY <2>2 DEF Process
  <2>4. procs' = [procs EXCEPT ![c] = [procs[c] EXCEPT !.st = "reaped"]]
    BY <1>1, <1>p
  <2>5. procs'[c] = [procs[c] EXCEPT !.st = "reaped"]
    BY <2>1, <2>4, <1>a
  <2>6. /\ procs'[c].st = "reaped"
        /\ procs'[c].stamp = procs[c].stamp
        /\ procs'[c].returned = procs[c].returned
    BY <2>2, <2>5 DEF Process
  <2>7. procs' \in Seq(Process) /\ DOMAIN procs' = DOMAIN procs /\ Len(procs') = Len(procs)
    <3>1. PICK zombie \in Process : zombie = [procs[c] EXCEPT !.st = "reaped"]
      BY <2>3
    <3>2. procs' = [procs EXCEPT ![c] = zombie]
      BY <2>4, <3>1
    <3> QED BY <1>a, <2>1, <3>2
  <2>8. \A q \in DOMAIN procs : q # c => procs'[q] = procs[q]
    BY <1>a, <2>4
  <2>9. /\ work' \in Current /\ work'.pid = NoPid
        /\ work'.state = IF procs[c].returned THEN "exit" ELSE "failure"
        /\ work'.from = current.from /\ work'.starts = current.starts
    <3>1. PICK out : out = Outcome(current.pid)
      OBVIOUS
    <3>2. out = IF procs[c].returned THEN "exit" ELSE "failure"
      BY <3>1, <1>p DEF Outcome
    <3>3. work' = [current EXCEPT !.pid = NoPid, !.state = out] /\ out \in {"exit", "failure"}
      BY <1>1, <3>1, <3>2
    <3>a. NoPid \in Int
      BY DEF NoPid
    <3>4. /\ work' \in Current /\ work'.pid = NoPid /\ work'.state = out
          /\ work'.from = current.from /\ work'.starts = current.starts
      BY <3>3, <3>a, <1>a DEF Current
    <3> QED BY <3>2, <3>4
  <2>10. \A q \in DOMAIN procs :
           /\ procs'[q].stamp = procs[q].stamp /\ procs'[q].returned = procs[q].returned
           /\ q # c => procs'[q] = procs[q]
    BY <2>6, <2>8
  <2> QED BY <1>1, <1>a, <1>p, <2>1, <2>6, <2>7, <2>9, <2>10
<1>2. CASE pc' = "dead" /\ UNCHANGED <<procs, work>>
  BY <1>2, <1>a DEF TypeOK
<1>3. CASE /\ Status(current.pid) \in {"none", "running", "doomed"}
           /\ pc' = "decide" /\ work' = current /\ UNCHANGED procs
  BY <1>3, <1>a
<1> QED BY <1>1, <1>2, <1>3 DEF Begin

LEMMA BeginRuns ==
  ASSUME TypeOK, RunInv, Begin
  PROVE  TypeOK' /\ RunInv'
<1>a. pc = "idle" /\ current \in Current /\ desired \in Desired
  BY DEF Begin, TypeOK
<1>b. Child(current) /\ OnlyRuns(current)
  BY <1>a DEF RunInv
<1>c. /\ procs' \in Seq(Process) /\ DOMAIN procs' = DOMAIN procs
      /\ work' \in Current /\ seen' = desired /\ oldPid' = current.pid
      /\ pc' \in {"decide", "dead"}
      /\ UNCHANGED <<desired, current, edits, guiEdits, exits, faults, restarts>>
      /\ \A q \in DOMAIN procs : q # current.pid => procs'[q] = procs[q]
  BY BeginEffect
<1>d. current.pid \in Int
  BY <1>a DEF Current
<1>1. TypeOK'
  BY <1>a, <1>c, <1>d DEF TypeOK
<1>2. ASSUME current.pid \in DOMAIN procs, procs[current.pid].st = "zombie",
             procs'[current.pid].st = "reaped", work'.pid = NoPid
      PROVE  RunInv'
  <2>1. \A q \in DOMAIN procs' : procs'[q].st # "running"
    BY <1>b, <1>c, <1>2 DEF OnlyRuns
  <2> QED BY <1>c, <1>2, <2>1 DEF RunInv, Child, OnlyRuns
<1>3. ASSUME pc' = "dead", procs' = procs PROVE RunInv'
  BY <1>3 DEF RunInv
<1>4. ASSUME pc' = "decide", work' = current, procs' = procs PROVE RunInv'
  BY <1>b, <1>c, <1>4 DEF RunInv, Child, OnlyRuns
<1>5. RunInv'
  BY BeginEffect, <1>2, <1>3, <1>4
<1> QED BY <1>1, <1>5

\* Killed and then, perhaps, a new program: nothing runs but the new one.
LEMMA KilledRuns ==
  ASSUME TypeOK, RunInv, pc = "decide"
  PROVE  /\ Killed(oldPid) \in Seq(Process)
         /\ Len(Killed(oldPid)) = Len(procs) /\ DOMAIN Killed(oldPid) = DOMAIN procs
         /\ \A q \in DOMAIN procs :
              /\ Killed(oldPid)[q].st # "running"
              /\ Killed(oldPid)[q].st \in {"reaped", "orphan"} => procs[q].st \in {"reaped", "orphan"}
              /\ (Killed(oldPid)[q].st = "orphan") <=> (procs[q].st = "orphan")
              /\ Killed(oldPid)[q].returned = procs[q].returned
              /\ Killed(oldPid)[q].stamp = procs[q].stamp
<1>1. procs \in Seq(Process) /\ oldPid \in Int
  BY DEF TypeOK
<1>2. \A pid \in DOMAIN procs : procs[pid].st = "running" => pid = oldPid
  BY DEF RunInv
<1> QED BY <1>1, <1>2, KilledEffect

\* After DecideKill the program that ran is doomed.
LEMMA KillRuns ==
  ASSUME TypeOK, RunInv, pc = "decide", procs' = Killed(oldPid),
         work' \in Current, work'.pid = work.pid, pc' \in {"publish", "dead"},
         faults' \in Nat,
         UNCHANGED <<users, seen, current, oldPid, exits, restarts>>
  PROVE  TypeOK' /\ RunInv'
<1>1. /\ procs' \in Seq(Process) /\ DOMAIN procs' = DOMAIN procs
      /\ \A q \in DOMAIN procs :
           /\ procs'[q].st # "running"
           /\ procs'[q].st \in {"reaped", "orphan"} => procs[q].st \in {"reaped", "orphan"}
  BY KilledRuns
<1>2. TypeOK'
  BY <1>1 DEF TypeOK, users
<1>3. Child(work)
  BY DEF RunInv
<1>4. Child(work)' /\ OnlyRuns(work)'
  BY <1>1, <1>3 DEF Child, OnlyRuns
<1>5. RunInv'
  BY <1>1, <1>4 DEF RunInv
<1> QED BY <1>2, <1>5

\* DecideStart leaves the new program as the only one.
LEMMA ForkRuns ==
  ASSUME TypeOK, RunInv, pc = "decide", procs' = Forked(Killed(oldPid)),
         work' \in Current, work'.pid = Len(procs) + 1, work'.state = "running",
         pc' = "publish", faults' \in Nat,
         UNCHANGED <<users, seen, current, oldPid, exits, restarts>>
  PROVE  TypeOK' /\ RunInv'
<1>1. PICK before : before = Killed(oldPid)
  OBVIOUS
<1>2. /\ before \in Seq(Process)
      /\ Len(before) = Len(procs) /\ DOMAIN before = DOMAIN procs
      /\ \A q \in DOMAIN procs : before[q].st # "running"
  BY <1>1, KilledRuns
<1>3. seen \in Desired /\ Len(procs) \in Nat
  BY DEF TypeOK
<1>f. procs' = Forked(before)
  BY <1>1
<1>4. /\ procs' \in Seq(Process)
      /\ \A q \in DOMAIN before : procs'[q] = before[q]
      /\ procs'[Len(before) + 1].st = "running"
      /\ DOMAIN procs' = DOMAIN before \cup {Len(before) + 1}
  <2>1. /\ Forked(before) \in Seq(Process)
        /\ \A q \in DOMAIN before : Forked(before)[q] = before[q]
        /\ Forked(before)[Len(before) + 1] =
             [st |-> "running", returned |-> FALSE, stamp |-> seen.stamp]
        /\ DOMAIN Forked(before) = DOMAIN before \cup {Len(before) + 1}
    BY <1>2, <1>3, ForkedEffect
  <2> QED BY <1>f, <2>1
<1>5. \A q \in DOMAIN procs' : procs'[q].st = "running" <=> q = work'.pid
  BY <1>2, <1>3, <1>4
<1>6. work'.pid \in DOMAIN procs'
  BY <1>2, <1>4
<1>7. TypeOK'
  BY <1>4 DEF TypeOK, users
<1>8. Child(work)' /\ OnlyRuns(work)'
  BY <1>5, <1>6 DEF Child, OnlyRuns
<1>9. RunInv'
  BY <1>5, <1>8 DEF RunInv
<1> QED BY <1>7, <1>9

LEMMA CountedType ==
  ASSUME TypeOK
  PROVE  Counted \in Nat
BY DEF TypeOK, Current, Counted

\* What DecideStart does: it leaves the program killed, or starts the new one.
LEMMA StartEffect ==
  ASSUME TypeOK, DecideStart
  PROVE  /\ pc = "decide" /\ ~ BadStamp /\ Wanted = "start" /\ ~ Satisfied
         /\ faults' \in Nat /\ work' \in Current /\ work'.from = work.from
         /\ UNCHANGED <<users, seen, current, oldPid, exits, restarts>>
         /\ \/ /\ procs' = Killed(oldPid) /\ work'.pid = work.pid
               /\ pc' = "publish" /\ work'.state = "failure"
               /\ work'.starts \in {work.starts, Counted}
            \/ /\ procs' = Killed(oldPid) /\ work'.pid = work.pid
               /\ pc' = "dead"
            \/ /\ procs' = Forked(Killed(oldPid))
               /\ work'.pid = Len(procs) + 1 /\ work'.state = "running"
               /\ work'.starts = Counted /\ ~ TooManyStarts
               /\ pc' = "publish"
<1>a. Counted \in Nat /\ work \in Current /\ faults \in Nat /\ Len(procs) \in Nat
  BY CountedType DEF TypeOK
<1>b. PICK n \in Nat : n = Counted
  BY <1>a
<1>c. /\ pc = "decide" /\ ~ BadStamp /\ Wanted = "start" /\ ~ Satisfied
      /\ UNCHANGED <<users, seen, current, oldPid, exits, restarts>>
  BY DEF DecideStart
<1>1. CASE /\ procs' = Killed(oldPid)
           /\ work' = [work EXCEPT !.state = "failure"]
           /\ pc' = "publish"
           /\ UNCHANGED faults
  <2>1. /\ work' \in Current /\ work'.pid = work.pid /\ work'.from = work.from
        /\ work'.state = "failure" /\ work'.starts = work.starts
    BY <1>1, <1>a DEF Current
  <2> QED BY <1>1, <1>a, <1>c, <2>1
<1>2. CASE /\ procs' = Killed(oldPid)
           /\ work' = [work EXCEPT !.state = "failure", !.starts = Counted]
           /\ pc' = "publish"
           /\ UNCHANGED faults
  <2>1. work' = [work EXCEPT !.state = "failure", !.starts = n]
    BY <1>2, <1>b
  <2>2. /\ work' \in Current /\ work'.pid = work.pid /\ work'.from = work.from
        /\ work'.state = "failure" /\ work'.starts = n
    BY <2>1, <1>a DEF Current
  <2> QED BY <1>2, <1>a, <1>b, <1>c, <2>2
<1>3. CASE /\ ~TooManyStarts
           /\ procs' = Forked(Killed(oldPid))
           /\ work' = [work EXCEPT !.state = "running", !.pid = Len(procs) + 1,
                                   !.starts = Counted]
           /\ pc' = "publish"
           /\ UNCHANGED faults
  <2>1. PICK m \in Int : m = Len(procs) + 1
    BY <1>a
  <2>2. work' = [work EXCEPT !.state = "running", !.pid = m, !.starts = n]
    BY <1>3, <1>b, <2>1
  <2>3. /\ work' \in Current /\ work'.pid = m /\ work'.from = work.from
        /\ work'.state = "running" /\ work'.starts = n
    BY <2>2, <1>a DEF Current
  <2> QED BY <1>3, <1>a, <1>b, <1>c, <2>1, <2>3
<1>4. CASE /\ faults' = faults + 1
           /\ procs' = Killed(oldPid)
           /\ work' = [work EXCEPT !.starts = Counted]
           /\ pc' = "dead"
  <2>1. work' = [work EXCEPT !.starts = n]
    BY <1>4, <1>b
  <2>2. work' \in Current /\ work'.pid = work.pid /\ work'.from = work.from
    BY <2>1, <1>a DEF Current
  <2> QED BY <1>4, <1>a, <1>c, <2>2
<1> QED BY <1>1, <1>2, <1>3, <1>4 DEF DecideStart

\* determineAction and what is done about it.
LEMMA DecideRuns ==
  ASSUME TypeOK, RunInv, DecideFails \/ DecideNone \/ DecideKill \/ DecideStart
  PROVE  TypeOK' /\ RunInv'
<1>1. CASE DecideFails \/ DecideNone
  <2>1. /\ pc = "decide" /\ pc' \in {"publish", "dead"}
        /\ UNCHANGED <<users, seen, current, work, oldPid, procs, others>>
    BY <1>1 DEF DecideFails, DecideNone
  <2>2. TypeOK'
    BY <2>1 DEF TypeOK, users, others
  <2>3. RunInv'
    BY <2>1 DEF RunInv, Child, OnlyRuns
  <2> QED BY <2>2, <2>3
<1>2. CASE DecideKill
  <2>1. /\ pc = "decide" /\ procs' = Killed(oldPid) /\ pc' = "publish"
        /\ work' = [work EXCEPT !.state = "exit"]
        /\ UNCHANGED <<users, seen, current, oldPid, exits, faults, restarts>>
    BY <1>2 DEF DecideKill, others
  <2>2. work' \in Current /\ work'.pid = work.pid /\ faults' \in Nat
    BY <2>1 DEF TypeOK, Current
  <2> QED BY <2>1, <2>2, KillRuns
<1>3. CASE DecideStart
  <2>1. /\ pc = "decide" /\ faults' \in Nat /\ work' \in Current
        /\ UNCHANGED <<users, seen, current, oldPid, exits, restarts>>
    BY <1>3, StartEffect
  <2>2. ASSUME procs' = Killed(oldPid), work'.pid = work.pid, pc' \in {"publish", "dead"}
        PROVE  TypeOK' /\ RunInv'
    BY <2>1, <2>2, KillRuns
  <2>3. ASSUME procs' = Forked(Killed(oldPid)), work'.pid = Len(procs) + 1,
               work'.state = "running", pc' = "publish"
        PROVE  TypeOK' /\ RunInv'
    BY <2>1, <2>3, ForkRuns
  <2> QED BY <1>3, <2>2, <2>3, StartEffect
<1> QED BY <1>1, <1>2, <1>3

\* What the end of run() writes: the current state, with the time it came from.
LEMMA PublishEffect ==
  ASSUME TypeOK, Publish
  PROVE  /\ pc = "publish" /\ work' \in Current /\ current' \in Current /\ faults' \in Nat
         /\ work'.pid = work.pid /\ work'.state = work.state /\ work'.starts = work.starts
         /\ work'.from = IF seen.stamp = Missing THEN work.from ELSE seen.stamp
         /\ UNCHANGED <<users, seen, oldPid, procs, exits, restarts>>
         /\ \/ current' = work' /\ pc' = "idle"
            \/ pc' = "dead"
<1>a. /\ work \in Current /\ current \in Current /\ seen.stamp \in Int /\ faults \in Nat
      /\ work.from \in Int
  BY DEF TypeOK, Desired, Current
<1>1. PICK f : f = IF seen.stamp = Missing THEN work.from ELSE seen.stamp
  OBVIOUS
<1>2. work' = [work EXCEPT !.from = f]
  BY <1>1 DEF Publish, Stamped
<1>3. f \in Int
  BY <1>1, <1>a
<1>4. /\ work' \in Current
      /\ work'.pid = work.pid /\ work'.state = work.state /\ work'.starts = work.starts
      /\ work'.from = f
  BY <1>2, <1>3, <1>a DEF Current
<1>5. \/ current' = work' /\ pc' = "idle" /\ faults' = faults
      \/ current' \in {current, work'} /\ pc' = "dead" /\ faults' = faults + 1
  BY DEF Publish
<1>6. pc = "publish" /\ UNCHANGED <<users, seen, oldPid, procs, exits, restarts>>
  BY DEF Publish
<1> QED BY <1>1, <1>4, <1>5, <1>6, <1>a

LEMMA PublishRuns ==
  ASSUME TypeOK, RunInv, Publish
  PROVE  TypeOK' /\ RunInv'
<1>1. /\ pc = "publish" /\ work' \in Current /\ current' \in Current /\ faults' \in Nat
      /\ work'.pid = work.pid /\ work'.state = work.state
      /\ UNCHANGED <<users, seen, oldPid, procs, exits, restarts>>
      /\ (current' = work' /\ pc' = "idle") \/ pc' = "dead"
  BY PublishEffect
<1>2. TypeOK'
  BY <1>1 DEF TypeOK, users
<1>3. Child(work) /\ OnlyRuns(work)
  BY <1>1 DEF RunInv
<1>4. Child(work)' /\ OnlyRuns(work)'
  BY <1>1, <1>3 DEF Child, OnlyRuns
<1>5. pc' = "idle" => Child(current)' /\ OnlyRuns(current)'
  BY <1>1, <1>4 DEF Child, OnlyRuns
<1>6. RunInv'
  BY <1>1, <1>5 DEF RunInv
<1> QED BY <1>2, <1>6

\* A restart forgets every process.
LEMMA RestartEffect ==
  ASSUME TypeOK, Restart
  PROVE  /\ desired' = NoDesired /\ seen' = NoDesired
         /\ current' = NoCurrent /\ work' = NoCurrent
         /\ oldPid' = NoPid /\ pc' = "idle"
         /\ procs' \in Seq(Process) /\ DOMAIN procs' = DOMAIN procs
         /\ \A q \in DOMAIN procs : procs'[q].st = "orphan"
         /\ restarts' \in Nat /\ UNCHANGED <<edits, guiEdits, exits, faults>>
<1>1. procs' = [pid \in DOMAIN procs |-> [procs[pid] EXCEPT !.st = "orphan"]]
  BY DEF Restart
<1>2. ASSUME NEW q \in DOMAIN procs
      PROVE  [procs[q] EXCEPT !.st = "orphan"] \in Process /\ procs'[q].st = "orphan"
  <2>1. procs[q] \in Process
    BY DEF TypeOK
  <2>2. PICK r : r = procs[q]
    OBVIOUS
  <2>3. [r EXCEPT !.st = "orphan"] \in Process /\ [r EXCEPT !.st = "orphan"].st = "orphan"
    BY <2>1, <2>2 DEF Process
  <2>4. procs'[q] = [r EXCEPT !.st = "orphan"]
    BY <1>1, <2>2
  <2> QED BY <2>2, <2>3, <2>4
<1>3. procs' \in Seq(Process) /\ DOMAIN procs' = DOMAIN procs
  BY <1>1, <1>2 DEF TypeOK
<1> QED BY <1>2, <1>3 DEF Restart, TypeOK

LEMMA RestartRuns ==
  ASSUME TypeOK, Restart
  PROVE  TypeOK' /\ RunInv'
<1>1. NoDesired \in Desired /\ NoCurrent \in Current /\ NoCurrent.pid = NoPid /\ NoPid \in Int
  BY DEF NoDesired, NoCurrent, Desired, Current, Missing, NoPid
<1>2. TypeOK'
  BY <1>1, RestartEffect DEF TypeOK
<1>3. RunInv'
  BY <1>1, RestartEffect DEF RunInv, Child, OnlyRuns
<1> QED BY <1>2, <1>3

\* Every step.
LEMMA StepRuns ==
  ASSUME TypeOK, RunInv, [Next]_vars
  PROVE  TypeOK' /\ RunInv'
<1>1. CASE UNCHANGED vars
  BY <1>1 DEF vars, TypeOK, RunInv, Child, OnlyRuns
<1>2. CASE Refresh
  <2>1. seen' = desired /\ UNCHANGED <<users, current, work, oldPid, pc, procs, others>>
    BY <1>2 DEF Refresh
  <2>2. TypeOK'
    BY <2>1 DEF TypeOK, users, others
  <2>3. RunInv'
    BY <2>1 DEF RunInv, Child, OnlyRuns
  <2> QED BY <2>2, <2>3
<1>3. CASE Updater
  BY <1>3, BeginRuns, DecideRuns, PublishRuns DEF Updater
<1> QED BY <1>1, <1>2, <1>3, UserRuns, RestartRuns, EndRuns DEF Next

\* A slot runs one program at a time, and a published pid is a child, with any number
\* of publishes, failed forks and publishes, programs that end, and restarts.
THEOREM OneProgramCorrect == Spec => []OneProgram
<1>1. TypeOK /\ RunInv => OneProgram
  <2> SUFFICES ASSUME TypeOK, RunInv PROVE OneProgram
    OBVIOUS
  <2>1. {pid \in DOMAIN procs : Running(pid)} = {} \/
          \E p : {pid \in DOMAIN procs : Running(pid)} = {p}
    BY StatusRunning DEF RunInv
  <2>2. Cardinality({pid \in DOMAIN procs : Running(pid)}) <= 1
    <3>1. Cardinality({}) = 0 /\ \A p : Cardinality({p}) = 1
      BY FS_EmptySet, FS_Singleton
    <3>2. PICK R : R = {pid \in DOMAIN procs : Running(pid)}
      OBVIOUS
    <3>3. R = {} \/ \E p : R = {p}
      BY <2>1, <3>2
    <3>4. Cardinality(R) = 0 \/ Cardinality(R) = 1
      BY <3>1, <3>3
    <3> QED BY <3>2, <3>4
  <2>3. \A pid \in DOMAIN procs : Status(pid) = procs[pid].st
    BY DEF Status
  <2>4. PidIsChild
    BY <2>3 DEF PidIsChild, RunInv, Child, TypeOK
  <2>5. StoppedMeansStopped
    BY <2>3 DEF StoppedMeansStopped, RunInv, OnlyRuns, Running
  <2> QED BY <2>2, <2>4, <2>5 DEF OneProgram
<1>2. TypeOK /\ RunInv /\ [Next]_vars => TypeOK' /\ RunInv'
  BY StepRuns
<1> QED BY <1>1, <1>2, InitRuns, PTL DEF Spec

-----------------------------------------------------------------------------
(* The limit on the starts *)

\* The starts in c are all the starts, as far as they are counted.
CountsStarts(c) == c.starts < MaxCount => Cardinality(Starts) <= c.starts

LimitInv ==
  /\ desired.max \in MaxStartsValues \cup {Unlimited}
  /\ seen.max \in MaxStartsValues \cup {Unlimited}
  /\ pc = "idle" => CountsStarts(current)
  /\ pc \in {"decide", "publish"} => CountsStarts(work)

LEMMA StartsFinite ==
  ASSUME TypeOK
  PROVE  IsFiniteSet(Starts) /\ Cardinality(Starts) \in Nat
<1>1. Len(procs) \in Nat /\ DOMAIN procs = 1 .. Len(procs)
  BY DEF TypeOK
<1>2. IsFiniteSet(1 .. Len(procs))
  BY <1>1, FS_Interval
<1>3. Starts \subseteq 1 .. Len(procs)
  BY <1>1 DEF Starts
<1> QED BY <1>2, <1>3, FS_Subset, FS_CardinalityType

\* The set of the starts only depends on which processes are orphans.
LEMMA StartsSame ==
  ASSUME DOMAIN procs' = DOMAIN procs,
         \A q \in DOMAIN procs : procs'[q].st = "orphan" <=> procs[q].st = "orphan"
  PROVE  Starts' = Starts
BY DEF Starts

LEMMA EditMax ==
  ASSUME TypeOK, LimitInv, User
  PROVE  /\ desired'.max \in MaxStartsValues \cup {Unlimited}
         /\ UNCHANGED <<seen, current, work, oldPid, pc, procs>>
<1>a. desired \in Desired
  BY DEF TypeOK
<1>1. ASSUME NEW d, Edit(d), d.max \in MaxStartsValues \cup {Unlimited}
      PROVE  /\ desired'.max \in MaxStartsValues \cup {Unlimited}
             /\ UNCHANGED <<seen, current, work, oldPid, pc, procs>>
  BY <1>1 DEF Edit
<1>2. ASSUME NEW state, ManageProcessSlot(state) PROVE desired'.max = desired.max
  BY <1>2, <1>a DEF ManageProcessSlot, Edit, Desired
<1>3. ASSUME NEW max \in MaxStartsValues, NEW command, Configure(max, command)
      PROVE  desired'.max = max
  BY <1>3, <1>a DEF Configure, Edit, Desired
<1>4. ASSUME GuiStart \/ GuiStop PROVE desired'.max = desired.max
  BY <1>4, <1>a DEF GuiStart, GuiStop, Edit, Desired
<1>5. UNCHANGED <<seen, current, work, oldPid, pc, procs>>
  BY DEF User, ManageProcessSlot, Configure, GuiStart, GuiStop, Edit
<1>6. desired'.max \in MaxStartsValues \cup {Unlimited}
  BY <1>2, <1>3, <1>4 DEF User, LimitInv
<1> QED BY <1>5, <1>6

\* A program is forked below the limit only, and is counted.
LEMMA ForkCounts ==
  ASSUME TypeOK, RunInv, LimitInv, pc = "decide",
         procs' = Forked(Killed(oldPid)), work'.starts = Counted
  PROVE  CountsStarts(work)'
<1>1. PICK before : before = Killed(oldPid)
  OBVIOUS
<1>2. /\ before \in Seq(Process) /\ Len(before) = Len(procs) /\ DOMAIN before = DOMAIN procs
      /\ \A q \in DOMAIN procs : before[q].st = "orphan" <=> procs[q].st = "orphan"
  BY <1>1, KilledRuns
<1>3. procs' = Forked(before) /\ seen \in Desired
  BY <1>1 DEF TypeOK
<1>4. /\ \A q \in DOMAIN before : Forked(before)[q] = before[q]
      /\ DOMAIN Forked(before) = DOMAIN before \cup {Len(before) + 1}
  BY <1>2, <1>3, ForkedEffect
<1>5. Starts' \subseteq Starts \cup {Len(procs) + 1}
  BY <1>2, <1>3, <1>4 DEF Starts
<1>6. /\ IsFiniteSet(Starts) /\ Cardinality(Starts) \in Nat
      /\ IsFiniteSet({Len(procs) + 1}) /\ Cardinality({Len(procs) + 1}) = 1
  BY StartsFinite, FS_Singleton
<1>7. /\ IsFiniteSet(Starts \cup {Len(procs) + 1})
      /\ Cardinality(Starts \cup {Len(procs) + 1}) <= Cardinality(Starts) + 1
      /\ Cardinality(Starts \cup {Len(procs) + 1}) \in Nat
  <2>1. Cardinality(Starts \cup {Len(procs) + 1}) \in {Cardinality(Starts), Cardinality(Starts) + 1}
    BY <1>6, FS_AddElement
  <2>2. IsFiniteSet(Starts \cup {Len(procs) + 1})
    BY <1>6, FS_AddElement
  <2> QED BY <1>6, <2>1, <2>2
<1>8. Cardinality(Starts') <= Cardinality(Starts \cup {Len(procs) + 1}) /\ Cardinality(Starts') \in Nat
  BY <1>5, <1>7, FS_Subset, FS_CardinalityType
<1>9. work.starts \in Nat /\ CountsStarts(work) /\ MaxCount \in Nat
  BY ProcessSlotAssumption DEF TypeOK, Current, LimitInv
<1> QED BY <1>6, <1>7, <1>8, <1>9 DEF CountsStarts, Counted

LEMMA StepCounts ==
  ASSUME TypeOK, RunInv, LimitInv, [Next]_vars
  PROVE  LimitInv'
<1>1. ASSUME UNCHANGED <<desired, seen, current, work, pc, Starts>> PROVE LimitInv'
  BY <1>1 DEF LimitInv, CountsStarts
<1>2. CASE UNCHANGED vars
  BY <1>1, <1>2 DEF vars, Starts
<1>3. CASE User
  <2>1. /\ desired'.max \in MaxStartsValues \cup {Unlimited}
        /\ UNCHANGED <<seen, current, work, oldPid, pc, procs>>
    BY <1>3, EditMax
  <2> QED BY <2>1 DEF LimitInv, CountsStarts, Starts
<1>4. CASE Refresh
  BY <1>4 DEF Refresh, users, others, LimitInv, CountsStarts, Starts
<1>5. ASSUME NEW pid \in DOMAIN procs, ProgramEnds(pid) PROVE LimitInv'
  <2>1. Starts' = Starts
    BY <1>5, EndEffect DEF Starts
  <2> QED BY <1>1, <1>5, <2>1 DEF ProgramEnds
<1>6. CASE Restart
  <2>1. Starts' = {}
    BY <1>6, RestartEffect DEF Starts
  <2>2. Cardinality({}) = 0 /\ NoCurrent.starts = 0 /\ NoDesired.max = Unlimited
    BY FS_EmptySet DEF NoCurrent, NoDesired
  <2>3. desired' = NoDesired /\ seen' = NoDesired /\ current' = NoCurrent /\ work' = NoCurrent
    BY <1>6, RestartEffect
  <2> QED BY <2>1, <2>2, <2>3 DEF LimitInv, CountsStarts
<1>7. CASE Begin
  <2>1. pc = "idle" /\ pc' # "idle" /\ seen' = desired /\ desired' = desired
    BY <1>7, BeginEffect DEF Begin
  <2>2. Starts' = Starts
    BY <1>7, BeginEffect DEF Starts
  <2>3. pc' = "decide" => work'.starts = current.starts
    BY <1>7, BeginEffect
  <2>4. pc' \in {"decide", "dead"}
    BY <1>7, BeginEffect
  <2> QED BY <2>1, <2>2, <2>3, <2>4 DEF LimitInv, CountsStarts
<1>8. CASE DecideFails \/ DecideNone
  <2>1. /\ pc = "decide" /\ pc' \in {"publish", "dead"}
        /\ UNCHANGED <<users, seen, current, work, oldPid, procs, others>>
    BY <1>8 DEF DecideFails, DecideNone
  <2> QED BY <2>1 DEF users, LimitInv, CountsStarts, Starts
<1>9. CASE DecideKill
  <2>1. /\ pc = "decide" /\ procs' = Killed(oldPid) /\ pc' = "publish"
        /\ work' = [work EXCEPT !.state = "exit"]
        /\ UNCHANGED <<users, seen, current>>
    BY <1>9 DEF DecideKill
  <2>2. Starts' = Starts
    BY <2>1, KilledRuns, StartsSame
  <2>3. work'.starts = work.starts
    BY <2>1 DEF TypeOK, Current
  <2> QED BY <2>1, <2>2, <2>3 DEF users, LimitInv, CountsStarts
<1>10. CASE DecideStart
  <2>1. pc = "decide" /\ pc' \in {"publish", "dead"} /\ UNCHANGED <<users, seen, current>>
    BY <1>10, StartEffect
  <2>2. ASSUME procs' = Killed(oldPid), work'.starts \in {work.starts, Counted}
        PROVE  CountsStarts(work)'
    <3>1. Starts' = Starts
      BY <2>1, <2>2, KilledRuns, StartsSame
    <3>2. work.starts \in Nat /\ CountsStarts(work) /\ MaxCount \in Nat /\ Cardinality(Starts) \in Nat
      BY <2>1, StartsFinite, ProcessSlotAssumption DEF TypeOK, Current, LimitInv
    <3> QED BY <2>2, <3>1, <3>2 DEF CountsStarts, Counted
  <2>3. pc' = "publish" => CountsStarts(work)'
    BY <1>10, <2>1, <2>2, StartEffect, ForkCounts
  <2> QED BY <2>1, <2>3 DEF users, LimitInv
<1>11. CASE Publish
  <2>1. /\ pc = "publish" /\ work'.starts = work.starts
        /\ UNCHANGED <<users, seen, procs>>
        /\ (current' = work' /\ pc' = "idle") \/ pc' = "dead"
    BY <1>11, PublishEffect
  <2> QED BY <2>1 DEF users, LimitInv, CountsStarts, Starts
<1> QED BY <1>2, <1>3, <1>4, <1>5, <1>6, <1>7, <1>8, <1>9, <1>10, <1>11 DEF Next, Updater

-----------------------------------------------------------------------------
(* A program to run once *)

\* The stamps are those of past publishes; a desired state to run once has one of its
\* own; and what was started for it was started by an updater that had seen it.
StampInv ==
  /\ desired.stamp <= edits /\ seen.stamp <= edits
  /\ \A pid \in DOMAIN procs : procs[pid].stamp <= edits
  /\ desired.state = "once" =>
       /\ desired.stamp # Missing
       /\ \A pid \in DOMAIN procs : procs[pid].stamp = desired.stamp => seen.stamp = desired.stamp
       /\ seen.stamp = desired.stamp => seen.state = "once"
  /\ \A pid \in DOMAIN procs : procs[pid].returned => procs[pid].st \notin {"running", "doomed"}

\* A program of desired state d that returned is what c tells of: it has been waited
\* for, or will be by the next run().
TellsOf(c, d) ==
  d.state = "once" =>
    \A pid \in DOMAIN procs :
      procs[pid].stamp = d.stamp /\ procs[pid].returned =>
        \/ c.state = "exit" /\ c.pid = NoPid
        \/ c.state = "running" /\ c.pid = pid

\* And c came from d, if a program of d has returned or still runs.
CameFrom(c, d) ==
  d.state = "once" =>
    \A pid \in DOMAIN procs :
      procs[pid].stamp = d.stamp /\ (procs[pid].returned \/ procs[pid].st = "running") =>
        c.from = d.stamp

OnceInv ==
  /\ StampInv
  /\ pc = "idle" => TellsOf(current, desired) /\ CameFrom(current, desired)
  /\ pc \in {"decide", "publish"} => TellsOf(work, seen)
  /\ pc = "decide" => CameFrom(work, seen)

\* What a step of a user does to the desired state: it has a new stamp, or is not one
\* to run once, or is the same one with other keys.
LEMMA EditOnce ==
  ASSUME TypeOK, User
  PROVE  /\ edits' = edits + 1 /\ UNCHANGED <<seen, current, work, oldPid, pc, procs>>
         /\ \/ desired'.stamp = edits + 1
            \/ desired'.stamp \in {desired.stamp, Text} /\ desired'.state # "once"
            \/ desired'.stamp = desired.stamp /\ desired'.state = desired.state
<1>a. desired \in Desired
  BY DEF TypeOK
<1>1. edits' = edits + 1 /\ UNCHANGED <<seen, current, work, oldPid, pc, procs>>
  BY DEF User, ManageProcessSlot, Configure, GuiStart, GuiStop, Edit
<1>2. ASSUME NEW state, ManageProcessSlot(state) PROVE desired'.stamp = edits + 1
  <2>1. PICK m : m = edits + 1
    OBVIOUS
  <2>2. desired' = [desired EXCEPT !.state = state, !.stamp = m]
    BY <1>2, <2>1 DEF ManageProcessSlot, Edit
  <2> QED BY <1>a, <2>1, <2>2 DEF Desired
<1>3. ASSUME NEW max, NEW command, Configure(max, command)
      PROVE  desired'.stamp = desired.stamp /\ desired'.state = desired.state
  BY <1>3, <1>a DEF Configure, Edit, Desired
<1>4. ASSUME GuiStart PROVE desired'.stamp = desired.stamp /\ desired'.state = "cont"
  BY <1>4, <1>a DEF GuiStart, Edit, Desired
<1>5. ASSUME GuiStop PROVE desired'.stamp = Text /\ desired'.state = "exit"
  <2>1. desired' = [desired EXCEPT !.state = "exit", !.stamp = Text]
    BY <1>5 DEF GuiStop, Edit
  <2> QED BY <1>a, <2>1 DEF Desired
<1> QED BY <1>1, <1>2, <1>3, <1>4, <1>5 DEF User

LEMMA UserOnce ==
  ASSUME TypeOK, OnceInv, User
  PROVE  OnceInv'
<1>a. /\ edits' = edits + 1 /\ UNCHANGED <<seen, current, work, oldPid, pc, procs>>
      /\ \/ desired'.stamp = edits + 1
         \/ desired'.stamp \in {desired.stamp, Text} /\ desired'.state # "once"
         \/ desired'.stamp = desired.stamp /\ desired'.state = desired.state
  BY EditOnce
<1>b. /\ edits \in Nat /\ desired.stamp \in Int /\ seen.stamp \in Int
      /\ desired.stamp <= edits /\ seen.stamp <= edits
      /\ \A pid \in DOMAIN procs : procs[pid].stamp \in Int /\ procs[pid].stamp <= edits
  <2>1. edits \in Nat /\ desired \in Desired /\ seen \in Desired /\ procs \in Seq(Process)
    BY DEF TypeOK
  <2>2. desired.stamp \in Int /\ seen.stamp \in Int
    BY <2>1 DEF Desired
  <2>3. \A pid \in DOMAIN procs : procs[pid].stamp \in Int
    <3>1. \A pid \in DOMAIN procs : procs[pid] \in Process
      BY <2>1
    <3> QED BY <3>1 DEF Process
  <2> QED BY <2>1, <2>2, <2>3 DEF OnceInv, StampInv
<1>c. /\ seen' = seen /\ current' = current /\ work' = work /\ procs' = procs /\ pc' = pc
      /\ edits' = edits + 1
  BY <1>a
<1>1. CASE desired'.stamp = edits + 1
  <2>1. \A pid \in DOMAIN procs : procs[pid].stamp # desired'.stamp
    BY <1>b, <1>1
  <2>2. seen.stamp # desired'.stamp
    BY <1>b, <1>1
  <2>3. desired'.stamp # Missing
    BY <1>b, <1>1 DEF Missing
  <2>4. /\ desired'.stamp <= edits' /\ seen.stamp <= edits'
        /\ \A pid \in DOMAIN procs : procs[pid].stamp <= edits'
    BY <1>b, <1>c, <1>1
  <2>5. StampInv'
    BY <1>c, <2>1, <2>2, <2>3, <2>4 DEF OnceInv, StampInv
  <2> QED BY <1>c, <2>1, <2>5 DEF OnceInv, TellsOf, CameFrom
<1>2. CASE desired'.stamp \in {desired.stamp, Text} /\ desired'.state # "once"
  <2>1. /\ desired'.stamp <= edits' /\ seen.stamp <= edits'
        /\ \A pid \in DOMAIN procs : procs[pid].stamp <= edits'
    BY <1>b, <1>c, <1>2 DEF Text
  <2>2. StampInv'
    BY <1>c, <1>2, <2>1 DEF OnceInv, StampInv
  <2> QED BY <1>c, <1>2, <2>2 DEF OnceInv, TellsOf, CameFrom
<1>3. CASE desired'.stamp = desired.stamp /\ desired'.state = desired.state
  <2>1. /\ desired'.stamp <= edits' /\ seen.stamp <= edits'
        /\ \A pid \in DOMAIN procs : procs[pid].stamp <= edits'
    BY <1>b, <1>c, <1>3
  <2>2. StampInv'
    BY <1>c, <1>3, <2>1 DEF OnceInv, StampInv
  <2> QED BY <1>c, <1>3, <2>2 DEF OnceInv, TellsOf, CameFrom
<1> QED BY <1>a, <1>1, <1>2, <1>3

\* What holds of the desired state that the updater has seen holds of the published one.
LEMMA SeenOnce ==
  ASSUME OnceInv, NEW c
  PROVE  /\ TellsOf(c, seen) => TellsOf(c, desired)
         /\ CameFrom(c, seen) => CameFrom(c, desired)
         /\ desired.state = "once" =>
              \A pid \in DOMAIN procs : procs[pid].stamp = desired.stamp =>
                seen.stamp = desired.stamp /\ seen.state = "once"
BY DEF OnceInv, StampInv, TellsOf, CameFrom

LEMMA RefreshOnce ==
  ASSUME OnceInv, Refresh
  PROVE  OnceInv'
<1>1. /\ pc \in {"decide", "publish"} /\ seen' = desired /\ desired' = desired /\ edits' = edits
      /\ current' = current /\ work' = work /\ pc' = pc /\ procs' = procs
  BY DEF Refresh, users, others
<1>2. StampInv'
  BY <1>1 DEF OnceInv, StampInv
<1>3. TellsOf(work, desired) /\ (pc = "decide" => CameFrom(work, desired))
  BY <1>1, SeenOnce DEF OnceInv
<1>4. TellsOf(work, seen)' /\ (pc' = "decide" => CameFrom(work, seen)')
  BY <1>1, <1>3 DEF TellsOf, CameFrom
<1> QED BY <1>1, <1>2, <1>4 DEF OnceInv

\* A program that ends is the one that is told of.
LEMMA EndOnce ==
  ASSUME TypeOK, RunInv, OnceInv, NEW pid \in DOMAIN procs, ProgramEnds(pid)
  PROVE  OnceInv'
<1>1. /\ DOMAIN procs' = DOMAIN procs
      /\ procs'[pid].st = "zombie" /\ procs'[pid].stamp = procs[pid].stamp
      /\ procs'[pid].returned => procs[pid].returned \/ procs[pid].st = "running"
      /\ \A q \in DOMAIN procs : q # pid => procs'[q] = procs[q]
  BY EndEffect
<1>2. UNCHANGED <<desired, seen, current, work, oldPid, pc, edits>>
  BY DEF ProgramEnds
<1>3. StampInv'
  <2>1. \A q \in DOMAIN procs : procs'[q].stamp = procs[q].stamp
    BY <1>1
  <2>2. \A q \in DOMAIN procs : procs'[q].returned => procs'[q].st \notin {"running", "doomed"}
    BY <1>1 DEF OnceInv, StampInv
  <2> QED BY <1>1, <1>2, <2>1, <2>2 DEF OnceInv, StampInv
<1>4. ASSUME NEW c, NEW d, TellsOf(c, d), OnlyRuns(c), NEW q \in DOMAIN procs,
             d.state = "once", procs'[q].stamp = d.stamp, procs'[q].returned
      PROVE  (c.state = "exit" /\ c.pid = NoPid) \/ (c.state = "running" /\ c.pid = q)
  <2>1. procs[q].stamp = d.stamp /\ (procs[q].returned \/ procs[q].st = "running")
    BY <1>1, <1>4
  <2>2. CASE procs[q].returned
    <3>1. TellsOf(c, d) /\ d.state = "once" /\ procs[q].stamp = d.stamp
      BY <1>4, <2>1
    <3> QED BY <2>2, <3>1 DEF TellsOf
  <2>3. CASE procs[q].st = "running"
    BY <1>4, <2>3 DEF OnlyRuns
  <2> QED BY <2>1, <2>2, <2>3
<1>5. ASSUME NEW c, NEW d, CameFrom(c, d), NEW q \in DOMAIN procs,
             d.state = "once", procs'[q].stamp = d.stamp,
             procs'[q].returned \/ procs'[q].st = "running"
      PROVE  c.from = d.stamp
  <2>1. procs[q].stamp = d.stamp /\ (procs[q].returned \/ procs[q].st = "running")
    BY <1>1, <1>5
  <2> QED BY <1>5, <2>1 DEF CameFrom
<1>6. pc = "idle" => TellsOf(current, desired)' /\ CameFrom(current, desired)'
  BY <1>1, <1>2, <1>4, <1>5 DEF OnceInv, RunInv, TellsOf, CameFrom
<1>7. pc \in {"decide", "publish"} => TellsOf(work, seen)'
  BY <1>1, <1>2, <1>4 DEF OnceInv, RunInv, TellsOf
<1>8. pc = "decide" => CameFrom(work, seen)'
  BY <1>1, <1>2, <1>5 DEF OnceInv, CameFrom
<1> QED BY <1>2, <1>3, <1>6, <1>7, <1>8 DEF OnceInv

\* A program that is waited for turns from the one that is told of into the exit.
LEMMA BeginOnce ==
  ASSUME TypeOK, RunInv, OnceInv, Begin
  PROVE  OnceInv'
<1>a. /\ pc = "idle" /\ pc' \in {"decide", "dead"}
      /\ seen' = desired /\ desired' = desired /\ edits' = edits
      /\ DOMAIN procs' = DOMAIN procs
      /\ \A q \in DOMAIN procs :
           /\ procs'[q].stamp = procs[q].stamp /\ procs'[q].returned = procs[q].returned
           /\ q # current.pid => procs'[q] = procs[q]
  BY BeginEffect DEF Begin
<1>b. TellsOf(current, desired) /\ CameFrom(current, desired)
  BY <1>a DEF OnceInv
<1>1. ASSUME current.pid \in DOMAIN procs, procs[current.pid].st = "zombie",
             procs'[current.pid].st = "reaped", work'.pid = NoPid,
             work'.state = IF procs[current.pid].returned THEN "exit" ELSE "failure",
             work'.from = current.from
      PROVE  OnceInv'
  <2>1. StampInv'
    BY <1>a, <1>1 DEF OnceInv, StampInv
  <2>2. CameFrom(work, seen)'
    BY <1>a, <1>b, <1>1 DEF CameFrom
  <2>3. current.pid # NoPid
    BY <1>1 DEF TypeOK, NoPid
  <2>4. ASSUME NEW q \in DOMAIN procs, desired.state = "once",
               procs[q].stamp = desired.stamp, procs[q].returned
        PROVE  work'.state = "exit"
    <3>1. current.pid = q
      BY <1>b, <2>3, <2>4 DEF TellsOf
    <3> QED BY <1>1, <2>4, <3>1
  <2>5. TellsOf(work, seen)'
    BY <1>a, <1>1, <2>4 DEF TellsOf
  <2> QED BY <1>a, <2>1, <2>2, <2>5 DEF OnceInv
<1>2. ASSUME pc' = "dead", procs' = procs PROVE OnceInv'
  <2>1. StampInv'
    BY <1>a, <1>2 DEF OnceInv, StampInv
  <2> QED BY <1>2, <2>1 DEF OnceInv
<1>3. ASSUME pc' = "decide", work' = current, procs' = procs PROVE OnceInv'
  <2>1. StampInv'
    BY <1>a, <1>3 DEF OnceInv, StampInv
  <2>2. TellsOf(work, seen)' /\ CameFrom(work, seen)'
    BY <1>a, <1>b, <1>3 DEF TellsOf, CameFrom
  <2> QED BY <1>a, <2>1, <2>2 DEF OnceInv
<1> QED BY BeginEffect, <1>1, <1>2, <1>3

\* The heart: determineAction does not start again what has returned.
LEMMA ReturnedSatisfies ==
  ASSUME TypeOK, OnceInv, pc = "decide", seen.state = "once",
         NEW pid \in DOMAIN procs, procs[pid].stamp = seen.stamp, procs[pid].returned
  PROVE  Satisfied
<1>1. \/ work.state = "exit"
      \/ work.state = "running"
  BY DEF OnceInv, TellsOf
<1>2. work.from = seen.stamp
  BY DEF OnceInv, CameFrom
<1>3. Wanted = "start"
  BY DEF Wanted
<1> QED BY <1>1, <1>2, <1>3 DEF Satisfied

\* A step of the updater that only kills.
LEMMA KillOnce ==
  ASSUME TypeOK, RunInv, OnceInv, pc = "decide", procs' = Killed(oldPid),
         UNCHANGED <<users, seen>>, pc' \in {"publish", "dead"},
         seen.state = "once" =>
           ~ \E pid \in DOMAIN procs : procs[pid].stamp = seen.stamp /\ procs[pid].returned
  PROVE  OnceInv'
<1>1. /\ DOMAIN procs' = DOMAIN procs
      /\ \A q \in DOMAIN procs :
           /\ procs'[q].stamp = procs[q].stamp /\ procs'[q].returned = procs[q].returned
  BY KilledRuns
<1>2. \A q \in DOMAIN procs : procs'[q].returned => procs'[q].st \notin {"running", "doomed"}
  <2>1. \A q \in DOMAIN procs :
          procs'[q].st = IF q = oldPid /\ procs[q].st = "running" THEN "doomed" ELSE procs[q].st
    BY KilledEffect DEF TypeOK
  <2> QED BY <1>1, <2>1 DEF OnceInv, StampInv
<1>3. StampInv'
  BY <1>1, <1>2 DEF users, OnceInv, StampInv
<1>4. TellsOf(work, seen)'
  BY <1>1 DEF TellsOf
<1> QED BY <1>3, <1>4 DEF OnceInv

\* A start: nothing that has returned is started again.
LEMMA ForkOnce ==
  ASSUME TypeOK, RunInv, OnceInv, pc = "decide", procs' = Forked(Killed(oldPid)),
         UNCHANGED <<users, seen>>, pc' = "publish",
         seen.state = "once" =>
           ~ \E pid \in DOMAIN procs : procs[pid].stamp = seen.stamp /\ procs[pid].returned
  PROVE  OnceInv'
<1>1. PICK before : before = Killed(oldPid)
  OBVIOUS
<1>2. /\ before \in Seq(Process) /\ DOMAIN before = DOMAIN procs
      /\ \A q \in DOMAIN procs :
           /\ before[q].stamp = procs[q].stamp /\ before[q].returned = procs[q].returned
           /\ before[q].st = IF q = oldPid /\ procs[q].st = "running" THEN "doomed" ELSE procs[q].st
  BY <1>1, KilledEffect DEF TypeOK
<1>3. procs' = Forked(before) /\ seen \in Desired
  BY <1>1 DEF TypeOK
<1>4. PICK new : new = Len(before) + 1
  OBVIOUS
<1>5. /\ \A q \in DOMAIN procs : procs'[q] = before[q]
      /\ DOMAIN procs' = DOMAIN procs \cup {new}
      /\ procs'[new] = [st |-> "running", returned |-> FALSE, stamp |-> seen.stamp]
  <2>1. /\ \A q \in DOMAIN before : Forked(before)[q] = before[q]
        /\ Forked(before)[Len(before) + 1] =
             [st |-> "running", returned |-> FALSE, stamp |-> seen.stamp]
        /\ DOMAIN Forked(before) = DOMAIN before \cup {Len(before) + 1}
    BY <1>2, <1>3, ForkedEffect
  <2> QED BY <1>2, <1>3, <1>4, <2>1
<1>6. procs'[new].stamp = seen.stamp /\ ~ procs'[new].returned
  BY <1>5
<1>7. \A q \in DOMAIN procs' : q = new \/
        /\ q \in DOMAIN procs
        /\ procs'[q].stamp = procs[q].stamp /\ procs'[q].returned = procs[q].returned
        /\ procs[q].returned => procs'[q].st = procs[q].st
  BY <1>2, <1>5 DEF OnceInv, StampInv
<1>8. StampInv'
  BY <1>6, <1>7 DEF users, OnceInv, StampInv
<1>9. TellsOf(work, seen)'
  BY <1>6, <1>7 DEF TellsOf
<1> QED BY <1>8, <1>9 DEF OnceInv

\* The end of run(): what was started for the desired state is published as such.
LEMMA PublishOnce ==
  ASSUME TypeOK, RunInv, OnceInv, Publish
  PROVE  OnceInv'
<1>1. /\ pc = "publish" /\ work'.pid = work.pid /\ work'.state = work.state
      /\ work'.from = IF seen.stamp = Missing THEN work.from ELSE seen.stamp
      /\ desired' = desired /\ edits' = edits /\ seen' = seen /\ procs' = procs
      /\ (current' = work' /\ pc' = "idle") \/ pc' = "dead"
  BY PublishEffect DEF users
<1>2. StampInv'
  BY <1>1 DEF OnceInv, StampInv
<1>3. TellsOf(work, desired)
  BY <1>1, SeenOnce DEF OnceInv
<1>4. pc' = "idle" => TellsOf(current, desired)'
  BY <1>1, <1>3 DEF TellsOf
<1>5. desired.state = "once" =>
        \A pid \in DOMAIN procs : procs[pid].stamp = desired.stamp => work'.from = desired.stamp
  BY <1>1, SeenOnce DEF OnceInv, StampInv
<1>6. pc' = "idle" => CameFrom(current, desired)'
  BY <1>1, <1>5 DEF CameFrom
<1> QED BY <1>1, <1>2, <1>4, <1>6 DEF OnceInv

LEMMA RestartOnce ==
  ASSUME TypeOK, OnceInv, Restart
  PROVE  OnceInv'
<1>1. NoDesired.state = "none" /\ NoDesired.stamp = 0
  BY DEF NoDesired, Missing
<1>2. procs' = [pid \in DOMAIN procs |-> [procs[pid] EXCEPT !.st = "orphan"]]
  BY DEF Restart
<1>3. ASSUME NEW q \in DOMAIN procs PROVE procs'[q].stamp = procs[q].stamp
  <2>1. procs[q] \in Process
    BY DEF TypeOK
  <2>2. PICK r : r = procs[q]
    OBVIOUS
  <2>3. [r EXCEPT !.st = "orphan"].stamp = r.stamp
    BY <2>1, <2>2 DEF Process
  <2>4. procs'[q] = [r EXCEPT !.st = "orphan"]
    BY <1>2, <2>2
  <2> QED BY <2>2, <2>3, <2>4
<1>4. /\ desired' = NoDesired /\ seen' = NoDesired /\ pc' = "idle" /\ edits' = edits
      /\ DOMAIN procs' = DOMAIN procs /\ \A q \in DOMAIN procs : procs'[q].st = "orphan"
  BY RestartEffect
<1>5. StampInv'
  BY <1>1, <1>3, <1>4 DEF OnceInv, StampInv, TypeOK
<1> QED BY <1>1, <1>4, <1>5 DEF OnceInv, TellsOf, CameFrom

LEMMA StepOnce ==
  ASSUME TypeOK, RunInv, OnceInv, [Next]_vars
  PROVE  OnceInv'
<1>1. CASE UNCHANGED vars
  BY <1>1 DEF vars, OnceInv, StampInv, TellsOf, CameFrom
<1>2. CASE DecideFails \/ DecideNone
  <2>1. /\ pc = "decide" /\ pc' \in {"publish", "dead"} /\ procs' = procs /\ work' = work
        /\ seen' = seen /\ desired' = desired /\ edits' = edits
    BY <1>2 DEF DecideFails, DecideNone, users
  <2>2. StampInv'
    BY <2>1 DEF OnceInv, StampInv
  <2>3. TellsOf(work, seen)'
    BY <2>1 DEF OnceInv, TellsOf
  <2> QED BY <2>1, <2>2, <2>3 DEF OnceInv
<1>3. CASE DecideKill
  <2>1. /\ pc = "decide" /\ procs' = Killed(oldPid) /\ pc' = "publish" /\ UNCHANGED <<users, seen>>
    BY <1>3 DEF DecideKill
  <2>2. seen.state # "once"
    BY <1>3 DEF DecideKill, Wanted
  <2> QED BY <2>1, <2>2, KillOnce
<1>4. CASE DecideStart
  <2>1. /\ pc = "decide" /\ ~ Satisfied /\ UNCHANGED <<users, seen>>
        /\ \/ procs' = Killed(oldPid) /\ pc' \in {"publish", "dead"}
           \/ procs' = Forked(Killed(oldPid)) /\ pc' = "publish"
    BY <1>4, StartEffect
  <2>2. seen.state = "once" =>
          ~ \E pid \in DOMAIN procs : procs[pid].stamp = seen.stamp /\ procs[pid].returned
    BY <2>1, ReturnedSatisfies
  <2> QED BY <2>1, <2>2, KillOnce, ForkOnce
<1> QED BY <1>1, <1>2, <1>3, <1>4, UserOnce, RefreshOnce, EndOnce, BeginOnce, PublishOnce,
           RestartOnce DEF Next, Updater

\* The maxStarts of a slot is never exceeded and a program to run once that has returned
\* is not started again, whatever users publish, programs do and calls fail.
THEOREM StartsAreAsked == Spec => StartsAsAsked
<1> DEFINE IInv == TypeOK /\ RunInv /\ LimitInv /\ OnceInv
<1>1. Init => IInv
  <2> SUFFICES ASSUME Init PROVE LimitInv /\ OnceInv
    BY InitRuns
  <2>1. /\ NoDesired.max = Unlimited /\ NoDesired.stamp = 0 /\ NoDesired.state = "none"
        /\ NoCurrent.starts = 0
    BY DEF NoDesired, NoCurrent, Missing
  <2>2. DOMAIN procs = {} /\ Starts = {} /\ Cardinality({}) = 0
    BY FS_EmptySet DEF Init, Starts
  <2>3. LimitInv
    BY <2>1, <2>2 DEF Init, LimitInv, CountsStarts
  <2>4. OnceInv
    BY <2>1, <2>2 DEF Init, OnceInv, StampInv, TellsOf, CameFrom
  <2> QED BY <2>3, <2>4
<1>2. IInv /\ [Next]_vars => IInv'
  BY StepRuns, StepCounts, StepOnce
<1>3. ASSUME IInv, [Next]_vars, Len(procs') > Len(procs)
      PROVE  /\ seen.max = Unlimited \/ Cardinality(Starts) < seen.max
             /\ seen.state = "once" =>
                  ~ \E pid \in Starts : procs[pid].stamp = seen.stamp /\ procs[pid].returned
  <2>a. procs \in Seq(Process) /\ Len(procs) \in Nat
    BY <1>3 DEF TypeOK
  <2>1. DecideStart
    <3>1. ASSUME procs' = procs PROVE FALSE
      BY <1>3, <2>a, <3>1
    <3>2. ASSUME NEW pid \in DOMAIN procs, ProgramEnds(pid) PROVE FALSE
      BY <1>3, <2>a, <3>2, EndEffect
    <3>3. ~ Begin
      BY <1>3, <2>a, BeginEffect
    <3>4. ~ DecideKill
      BY <1>3, <2>a, KilledRuns DEF DecideKill
    <3>5. ~ Restart
      <4>1. ASSUME Restart PROVE FALSE
        <5>1. procs' \in Seq(Process) /\ DOMAIN procs' = DOMAIN procs
          BY <1>3, <4>1, RestartEffect
        <5> QED BY <1>3, <2>a, <5>1
      <4> QED BY <4>1
    <3>6. ~ User
      BY <3>1, <1>3, EditOnce
    <3>7. ~ (UNCHANGED vars) /\ ~ Refresh /\ ~ DecideFails /\ ~ DecideNone /\ ~ Publish
      BY <3>1 DEF vars, Refresh, DecideFails, DecideNone, Publish
    <3> QED BY <1>3, <3>2, <3>3, <3>4, <3>5, <3>6, <3>7 DEF Next, Updater
  <2>2. pc = "decide" /\ ~ Satisfied /\ ~ TooManyStarts
    <3>1. procs' # Killed(oldPid)
      BY <1>3, <2>1, <2>a, StartEffect, KilledRuns
    <3> QED BY <1>3, <2>1, <3>1, StartEffect
  <2>3. seen.state = "once" =>
          ~ \E pid \in Starts : procs[pid].stamp = seen.stamp /\ procs[pid].returned
    BY <1>3, <2>2, ReturnedSatisfies DEF Starts
  <2>4. ASSUME seen.max # Unlimited PROVE Cardinality(Starts) < seen.max
    <3>1. seen.max \in Nat /\ seen.max < MaxCount /\ MaxCount \in Nat
      BY <1>3, <2>4, ProcessSlotAssumption DEF LimitInv
    <3>2. work.starts \in Nat /\ CountsStarts(work) /\ Cardinality(Starts) \in Nat
      BY <1>3, <2>2, StartsFinite DEF LimitInv, TypeOK, Current
    <3>3. work.starts + 1 <= seen.max
      BY <2>2, <2>4, <3>1, <3>2 DEF TooManyStarts
    <3> QED BY <3>1, <3>2, <3>3 DEF CountsStarts
  <2> QED BY <2>3, <2>4
<1>4. IInv /\ [Next]_vars =>
        [Len(procs') > Len(procs) =>
           /\ seen.max = Unlimited \/ Cardinality(Starts) < seen.max
           /\ seen.state = "once" =>
                ~ \E pid \in Starts : procs[pid].stamp = seen.stamp /\ procs[pid].returned]_vars
  BY <1>3
<1> HIDE DEF IInv
<1> QED BY <1>1, <1>2, <1>4, PTL DEF Spec, StartsAsAsked

-----------------------------------------------------------------------------
(* The current state and the desired state that it came from *)

Answers(c, d) ==
  /\ d.state = "exit" => c.state = "exit"
  /\ d.state = "cont" => c.state \in {"running", "failure"}
  /\ d.state = "once" => c.state \in {"running", "failure", "exit"}

\* The times are those of past publishes; as long as every user takes the lock, run()
\* knows the desired state that is published, and answers it.
AnswerInv ==
  /\ desired.stamp <= edits /\ seen.stamp <= edits
  /\ current.from <= edits /\ work.from <= edits
  /\ guiEdits = 0 =>
       /\ pc \in {"decide", "publish"} => seen = desired
       /\ current.from # Missing /\ current.from = desired.stamp => Answers(current, desired)
       /\ pc = "publish" => Answers(work, seen)

LEMMA Times ==
  ASSUME TypeOK
  PROVE  /\ edits \in Nat /\ guiEdits \in Nat /\ desired.stamp \in Int /\ seen.stamp \in Int
         /\ current.from \in Int /\ work.from \in Int
<1>1. desired \in Desired /\ seen \in Desired /\ current \in Current /\ work \in Current
  BY DEF TypeOK
<1>2. desired.stamp \in Int /\ seen.stamp \in Int
  BY <1>1 DEF Desired
<1>3. current.from \in Int /\ work.from \in Int
  BY <1>1 DEF Current
<1> QED BY <1>2, <1>3 DEF TypeOK

\* A user who takes the lock finds no run() going on, and leaves the state and its
\* time or gives both anew.
LEMMA UserTimes ==
  ASSUME TypeOK, User
  PROVE  /\ edits' = edits + 1 /\ UNCHANGED <<seen, current, work, oldPid, pc, procs>>
         /\ desired'.stamp \in {edits + 1, desired.stamp, Text}
         /\ \/ guiEdits' = guiEdits + 1
            \/ /\ guiEdits' = guiEdits /\ pc \in {"idle", "dead"}
               /\ \/ desired'.stamp = edits + 1
                  \/ desired'.stamp = desired.stamp /\ desired'.state = desired.state
<1>a. desired \in Desired
  BY DEF TypeOK
<1>1. edits' = edits + 1 /\ UNCHANGED <<seen, current, work, oldPid, pc, procs>>
  BY EditOnce
<1>2. desired'.stamp \in {edits + 1, desired.stamp, Text}
  BY EditOnce
<1>3. ASSUME NEW state, ManageProcessSlot(state)
      PROVE  guiEdits' = guiEdits /\ pc \in {"idle", "dead"} /\ desired'.stamp = edits + 1
  <2>1. PICK m : m = edits + 1
    OBVIOUS
  <2>2. desired' = [desired EXCEPT !.state = state, !.stamp = m]
    BY <1>3, <2>1 DEF ManageProcessSlot, Edit
  <2>3. desired'.stamp = edits + 1
    BY <1>a, <2>1, <2>2 DEF Desired
  <2> QED BY <1>3, <2>3 DEF ManageProcessSlot, Unlocked
<1>4. ASSUME NEW max, NEW command, Configure(max, command)
      PROVE  /\ guiEdits' = guiEdits /\ pc \in {"idle", "dead"}
             /\ desired'.stamp = desired.stamp /\ desired'.state = desired.state
  <2>1. desired'.stamp = desired.stamp /\ desired'.state = desired.state
    BY <1>4, <1>a DEF Configure, Edit, Desired
  <2> QED BY <1>4, <2>1 DEF Configure, Unlocked
<1>5. GuiStart \/ GuiStop => guiEdits' = guiEdits + 1
  BY DEF GuiStart, GuiStop
<1> QED BY <1>1, <1>2, <1>3, <1>4, <1>5 DEF User

LEMMA UserAnswers ==
  ASSUME TypeOK, AnswerInv, User
  PROVE  AnswerInv'
<1>1. /\ desired.stamp <= edits + 1 /\ seen.stamp <= edits + 1 /\ Text <= edits + 1
      /\ current.from <= edits + 1 /\ work.from <= edits + 1 /\ current.from # edits + 1
      /\ edits + 1 <= edits + 1 /\ guiEdits + 1 # 0
  BY Times DEF AnswerInv, Text
<1>2. /\ desired'.stamp <= edits' /\ seen'.stamp <= edits'
      /\ current'.from <= edits' /\ work'.from <= edits'
  BY <1>1, UserTimes
<1>3. ASSUME guiEdits' = 0
      PROVE  /\ pc \notin {"decide", "publish"} /\ pc' = pc
             /\ current'.from # Missing /\ current'.from = desired'.stamp => Answers(current, desired)'
  <2>1. /\ guiEdits = 0 /\ pc \in {"idle", "dead"} /\ pc' = pc /\ current' = current
        /\ \/ desired'.stamp = edits + 1
           \/ desired'.stamp = desired.stamp /\ desired'.state = desired.state
    BY <1>1, <1>3, UserTimes
  <2> QED BY <1>1, <2>1 DEF AnswerInv, Answers
<1> QED BY <1>2, <1>3 DEF AnswerInv

\* What run() decides is an answer to what it has seen.
LEMMA DecideAnswers ==
  ASSUME TypeOK, AnswerInv, DecideFails \/ DecideNone \/ DecideKill \/ DecideStart
  PROVE  AnswerInv'
<1>1. /\ pc = "decide" /\ pc' \in {"publish", "dead"}
      /\ UNCHANGED <<users, seen, current>> /\ work'.from = work.from
  <2>1. DecideKill => work'.from = work.from
    BY DEF DecideKill, TypeOK, Current
  <2> QED BY <2>1, StartEffect DEF DecideFails, DecideNone, DecideKill
<1>2. pc' = "publish" => Answers(work, seen)'
  <2>1. CASE DecideNone
    <3>1. Wanted = "none" \/ Satisfied
      BY <2>1 DEF DecideNone
    <3>2. Answers(work, seen)
      BY <3>1 DEF Wanted, Satisfied, Answers
    <3> QED BY <2>1, <3>2 DEF DecideNone, Answers
  <2>2. CASE DecideKill
    <3>1. work'.state = "exit" /\ seen.state = "exit"
      BY <2>2 DEF DecideKill, TypeOK, Current, Wanted
    <3> QED BY <1>1, <3>1 DEF Answers
  <2>3. CASE DecideStart
    <3>1. pc' = "publish" => work'.state \in {"failure", "running"}
      BY <2>3, StartEffect
    <3>2. seen.state \in {"once", "cont"}
      BY <2>3, StartEffect DEF Wanted
    <3> QED BY <1>1, <3>1, <3>2 DEF Answers
  <2> QED BY <2>1, <2>2, <2>3 DEF DecideFails
<1> QED BY <1>1, <1>2 DEF AnswerInv, Answers, users

\* The answer is published with the time of what it answers.
LEMMA PublishAnswers ==
  ASSUME TypeOK, AnswerInv, Publish
  PROVE  AnswerInv'
<1>1. /\ pc = "publish" /\ pc' \in {"idle", "dead"} /\ UNCHANGED <<users, seen>>
      /\ work'.state = work.state
      /\ work'.from = IF seen.stamp = Missing THEN work.from ELSE seen.stamp
  BY PublishEffect
<1>2. current' = current \/ current' = work'
  BY DEF Publish
<1>3. /\ desired'.stamp <= edits' /\ seen'.stamp <= edits'
      /\ current'.from <= edits' /\ work'.from <= edits'
  BY <1>1, <1>2 DEF AnswerInv, users
<1>4. ASSUME guiEdits = 0, current'.from # Missing, current'.from = desired.stamp
      PROVE  Answers(current', desired)
  <2>1. CASE current' = current
    BY <1>4, <2>1 DEF AnswerInv
  <2>2. CASE current' = work'
    <3>1. seen = desired /\ Answers(work, seen)
      BY <1>1, <1>4 DEF AnswerInv
    <3> QED BY <1>1, <2>2, <3>1 DEF Answers
  <2> QED BY <1>2, <2>1, <2>2
<1> QED BY <1>1, <1>3, <1>4 DEF AnswerInv, Answers, users

LEMMA StepAnswers ==
  ASSUME TypeOK, AnswerInv, [Next]_vars
  PROVE  AnswerInv'
<1>1. CASE UNCHANGED vars
  BY <1>1 DEF vars, AnswerInv, Answers
<1>2. CASE Begin
  <2>1. /\ pc' \in {"decide", "dead"} /\ seen' = desired /\ UNCHANGED <<users, current>>
        /\ work'.from \in {work.from, current.from}
    <3>1. work'.from \in {work.from, current.from}
      BY <1>2 DEF Begin, TypeOK, Current
    <3> QED BY <1>2, <3>1 DEF Begin
  <2> QED BY <2>1 DEF AnswerInv, Answers, users
<1>3. CASE Refresh
  <2>1. /\ pc \in {"decide", "publish"} /\ seen # desired /\ seen' = desired
        /\ UNCHANGED <<users, current, work, pc>>
    BY <1>3 DEF Refresh
  <2> QED BY <2>1 DEF AnswerInv, Answers, users
<1>4. CASE Restart
  <2>1. /\ desired' = NoDesired /\ seen' = NoDesired /\ current' = NoCurrent /\ work' = NoCurrent
        /\ pc' = "idle" /\ edits' = edits
    BY <1>4 DEF Restart
  <2>2. NoDesired.stamp = Missing /\ NoCurrent.from = Missing /\ Missing <= edits
    BY Times DEF NoDesired, NoCurrent, Missing
  <2> QED BY <2>1, <2>2 DEF AnswerInv
<1>5. ASSUME NEW pid \in DOMAIN procs, ProgramEnds(pid) PROVE AnswerInv'
  <2>1. UNCHANGED <<desired, seen, current, work, pc, edits, guiEdits>>
    BY <1>5 DEF ProgramEnds
  <2> QED BY <2>1 DEF AnswerInv, Answers
<1> QED BY <1>1, <1>2, <1>3, <1>4, <1>5, UserAnswers, DecideAnswers, PublishAnswers
        DEF Next, Updater

\* As long as all users take the lock, a published current state that names the time of
\* the desired state is an outcome of that state, whatever programs do and calls fail
\* and however often the node restarts (isCurrentStateFromDesiredState).
THEOREM CurrentStateAnswers == Spec => []CurrentAnswersDesired
<1> DEFINE IInv == TypeOK /\ RunInv /\ AnswerInv
<1>1. Init => IInv
  <2> SUFFICES ASSUME Init PROVE AnswerInv
    BY InitRuns
  <2>1. NoDesired.stamp = 0 /\ NoCurrent.from = Missing /\ Missing = 0
    BY DEF NoDesired, NoCurrent, Missing
  <2> QED BY <2>1 DEF Init, AnswerInv
<1>2. IInv /\ [Next]_vars => IInv'
  BY StepRuns, StepAnswers
<1>3. IInv => CurrentAnswersDesired
  BY DEF AnswerInv, Answers, CurrentAnswersDesired
<1> HIDE DEF IInv
<1> QED BY <1>1, <1>2, <1>3, PTL DEF Spec
=============================================================================
