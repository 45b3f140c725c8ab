\* Get, create and remove in two processes, a failing call and a crash.
CONSTANTS
  t1 = t1  t2 = t2  t3 = t3  p1 = p1  p2 = p2
  Procs = {p1, p2}
  Threads = {t1, t2, t3}
  ProcOf <- TwoAndOne
  UserLocks = TRUE
  MaxCalls = 5
  MaxFaults = 1
  MaxCrashes = 1
SPECIFICATION Spec
INVARIANTS OneObject RemovalArrives RemoverAlone
CONSTRAINT Budget
SYMMETRY SameProcess
CHECK_DEADLOCK FALSE
