\* Two threads of one process, deadlines, a lost reply, every operation.
CONSTANTS
  t1 = t1  t2 = t2  t3 = t3  p1 = p1  p2 = p2
  Procs = {p1}
  Threads = {t1, t2}
  ProcOf <- Together
  Timed = {TRUE, FALSE}
  MaxPuts = 2
  MaxTakes = 2
  MaxOthers = 1
  MaxFaults = 1
SPECIFICATION FairSpec
INVARIANT CondCountsWaiters
PROPERTIES ImplementsAbstractQueue TimedTakeReturns
CHECK_DEADLOCK FALSE
