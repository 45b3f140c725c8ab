\* Three threads in two processes; a lost reply and an expired session.
CONSTANTS
  t1 = t1  t2 = t2  t3 = t3  p1 = p1  p2 = p2
  Procs = {p1, p2}
  NoThread = NoThread
  Threads = {t1, t2, t3}
  ProcOf <- TwoAndOne
  Locks <- OneLock
  Nested = FALSE
  CanRemove = FALSE
  MaxCalls = 3
  MaxFaults = 1
  MaxCrashes = 0
  MaxExpired = 1
SPECIFICATION Spec
INVARIANTS TypeOK MutualExclusion GrantedInBidOrder NoLostWakeup NoOrphanBid
SYMMETRY SameProcess
CHECK_DEADLOCK FALSE
