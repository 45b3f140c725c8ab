\* Re-entrant and mixed calls while a process crashes and the Notifyable is removed.
CONSTANTS
  t1 = t1  t2 = t2  t3 = t3  p1 = p1  p2 = p2
  Procs = {p1, p2}
  NoThread = NoThread
  Threads = {t1, t3}
  ProcOf <- OneAndOne
  Locks <- OneLock
  Nested = TRUE
  CanRemove = TRUE
  MaxCalls = 3
  MaxFaults = 0
  MaxCrashes = 1
  MaxExpired = 0
SPECIFICATION FairSpec
PROPERTIES ImplementsAbstractLock AcquireReturns
CHECK_DEADLOCK FALSE
