\* Locking and unlocked threads, lost replies, resets, unconditional publishes.
CONSTANTS
  t1 = t1  t2 = t2  t3 = t3  p1 = p1  p2 = p2
  NoThread = NoThread
  Procs = {p1, p2}
  Threads = {t1, t2, t3}
  ProcOf <- TwoAndOne
  Programs <- MCPrograms
  MaxHistory = 2
  MaxTurns = 3
  MaxSets = 2
  MaxResets = 1
  MaxFaults = 1
  MaxBadSyncs = 0
SPECIFICATION FairSpec
INVARIANTS ReadyTracksWatch NoLostUpdate LockedSeesLatest
PROPERTIES CachesConverge
CHECK_DEADLOCK FALSE
