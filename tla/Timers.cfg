SPECIFICATION FairSpec
CONSTANTS
  u1 = u1
  u2 = u2
  Users <- MCUsers
  Delays <- MCDelays
  MaxTimers = 2
  MaxCancels = 2
  MaxTime = 2
INVARIANTS TypeOK TimersAccounted PromptAlarms
PROPERTIES ImplementsAbstractTimers TimersRun
CHECK_DEADLOCK FALSE
