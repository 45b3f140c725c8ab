\* Users with and without the lock, failures and a restart.
CONSTANTS
  MaxStartsValues <- UpTo2
  MaxGuiEdits = 1
  MaxEdits = 4
  MaxExits = 2
  MaxFaults = 1
  MaxRestarts = 1
  MaxCount = 3
SPECIFICATION FairSpec
INVARIANTS OneProgram CurrentAnswersDesired
PROPERTIES StartsAsAsked FollowsDesired
CHECK_DEADLOCK FALSE
