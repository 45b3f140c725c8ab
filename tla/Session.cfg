\* One thread of the program and one client, whose handlers call synchronize(), too.
SPECIFICATION FairSpec
CONSTANTS
  Users = {u1}
  Clients = {c1}
  NoThread = NoThread
  MaxSyncs = 2
  MaxChanges = 2
  MaxFaults = 2
  MaxTimeouts = 1
INVARIANTS SyncSeesChanges AdapterKnowsSession EndIsLast
PROPERTIES ShutdownCompletes SyncReturns
CHECK_DEADLOCK FALSE
