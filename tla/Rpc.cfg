SPECIFICATION Spec
CONSTANTS
  r1 = r1  s1 = s1  s2 = s2
  Requests = {r1}
  Servers = {s1, s2}
  Responder = responder
  NoWork = NoWork
  Answerable = {TRUE, FALSE}
  MaxCompleted = 1
  MaxFaults = 1
SYMMETRY ServersAlike
INVARIANTS ResponseBeforeSignal NoStrandedElement OneRequestOneAnswer
CHECK_DEADLOCK FALSE
