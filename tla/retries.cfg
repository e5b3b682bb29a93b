SPECIFICATION Spec
CONSTANTS
  Submissions = {s1}
  Replicas = {r1}
  Slots = {h1}
  MaxAttempts = 2
  NoMsg = NoMsg
  NoState = NoState
  NoReq = NoReq
  NoFlags = NoFlags
  Papers <- CleanPaper
  OperatorCommands <- NoCommands
  MaxCalls = 1
  FaultKinds = {"call", "crash"}
  MaxFaults = 2
INVARIANTS RetriesBounded
CHECK_DEADLOCK FALSE
