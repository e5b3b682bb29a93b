SPECIFICATION GradedSpec
CONSTANTS
  Submissions = {s1}
  Replicas = {r1}
  Slots = {h1}
  MaxAttempts = 2
  NoMsg = NoMsg
  NoState = NoState
  NoReq = NoReq
  NoFlags = NoFlags
  Papers <- CleanPaper
  OperatorCommands <- NoCommands
  MaxCalls = 3
  FaultKinds = {}
  MaxFaults = 0
INVARIANTS ResultIsApproved
CHECK_DEADLOCK FALSE
