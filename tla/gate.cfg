SPECIFICATION GradedSpec
CONSTANTS
  Submissions = {s1}
  Replicas = {r1, r2}
  Slots = {h1}
  MaxAttempts = 1
  NoMsg = NoMsg
  NoState = NoState
  NoReq = NoReq
  NoFlags = NoFlags
  Papers <- CleanPaper
  OperatorCommands <- NoCommands
  MaxCalls = 3
  FaultKinds = {"call", "crash", "loss", "request"}
  MaxFaults = 1
SYMMETRY Symmetry
INVARIANTS GateInv FinalHasSnapshot
PROPERTIES GateSpec
CHECK_DEADLOCK FALSE
