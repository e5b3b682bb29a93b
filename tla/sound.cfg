SPECIFICATION Spec
CONSTANTS
  Submissions = {s1}
  Replicas = {r1}
  Slots = {h1}
  MaxAttempts = 2
  NoMsg = NoMsg
  NoState = NoState
  NoReq = NoReq
  NoFlags = NoFlags
  Papers <- CleanPaper
  OperatorCommands <- NoCommands
  MaxCalls = 4
  FaultKinds = {"request"}
  MaxFaults = 1
INVARIANTS TypeOK StageHasInput OneWorkItem EveryPassKept
PROPERTIES LifeSpec
CHECK_DEADLOCK FALSE
