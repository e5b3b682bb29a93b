SPECIFICATION FairSpec
CONSTANTS
  Submissions = {s1}
  Replicas = {r1}
  Slots = {h1}
  MaxAttempts = 2
  NoMsg = NoMsg
  NoState = NoState
  NoReq = NoReq
  NoFlags = NoFlags
  Papers <- CleanPaper
  OperatorCommands <- NoCommands
  MaxCalls = 1
  FaultKinds = {"call"}
  MaxFaults = 1
PROPERTIES Settles
CHECK_DEADLOCK FALSE
