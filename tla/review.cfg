SPECIFICATION FairSpec
CONSTANTS
  Submissions = {s1}
  Replicas = {r1}
  Slots = {h1}
  MaxAttempts = 2
  NoMsg = NoMsg
  NoState = NoState
  NoReq = NoReq
  NoFlags = NoFlags
  Papers <- BothPapers
  OperatorCommands <- AllCommands
  MaxCalls = 2
  FaultKinds = {}
  MaxFaults = 0
PROPERTIES Settles Starts
CHECK_DEADLOCK FALSE
