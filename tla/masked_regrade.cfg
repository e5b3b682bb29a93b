SPECIFICATION Spec
CONSTANTS
  q1 = q1
  Questions <- OneQuestion
  Papers <- SamePapers
  Bodies <- OneMark
  Texts = {"first", "second"}
  Appeals = {a1}
  Slots = {h1}
  NoPaper = NoPaper
  NoGrade = NoGrade
  NoReq = NoReq
  NoBody = NoBody
  NoAppeal = NoAppeal
  NoRow = NoRow
  MaxCalls = 4
  MaxFaults = 0
PROPERTIES FreshPassCounts
CHECK_DEADLOCK FALSE
