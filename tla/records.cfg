SPECIFICATION Spec
CONSTANTS
  q1 = q1
  Questions <- OneQuestion
  Papers <- SamePapers
  Bodies <- MarkBodies
  Texts = {"first", "second"}
  Appeals = {a1}
  Slots = {h1, h2}
  NoPaper = NoPaper
  NoGrade = NoGrade
  NoReq = NoReq
  NoBody = NoBody
  NoAppeal = NoAppeal
  NoRow = NoRow
  MaxCalls = 5
  MaxFaults = 1
SYMMETRY Symmetry
INVARIANTS TypeOK WritesAudited MarksWithinMax ApprovedConsistent
PROPERTIES RecordsSpec
CHECK_DEADLOCK FALSE
