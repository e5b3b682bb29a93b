SPECIFICATION Spec
CONSTANTS
  Submissions = {s1, s2}
  Linked = {s1, s2}
  WithObject = {s2}
  Workers = {w1, w2}
  MaxAttempts = 2
  MaxVersions = 2
  MaxRegrades = 1
  FaultKinds = {"list", "lock", "return", "crash"}
  MaxFaults = 2
  Judge = Judge
  Object = Object
  NoPaper = NoPaper
  NoJob = NoJob
SYMMETRY Symmetry
CONSTRAINT AtMostTwo
INVARIANTS TypeOK ReplacedAreArchived MarkedAgainstLocked SummaryOfGraded
PROPERTIES GuideNeverRetreats
CHECK_DEADLOCK FALSE
