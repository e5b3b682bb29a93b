SPECIFICATION Spec
CONSTANTS
  Papers = {1, 2}
  Marks = {0, 1}
  Asked = {1, 2, 5}
  Limit = 4
  MaxSessions = 1
  MaxRecorded = 2
  MaxChanges = 4
  MaxFailures = 1
  Hooks = {h1, h2}
  Unreadable = {h2}
  MaxAttempts = 2
  MaxPublishes = 2
  MaxRegrades = 1
  MaxCrashes = 1
  MaxChurn = 2
  Names = {n1, n2}
  Bogus = Bogus
  Admins = {a1, a2}
  Calls = {c1}
  Retries = 3
  Fallback = Fallback
  MaxDefaults = 3
INVARIANTS ModTypeOK SampleAsAsked TeacherMarkWasEffective
  AnnouncedOnlyIfSent DispatchComplete OneDefault LoggedOnce
PROPERTIES WorkEnds DefaultKept
CHECK_DEADLOCK FALSE
