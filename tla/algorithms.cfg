SPECIFICATION Spec
CONSTANTS
  NaN = NaN
  None = None
  Words <- MCWords
  Lower <- MCLower
  Stripped <- MCStripped
  Value <- MCValue
  Labels <- MCLabels
  Canonical <- MCCanonical
  Tenants = {t1, t2, NotAnId}
  NotAnId = NotAnId
INVARIANTS TotalsAddUp PreviewMirrorsGrade UnitNeverCosts
  OnlyFailuresDropQuestions NumbersUnique SectionsCarried LossIsFlagged
  ReportsAgree MasteryMonotone HandlersActForOwner
CHECK_DEADLOCK FALSE
