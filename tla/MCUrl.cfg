SPECIFICATION Spec
CONSTANTS
  Objects = {x, y}
  Texts <- UrlTexts
  Reading <- UrlReading
  Calls <- SetterCalls
  Queries <- Written
  MaxCalls = 4
SYMMETRY ObjectSymmetry
INVARIANTS
  TypeOK
  StrIsCurrent
  RoundTrip
  NormalForms
PROPERTIES
  FailedCallKeeps
  AssignedAlike
CHECK_DEADLOCK FALSE
