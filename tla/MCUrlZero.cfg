SPECIFICATION Spec
CONSTANTS
  Objects = {x}
  Texts <- NoTexts
  Reading <- NoReading
  Calls <- ZeroHost
  Queries <- Written
  MaxCalls = 2
INVARIANTS
  IPv6Kept
CHECK_DEADLOCK FALSE
