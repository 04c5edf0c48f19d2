SPECIFICATION FairSpec
CONSTANTS
  c1 = c1
  c2 = c2
  Conns = {c1, c2}
  doc_root <- Root
  Files <- MCFiles
  Targets <- MCTargets
  ApiNames <- MCApiNames
  Threads = 1
  MaxSessions = 1
  Requests <- MCRequests
  MaxRequests = 2
  SendBuffer = 1
INVARIANTS
  TypeOK
  CloseIsLast
  GracefulEnd
PROPERTIES
  ServedInTurn
  BacklogServed
  RequestSettled
CHECK_DEADLOCK TRUE
