SPECIFICATION Spec
CONSTANTS
  Clients = {k1}
  MaxFd = 3
  Backlog = 1
INVARIANTS
  HttpServerKept
CHECK_DEADLOCK TRUE
