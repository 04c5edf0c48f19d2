SPECIFICATION FairSpec
CONSTANTS
  Clients = {k1, k2, k3}
  MaxFd = 3
  Backlog = 2
INVARIANTS
  TypeOK
  DescriptorsOwned
  LateNeverServed
PROPERTIES
  NeverStuck
CHECK_DEADLOCK TRUE
