SPECIFICATION FairSpec
CONSTANTS
  Conns = {u1, c1}
  UiConns = {u1}
  MaxMessages = 2
  SendBuffer = 1
  UiPort = 8082
  SrvPorts = {8082, 8083}
INVARIANTS
  TypeUi
  EchoFaithful
  EchoShown
PROPERTIES
  GoneClientDropped
  UiReturns
CHECK_DEADLOCK FALSE
