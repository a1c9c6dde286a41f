SPECIFICATION FairSpec
CONSTANTS
  Conn = {c1, c2}
  TcpPool = 5
  Faults = {"handshake"}
  NULL = NULL
PROPERTY KeepsReconnecting
