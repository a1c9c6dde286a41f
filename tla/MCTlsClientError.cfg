SPECIFICATION Spec
CONSTANTS
  Conn = {c1, c2}
  TcpPool = 5
  Faults = {"handshake", "record"}
  NULL = NULL
INVARIANT RemoteErrorSchedules
