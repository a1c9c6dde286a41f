SPECIFICATION FairSpec
CONSTANTS
  Conn = {c1, c2}
  TcpPool = 5
  Faults = {"config", "handshake", "record"}
  NULL = NULL
INVARIANTS
  PendingIffOneTimer
  ContextNotDangling
  ConnectedIsHandshaken
  LinkWatched
  OneConnection
  BufferOfOneStream
PROPERTY LinkSpec
CHECK_DEADLOCK TRUE
