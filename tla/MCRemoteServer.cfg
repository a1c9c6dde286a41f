SPECIFICATION FairSpec
CONSTANTS
  Pcb = {p1, p2, p3, p4, p5}
  NULL = NULL
INVARIANTS
  PendingIffOneTimer
  CallbacksOwned
  NoPcbLeaked
  SlotMatchesContext
  LinkNeverStranded
  BufferOfOneStream
PROPERTIES
  SessionsIndependent
  LinkSpec
CHECK_DEADLOCK TRUE
