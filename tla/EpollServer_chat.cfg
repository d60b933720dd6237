\* Three clients that send, read or not, and leave.
SPECIFICATION Spec
CONSTANTS
  c1 = c1
  c2 = c2
  c3 = c3
  Clients <- ThreeClients
  Listener = Listener
  Capacity = 2
  Chunk = 1
  SendBuf = 2
  MaxSends = 3
INVARIANTS TypeOK NeverDeaf OverlookedNeedsMerge EndsOnlyOfSend
PROPERTY ServedUnlessMerged
CHECK_DEADLOCK FALSE
