\* A UDP connection of either class, under five calls of the two threads.
SPECIFICATION Spec
CONSTANTS
  Roles = {"client", "server"}
  BufferSize = 1
  receiveBufferLimit = 2
  MaxCalls = 5
INVARIANTS TypeOK SocketKnown FlagsCovered OneOutstanding 
PROPERTY StartedEnds
CHECK_DEADLOCK FALSE
