\* A UDP client whose onReceived starts the next receive.
SPECIFICATION Spec
CONSTANTS
  Roles = {"client"}
  BufferSize = 1
  receiveBufferLimit = 2
  MaxCalls = 5
INVARIANT ReceivesIntoBuffer
CHECK_DEADLOCK FALSE
