\* A UDP client that reconnects with a receive outstanding.
SPECIFICATION Spec
CONSTANTS
  Roles = {"client"}
  BufferSize = 1
  receiveBufferLimit = 2
  MaxCalls = 5
PROPERTY OwnErrorsOnly
CHECK_DEADLOCK FALSE
