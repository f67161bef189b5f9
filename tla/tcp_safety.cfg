SPECIFICATION Spec
CONSTANTS
  Sizes = {0, 2}
  MaxSends = 2
INVARIANTS
  TypeOK
  Aligned
  ValidatedHasAnswered
  OnlyEarlySendersRejected
  NoStalledQueue
PROPERTIES
  OneOperationEach
  ClientToServerFifo
  ServerToClientFifo
CHECK_DEADLOCK FALSE
