SPECIFICATION FairSpec
CONSTANTS
  Producers = {p1, p2}
  Consumers = {c}
  Limits = {1, 3}
  Nobody = Nobody
  Waits = {TRUE, FALSE}
  MaxPushes = 4
INVARIANTS
  TypeOK
  Locks
  NoPopOnEmpty
PROPERTIES
  UpdateIsFifo
  PushReturns
  PollingHandlesAll
