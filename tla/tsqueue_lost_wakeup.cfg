SPECIFICATION FairSpec
CONSTANTS
  Producers = {p1}
  Consumers = {c}
  Limits = {1, 3}
  Nobody = Nobody
  Waits = {TRUE, FALSE}
  MaxPushes = 2
PROPERTIES
  WaitEndsWhenNotEmpty
CHECK_DEADLOCK FALSE
