SPECIFICATION FairSpec
CONSTANTS
  Sizes = {1}
  MaxSends = 2
PROPERTIES
  ClientToServerDelivers
  ServerToClientDelivers
  HandshakeSettles
  CloseNoticed
  DisconnectTakesEffect
CHECK_DEADLOCK FALSE
