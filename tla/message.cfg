\* Structures of 2, 20 and 65 bytes, two of the last too much for the header.
SPECIFICATION Spec
CONSTANTS
  Structures = {"CreateLobby", "LobbyCreated", "JoinLobby"}
  HeaderRange = 128
  MaxPushes = 3
  MaxPulls = 2
  MaxHops = 3
INVARIANTS TypeOK StackKept
PROPERTY ReturnsTop
CHECK_DEADLOCK FALSE
