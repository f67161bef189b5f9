\* Two servers, two connections, with the same id or not, and two calls of Destruct.
SPECIFICATION Spec
CONSTANTS
  Threads = {s1, s2, main}
  NoThread = NoThread
  Application = main
  MaxConnections = 2
  MaxTotal = 2
  MaxDestructs = 2
INVARIANTS TypeOK OneObject TimerIsThere EntryHasThread
PROPERTIES NoStalePointer SilentIsClosed
CHECK_DEADLOCK FALSE
