\* One client that closes is sent a message.
SPECIFICATION Spec
CONSTANTS
  Clients = {c1, c2}
  NoClient = NoClient
PROPERTY ReportedIsRemoved
CHECK_DEADLOCK FALSE
