\* Two clients, every order of arrival, approval, failure, time-out and call.
SPECIFICATION Spec
CONSTANTS
  Clients = {c1, c2}
  NoClient = NoClient
SYMMETRY ClientSymmetry
INVARIANTS TypeOK ListSound IdsTellApart
PROPERTIES OpenStayListed ClosedAreCleaned TimerSparesValidated
CHECK_DEADLOCK FALSE
