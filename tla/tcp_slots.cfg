SPECIFICATION Spec
CONSTANTS
  Conn = {x1, x2, x3}
  NoConn = NoConn
  Clients = 3
  MaxClientWorkers = 2
  IdleTimeout = 1
  SocketBuffer = 1
  Lines = 0
  Impatient = TRUE
  Faults = {"accept"}
SYMMETRY Symmetry
INVARIANTS TypeOK SlotsExact RejectedForCause ReturnedQuiet
CHECK_DEADLOCK FALSE
