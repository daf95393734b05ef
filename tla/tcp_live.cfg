SPECIFICATION ServerFair
CONSTANTS
  Conn = {x1, x2}
  NoConn = NoConn
  Clients = 2
  MaxClientWorkers = 1
  IdleTimeout = 1
  SocketBuffer = 1
  Lines = 1
  Impatient = FALSE
  Faults = {"accept"}
INVARIANT AnsweredBeforeEof
PROPERTIES ConnectionEnds JoinCompletes StopCompletes BacklogServed
CHECK_DEADLOCK FALSE
