SPECIFICATION ServerFair
CONSTANTS
  Conn = {x1}
  NoConn = NoConn
  Clients = 1
  MaxClientWorkers = 1
  IdleTimeout = 1
  SocketBuffer = 1
  Lines = 1
  Impatient = FALSE
  Faults = {}
PROPERTY ShutdownHeeded
CHECK_DEADLOCK FALSE
