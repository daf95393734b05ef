SPECIFICATION ServerFair
CONSTANTS
  Conn = {x1}
  NoConn = NoConn
  Clients = 1
  MaxClientWorkers = 1
  IdleTimeout = 1
  SocketBuffer = 1
  Lines = 2
  Impatient = FALSE
  Faults = {}
PROPERTY SlotReleasedAlways
CHECK_DEADLOCK FALSE
