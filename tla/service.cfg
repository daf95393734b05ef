SPECIFICATION Spec
CONSTANTS
  p1 = p1
  p2 = p2
  Cli = {p1, p2}
  Repl = {p1}
  Input <- Lines
  Key <- Keys
  Value <- Values
  NoValue = NoValue
  NoAnswer = NoAnswer
  NoMutation = NoMutation
  Capacities = {1, 2}
  Faults = {"engine", "kill", "die"}
INVARIANTS TypeOK NoMutualWait NoWaitingCircle
PROPERTIES Linearizable FailureReachesExitCode
CHECK_DEADLOCK FALSE
