SPECIFICATION Spec
CONSTANTS
  Policies = {"none", "fsync_on_flush", "fsync_every_write"}
  Records <- MCRecords
  Faults = {"open", "write", "sync", "close", "kill", "power"}
  MaxPieces = 3
  MaxBroken = 2
INVARIANTS TypeOK PromiseKept ReadsBack
