SPECIFICATION Spec
CONSTANTS
  Client = {c1, c2}
  Key = {k1, k2}
  Value = {v1, v2}
  NoValue = NoValue
  Garbled = Garbled
  NoMutation = NoMutation
  Nobody = Nobody
  MaxRecords = 4
  SyncPolicy = "fsync_every_write"
  Faults = {"write", "kill", "power"}
SYMMETRY Symmetry
INVARIANTS TypeOK SeqDense NeverRefused MemoryMatchesLog
PROPERTY Implements
