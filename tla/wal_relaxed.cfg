SPECIFICATION Spec
CONSTANTS
  Client = {c1, c2}
  Key = {k1, k2}
  Value = {v1, v2}
  NoValue = NoValue
  Garbled = Garbled
  NoMutation = NoMutation
  Nobody = Nobody
  MaxRecords = 4
  SyncPolicy = "fsync_on_flush"
  Faults = {"write", "kill", "power"}
INVARIANT NeverRefused
PROPERTY Implements
