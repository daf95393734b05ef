SPECIFICATION Spec
CONSTANTS
  Client = {c1}
  Key = {k1}
  Value = {v1}
  NoValue = NoValue
  Garbled = Garbled
  NoMutation = NoMutation
  Nobody = Nobody
  MaxRecords = 3
  SyncPolicy = "fsync_every_write"
  Faults = {"sync"}
INVARIANT RestartsFromItsOwnLog
