SPECIFICATION FairSpec
CONSTANTS
  Client = {c1, c2}
  Key = {k1, k2}
  Value = {v1}
  NoValue = NoValue
  Garbled = Garbled
  NoMutation = NoMutation
  Nobody = Nobody
  MaxRecords = 3
  SyncPolicy = "fsync_every_write"
  Faults = {"open", "write", "tear", "sync", "kill", "power"}
INVARIANTS AckedInLog SeqNonDecreasing DurableReads
PROPERTIES MutexReleased RecoveryEnds
