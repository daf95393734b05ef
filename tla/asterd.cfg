SPECIFICATION Spec
CONSTANTS
  p1 = p1
  p2 = p2
  Proc = {p1, p2}
  Commands <- MCCommands
  Value = {v1, v2}
  NoValue = NoValue
  NoFile = NoFile
  Places <- MCPlaces
  Addresses <- MCAddresses
  Faults = {"open", "kill"}
  MaxRecords = 3
  MaxPort = 5
  MaxUint32 = 8
  MaxSize = 9
INVARIANTS TypeOK OptionsAsDeclared ServesItsLog
PROPERTY NotOvertaken
