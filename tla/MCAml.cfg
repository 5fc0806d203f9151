SPECIFICATION Spec
CONSTANTS
  Tables <- MCTables
  Beyond = 255
  IoValues = {0, 3}
INVARIANTS OnTrack ParsedAsWritten NamespacesReachable SleepsAsWritten
CHECK_DEADLOCK FALSE
