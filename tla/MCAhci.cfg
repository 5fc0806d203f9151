SPECIFICATION Spec
CONSTANTS
  Machines <- MCMachines
  DevSlots = 3
  FnSlots = 2
  Ports = 2
  CmdSlots = 2
  SpinMax = 2
INVARIANTS EachFunctionOnce LocatesInOrder WritesOnlyMsi HandlerIsReady IssuesIntoFreeSlot
PROPERTY StopEnds
CHECK_DEADLOCK FALSE
