CONSTANTS
  Line = 2
  Machines <- MCMachines
  Commands <- MCCommands
  MaxKeys = 4
SPECIFICATION Spec
INVARIANTS HandlersAreReady LineStaysInBuffer
PROPERTIES KeyIsRead ExitsOnPIT
\* the kernel shuts down or faults
CHECK_DEADLOCK FALSE
