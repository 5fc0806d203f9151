CONSTANTS
  Capacity = 4
  Values <- MCValues
  NULL = NULL
  Junk = Junk
  MaxSteps = 2
  MaxDepth = 2
SPECIFICATION Spec
INVARIANT FinishedTaskIsGone
\* a fault stops the kernel
CHECK_DEADLOCK FALSE
