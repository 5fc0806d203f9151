CONSTANTS
  Processors <- MCProcessors
  Milliseconds = 3
  Rounds = 3
SPECIFICATION Spec
INVARIANTS SleepsLongEnough
PROPERTY KeyWaitEndsOnPIT
