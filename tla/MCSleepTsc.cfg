CONSTANTS
  Processors <- MCProcessors
  Milliseconds = 3
  Rounds = 3
SPECIFICATION Spec
PROPERTY KeyWaitEnds
