CONSTANTS
  k1 = k1
  k2 = k2
  k3 = k3
  k4 = k4
  v1 = v1
  v2 = v2
  Keys <- MCKeys
  Vals = {v1, v2}
  Null = Null
  Hashes <- MCHashes
  InitialCapacity = 4
  Capacity = 5
  Values <- MCValues
  NULL = NULL
  Junk = Junk
  MaxSteps = 2
  MaxDepth = 2
  Formats <- MCFormats
  CharBits = 2
  ShortBits = 3
  IntBits = 4
  NTOA_MAX = 5
  LongBits = 6
  COLS = 8
  ROWS = 4
  MaxKeys = 2
SPECIFICATION MCSpec
INVARIANTS
  SearchesEnd
  IterationComplete
  PrintsAsC
  StaysInBuffer
  DrawsOnScreen
  DeleteUndoesPut
  ResumesWithItsRegisters
PROPERTIES
  ImplementsMap
  ImplementsFifo
  SwitchKeepsTasks
\* formats, keys and steps run out, and a fault stops the tasks
CHECK_DEADLOCK FALSE
