CONSTANTS
  HeapStart <- MCHeapStart
  InitialPages <- MCInitialPages
  RequestSizes <- MCRequestSizes
  FrameSupply <- MCFrameSupply
SPECIFICATION Spec
INVARIANT BlocksDisjoint
\* panic("Out of Memory") stops the kernel
CHECK_DEADLOCK FALSE
