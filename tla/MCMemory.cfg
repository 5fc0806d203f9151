CONSTANTS
  PageSize = 2
  WordSize = 64
  MemoryMaps <- MCMemoryMaps
  HeapStart = 3
  InitialPages = 4
  RequestSizes <- MCRequestSizes
  FrameSupply <- MCFrameSupply
  TagSize = 1
  MinExp = 2
  MaxExp = 6
  MaxComplete = 1
  l_pageSize = 8
  l_pageCount = 2
  HeapPages <- MCHeapPages
  Sizes <- MCSizes
  Callers <- MCCallers
SPECIFICATION MCSpec
INVARIANTS
  NoFrameTwice
  NoOverlap
  Tiling
  ObjectsSafe
  FreeListsSound
  FullyJoined
  CompleteCounted
PROPERTIES
  ImplementsFrameSource
  GrowthMapsNewPages
  ImplementsPageProvider
\* a panic stops the kernel
CHECK_DEADLOCK FALSE
