CONSTANTS
  Levels = 3
  Fanout = 2
  Root = cr3
  p1 = p1
  p2 = p2
  RAM = {f1, f2, f3}
  Devices = {11, 12}
  BootTables <- MCBootTables
  BootFrame = kernel
  BootPage = 1
  HHDM = 2
  Huge <- MCHuge
  Direct <- MCDirect
  HeapPages = {4, 5}
  Requests <- MCRequests
SYMMETRY FrameSymmetry
SPECIFICATION Spec
INVARIANTS TablesAreATree LookupsAgree TLBIsFresh
PROPERTY ImplementsAddressSpace
CHECK_DEADLOCK FALSE
