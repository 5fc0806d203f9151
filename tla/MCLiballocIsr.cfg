CONSTANTS
  TagSize = 1
  MinExp = 2
  MaxExp = 6
  MaxComplete = 1
  l_pageSize = 8
  l_pageCount = 2
  HeapPages <- MCHeapPages
  Sizes <- MCSizes
  Callers <- MCCallers
SPECIFICATION IsrSpec
INVARIANT NoObjectGivenTwice
\* when the heap is exhausted, list_alloc panics
CHECK_DEADLOCK FALSE
