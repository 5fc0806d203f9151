-------------------------- MODULE UniformRequests --------------------------
(***************************************************************************)
(* The page requests the kernel makes as long as no single allocation needs *)
(* more than liballoc's minimum of l_pageCount pages (liballoc.c:31, 240):  *)
(* every request has the same size, and the heap set up by setup_allocator  *)
(* (alloc.c:17) is exactly two such requests.  list_alloc's computation of  *)
(* the excess region is right for these requests and not for others.        *)
(***************************************************************************)
EXTENDS ListAllocator

ASSUME UniformAssumption == \A m \in RequestSizes : InitialPages = m + m
=============================================================================
