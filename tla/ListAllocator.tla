--------------------------- MODULE ListAllocator ---------------------------
(***************************************************************************)
(* The kernel's page allocator: lethe-kernel/memory/list_allocator.c with   *)
(* the hooks and setup_allocator of memory/alloc.c.  Free page regions form *)
(* a singly linked list whose nodes are stored in the regions themselves;   *)
(* allocation is first fit and the heap grows at its end.                   *)
(*                                                                         *)
(* Every address here is a multiple of PAGE_SIZE, so addresses are page     *)
(* numbers.  A list node is the region it lies in: the list is the sequence *)
(* of regions from allocator.head.                                          *)
(***************************************************************************)
EXTENDS Integers, Sequences

CONSTANTS
  HeapStart,     \* the first heap page, after the kernel image
  InitialPages,  \* heap_size / PAGE_SIZE: 32 in the code
  RequestSizes,  \* the page counts list_alloc is called with
  FrameSupply    \* bound: the physical frames the heap may use

ASSUME HeapAssumption ==
  /\ HeapStart \in Nat \ {0}
  /\ InitialPages \in Nat \ {0}
  /\ RequestSizes \subseteq Nat \ {0}
  /\ FrameSupply \in Nat
  /\ InitialPages + 1 <= FrameSupply

VARIABLES
  regions,   \* the free list, from allocator.head.next on
  heap_end,  \* the last mapped page of the heap
  mapped,    \* the heap pages map_page has mapped
  live,      \* history: blocks handed out and not returned
  halted     \* panic("Out of Memory")

vars == <<regions, heap_end, mapped, live, halted>>

Pages == INSTANCE PageProvider

Region(start, pages) == [start |-> start, pages |-> pages]

Without(s, i) == SubSeq(s, 1, i - 1) \o SubSeq(s, i + 1, Len(s))

(* Every page takes a frame of its own. *)
FramesLeft == FrameSupply - (heap_end - HeapStart + 1)
-----------------------------------------------------------------------------
(* setup_allocator: the loop maps heap_size / PAGE_SIZE + 1 pages, since    *)
(* its bound is inclusive.                                                  *)
Init ==
  /\ mapped = HeapStart .. (HeapStart + InitialPages)
  /\ heap_end = HeapStart + InitialPages
  /\ regions = << Region(HeapStart, InitialPages) >>
  /\ live = {}
  /\ halted = FALSE

(* add_region pushes a region at the head of the list. *)
add_region(list, start, pages) == << Region(start, pages) >> \o list

(* get_valid_region: the first region with room for the request. *)
Fits(pages) == {i \in DOMAIN regions : pages <= regions[i].pages}

FirstFit(pages, i) == i \in Fits(pages) /\ \A j \in Fits(pages) : i <= j

(* Variant: the region stays in the list. *)
AllocFromList_Kept(pages) ==
  /\ ~halted
  /\ \E i \in DOMAIN regions :
       /\ FirstFit(pages, i)
       /\ LET region == regions[i]
              excess == region.pages - pages
          IN /\ regions' = IF excess > 0
                           THEN add_region(regions, region.start + excess, excess)
                           ELSE regions
             /\ live' = live \union {Region(region.start, pages)}
  /\ UNCHANGED <<heap_end, mapped, halted>>

(* list_alloc when a region fits.  What the request does not need goes back *)
(* to the list, at the address the code computes: region + excess pages.    *)
AllocFromList(pages) ==
  /\ ~halted
  /\ \E i \in DOMAIN regions :
       /\ FirstFit(pages, i)
       /\ LET region == regions[i]
              excess == region.pages - pages
              rest   == Without(regions, i)
          IN /\ regions' = IF excess > 0
                           THEN add_region(rest, region.start + excess, excess)
                           ELSE rest
             /\ live' = live \union {Region(region.start, pages)}
  /\ UNCHANGED <<heap_end, mapped, halted>>

(* Variant: the new region starts at the new end of the heap. *)
GrownRegion_End(pages) == Region(heap_end + 1 + pages, pages)

(* list_alloc when none does: increase_heap_size maps pages + 1 pages after *)
(* heap_end and pushes the region, which the second get_valid_region takes  *)
(* off again without excess.                                                *)
GrownRegion(pages) == Region(heap_end + 1, pages)

(* Variant: heap_end stops a page short of the mapping. *)
AllocByGrowing_Short(pages) ==
  /\ ~halted
  /\ Fits(pages) = {}
  /\ pages + 1 <= FramesLeft
  /\ heap_end' = heap_end + pages
  /\ mapped' = mapped \union ((heap_end + 1) .. (heap_end + 1 + pages))
  /\ live' = live \union {GrownRegion(pages)}
  /\ UNCHANGED <<regions, halted>>

AllocByGrowing(pages) ==
  /\ ~halted
  /\ Fits(pages) = {}
  /\ pages + 1 <= FramesLeft
  /\ heap_end' = heap_end + 1 + pages
  /\ mapped' = mapped \union ((heap_end + 1) .. (heap_end + 1 + pages))
  /\ live' = live \union {GrownRegion(pages)}
  /\ UNCHANGED <<regions, halted>>

(* list_alloc when no frame is left for the new pages: panic. *)
OutOfMemory(pages) ==
  /\ ~halted
  /\ Fits(pages) = {}
  /\ FramesLeft < pages + 1
  /\ halted' = TRUE
  /\ UNCHANGED <<regions, heap_end, mapped, live>>

list_alloc(pages) ==
  AllocFromList(pages) \/ AllocByGrowing(pages) \/ OutOfMemory(pages)

(* liballoc_free: the block becomes a region. *)
liballoc_free(b) ==
  /\ ~halted
  /\ b \in live
  /\ live' = live \ {b}
  /\ regions' = add_region(regions, b.start, b.pages)
  /\ UNCHANGED <<heap_end, mapped, halted>>

Next ==
  \/ \E pages \in RequestSizes : list_alloc(pages)
  \/ \E b \in live : liballoc_free(b)

Spec == Init /\ [][Next]_vars
-----------------------------------------------------------------------------
(* The list holds page regions, the heap ends where its mapping ends. *)
TypeOK ==
  /\ regions \in Seq(Pages!Block)
  /\ heap_end \in Nat
  /\ mapped \subseteq Nat
  /\ live \subseteq Pages!Block
  /\ halted \in BOOLEAN

(* No free region overlaps a block in use or another free region, and every *)
(* page of each is mapped.  add_region writes a node into the region and    *)
(* malloc a tag into the block, so an overlap destroys one of the two.      *)
NoOverlap ==
  /\ \A b, c \in live : b # c => Pages!Disjoint(b, c)
  /\ \A i \in DOMAIN regions :
       /\ Pages!Span(regions[i]) \subseteq mapped
       /\ \A b \in live : Pages!Disjoint(regions[i], b)
       /\ \A j \in DOMAIN regions : i # j => Pages!Disjoint(regions[i], regions[j])

(* increase_heap_size maps only pages that are not mapped yet: map_page     *)
(* panics on one that is.                                                   *)
GrowthMapsNewPages ==
  [][\A p \in (heap_end + 1) .. heap_end' : p \notin mapped /\ p \in mapped']_vars

(* The allocator keeps liballoc.h's contract for liballoc_alloc and         *)
(* liballoc_free.                                                           *)
ImplementsPageProvider == Pages!Spec

(* liballoc.h:49-56: liballoc_alloc returns a pointer to "the allocated     *)
(* memory", pages that belong to this call.  The blocks in use are disjoint. *)
BlocksDisjoint == \A b, c \in live : b # c => Pages!Disjoint(b, c)
=============================================================================
