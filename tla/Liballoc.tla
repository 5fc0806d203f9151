------------------------------ MODULE Liballoc ------------------------------
(***************************************************************************)
(* malloc, free and realloc of lethe-kernel/memory/liballoc.c (calloc is    *)
(* malloc and a memset): boundary tags in front of every piece of a block,  *)
(* free tags in doubly linked lists by size, neighbours joined when a piece *)
(* is freed, whole blocks given back once MAXCOMPLETE of them stand by.     *)
(* The pages come from PageProvider.                                        *)
(*                                                                         *)
(* A call is a few steps, between which the code may be interrupted:        *)
(* liballoc_lock and liballoc_unlock (alloc.c) do nothing.  An interrupt    *)
(* handler that calls malloc or free finishes before the interrupted code   *)
(* continues.  A pointer is represented by the address of its tag.          *)
(***************************************************************************)
EXTENDS Integers, FiniteSets

CONSTANTS
  TagSize,      \* sizeof(struct boundary_tag): 48
  MinExp,       \* MINEXP: 8
  MaxExp,       \* MAXEXP: 32
  MaxComplete,  \* MAXCOMPLETE: 5
  l_pageSize,   \* 4096
  l_pageCount,  \* 16
  HeapPages,    \* bound: the pages liballoc_alloc can give out
  Sizes,        \* the sizes that are asked for
  Callers       \* who calls: "main", "isr" or both

ASSUME LiballocAssumption ==
  /\ TagSize \in Nat \ {0} /\ l_pageSize \in Nat \ {0} /\ l_pageCount \in Nat \ {0}
  /\ MinExp \in Nat /\ MaxExp \in Nat /\ MinExp < MaxExp
  /\ MaxComplete \in Nat
  /\ HeapPages \subseteq Nat \ {0}
  /\ Sizes \subseteq Nat
  /\ Callers \subseteq {"main", "isr"}

NULL == 0
NoIndex == -1
Indices == MinExp .. (MaxExp - 1)

VARIABLES
  tags,             \* the boundary tags in memory, by address
  l_freePages,      \* the first tag of every free list
  l_completePages,  \* how many whole blocks each list holds
  blocks,           \* the blocks of pages malloc has taken
  objects,          \* history: the pointers in the callers' hands
  call              \* what each caller is doing

libVars == <<tags, l_freePages, l_completePages, blocks, objects, call>>

Provider == INSTANCE PageProvider WITH mapped <- HeapPages, live <- blocks

Idle == [pc |-> "idle", size |-> 0, tag |-> NULL, old |-> NULL]
-----------------------------------------------------------------------------
(* getexp: -1 below the quantum, and otherwise one less than the shift at   *)
(* which its loop stops: n with 2^n <= size < 2^(n+1).                      *)
getexp(size) ==
  LET stops == {shift \in MinExp .. MaxExp : shift = MaxExp \/ 2 ^ shift > size}
  IN  IF 2 ^ MinExp > size THEN NoIndex ELSE (CHOOSE shift \in stops : \A s \in stops : shift <= s) - 1

ListOf(size) == IF getexp(size) < MinExp THEN MinExp ELSE getexp(size)

Payload(t) == tags[t].real_size - TagSize

IsFree(t) == t # NULL /\ tags[t].index >= 0

Whole(t) == tags[t].split_left = NULL /\ tags[t].split_right = NULL

(* Variant: the old first tag does not point back. *)
Inserted_NoPrev(T, t, i) ==
  [T EXCEPT ![t].next = IF l_freePages[i] = NULL THEN @ ELSE l_freePages[i], ![t].index = i]

(* insert_tag: the old first tag points back to the new one.  The new tag's *)
(* prev, and its next if the list was empty, keep their values.             *)
Inserted(T, t, i) ==
  LET first  == l_freePages[i]
      linked == IF first = NULL
                THEN T
                ELSE [T EXCEPT ![first].prev = t, ![t].next = first]
  IN [linked EXCEPT ![t].index = i]

(* remove_tag *)
Unlinked(T, t) ==
  LET p == T[t].prev
      n == T[t].next
      U == IF p = NULL THEN T ELSE [T EXCEPT ![p].next = n]
      V == IF n = NULL THEN U ELSE [U EXCEPT ![n].prev = p]
  IN [V EXCEPT ![t].next = NULL, ![t].prev = NULL, ![t].index = NoIndex]

Unheaded(t) ==
  [l_freePages EXCEPT ![tags[t].index] = IF @ = t THEN tags[t].next ELSE @]

(* The tag is gone: its memory is part of the tag before it. *)
Dropped(T, t) == [a \in DOMAIN T \ {t} |-> T[a]]

SetLeft(T, t, l) == IF t = NULL THEN T ELSE [T EXCEPT ![t].split_left = l]

(* melt_left(t) and remove_tag of the left neighbour *)
Melted(t) ==
  LET left  == tags[t].split_left
      right == tags[t].split_right
      T == [tags EXCEPT ![left].real_size = @ + tags[t].real_size,
                        ![left].split_right = right]
  IN Dropped(Unlinked(SetLeft(T, right, left), left), t)

(* Variant: the tag after the absorbed one keeps its split_left. *)
Absorbed_NoLink(t) ==
  LET right == tags[t].split_right
  IN Dropped([Unlinked(tags, right) EXCEPT ![t].real_size = @ + tags[right].real_size,
                                           ![t].split_right = tags[right].split_right], right)

(* absorb_right(t) *)
Absorbed(t) ==
  LET right == tags[t].split_right
      T == [Unlinked(tags, right) EXCEPT ![t].real_size = @ + tags[right].real_size,
                                         ![t].split_right = tags[right].split_right]
  IN Dropped(SetLeft(T, tags[right].split_right, t), right)

(* split_tag(t) once its size is set: the rest of t becomes a tag of its    *)
(* own, which goes to the front of its list.                                *)
SplitAt(t, size) == t + TagSize + size

Rest(t, size) ==
  [size        |-> 0,
   real_size   |-> tags[t].real_size - TagSize - size,
   index       |-> NoIndex,
   split_left  |-> t,
   split_right |-> tags[t].split_right,
   next        |-> NULL,
   prev        |-> NULL]

RestList(t, size) == ListOf(Rest(t, size).real_size - TagSize)

Split(t, size) ==
  LET n == SplitAt(t, size)
      T == [a \in DOMAIN tags \union {n} |->
              IF a = n THEN Rest(t, size)
              ELSE IF a = t THEN [tags[t] EXCEPT !.size = size, !.split_right = n,
                                                 !.real_size = TagSize + size]
              ELSE tags[a]]
  IN Inserted(SetLeft(T, tags[t].split_right, n), n, RestList(t, size))

Splittable(t, size) ==
  LET remainder == tags[t].real_size - size - 2 * TagSize
  IN remainder > 0 /\ getexp(remainder) >= 0
-----------------------------------------------------------------------------
(* The n-th tag of free list i, NULL past its end. *)
Walk(i) ==
  LET f[n \in 0 .. Cardinality(DOMAIN tags)] ==
        IF n = 0 THEN l_freePages[i]
        ELSE IF f[n - 1] = NULL THEN NULL
        ELSE tags[f[n - 1]].next
  IN f

(* Variant: the size of the whole piece is compared, its tag included. *)
Search_RealSize(size) ==
  LET walk == Walk(ListOf(size))
      fits == {n \in DOMAIN walk : walk[n] # NULL /\ tags[walk[n]].real_size >= size}
  IN IF fits = {}
     THEN {NULL}
     ELSE {walk[n] : n \in {m \in fits : \A k \in fits : m <= k}}

(* malloc's search: the first tag of the one list it looks at that has room *)
(* for the object and one more tag, or NULL.                                *)
Search(size) ==
  LET walk == Walk(ListOf(size))
      fits == {n \in DOMAIN walk : walk[n] # NULL /\ Payload(walk[n]) >= size + TagSize}
  IN IF fits = {}
     THEN {NULL}
     ELSE {walk[n] : n \in {m \in fits : \A k \in fits : m <= k}}

LibInit ==
  /\ tags = [a \in {} |-> Idle]
  /\ l_freePages = [i \in Indices |-> NULL]
  /\ l_completePages = [i \in Indices |-> 0]
  /\ blocks = {}
  /\ objects = {}
  /\ call = [c \in Callers |-> Idle]

(* An interrupt handler runs to its end before main continues. *)
Runs(c) == c = "main" /\ "isr" \in Callers => call["isr"].pc = "idle"

At(c, pc) == Runs(c) /\ call[c].pc = pc

Step(c, rec) == call' = [call EXCEPT ![c] = rec]

(* malloc up to the end of the search; realloc of p begins with it. *)
StartMalloc(c, size, p) ==
  /\ At(c, "idle")
  /\ \E t \in Search(size) : Step(c, [pc |-> "take", size |-> size, tag |-> t, old |-> p])
  /\ UNCHANGED <<tags, l_freePages, l_completePages, blocks>>

malloc(c) == \E size \in Sizes : StartMalloc(c, size, NULL) /\ UNCHANGED objects

(* realloc: the caller has given p up. *)
realloc(c) ==
  \E size \in Sizes \ {0}, p \in objects :
    StartMalloc(c, size, p) /\ objects' = objects \ {p}

(* Variant: taking a whole block is not counted. *)
TakeFound_Uncounted(c) ==
  /\ At(c, "take")
  /\ call[c].tag # NULL
  /\ tags' = Unlinked(tags, call[c].tag)
  /\ l_freePages' = Unheaded(call[c].tag)
  /\ Step(c, [call[c] EXCEPT !.pc = "place"])
  /\ UNCHANGED <<l_completePages, blocks, objects>>

(* malloc found a tag: take it out of its list. *)
TakeFound(c) ==
  LET t == call[c].tag
      i == ListOf(call[c].size)
  IN /\ At(c, "take")
     /\ t # NULL
     /\ tags' = Unlinked(tags, t)
     /\ l_freePages' = Unheaded(t)
     /\ l_completePages' = IF Whole(t) THEN [l_completePages EXCEPT ![i] = @ - 1]
                                       ELSE l_completePages
     /\ Step(c, [call[c] EXCEPT !.pc = "place"])
     /\ UNCHANGED <<blocks, objects>>

(* malloc found none: allocate_new_tag. *)
PagesFor(size) ==
  LET usage == size + TagSize
      pages == usage \div l_pageSize + IF usage % l_pageSize = 0 THEN 0 ELSE 1
  IN IF pages < l_pageCount THEN l_pageCount ELSE pages

allocate_new_tag(c) ==
  LET size == call[c].size
      pages == PagesFor(size)
  IN /\ At(c, "take")
     /\ call[c].tag = NULL
     /\ \E start \in HeapPages :
          LET b == [start |-> start, pages |-> pages]
              t == start * l_pageSize
          IN /\ Provider!Alloc(b)
             /\ tags' = [a \in DOMAIN tags \union {t} |->
                           IF a = t
                           THEN [size |-> size, real_size |-> pages * l_pageSize,
                                 index |-> NoIndex, split_left |-> NULL,
                                 split_right |-> NULL, next |-> NULL, prev |-> NULL]
                           ELSE tags[a]]
             /\ Step(c, [call[c] EXCEPT !.pc = "place", !.tag = t])
     /\ UNCHANGED <<l_freePages, l_completePages, objects>>

(* malloc sets the size, splits the tag and returns; realloc goes on to     *)
(* copy and to free the old object.                                         *)
Place(c) ==
  LET t == call[c].tag
      size == call[c].size
      old == call[c].old
  IN /\ At(c, "place")
     /\ IF Splittable(t, size)
        THEN /\ tags' = Split(t, size)
             /\ l_freePages' = [l_freePages EXCEPT ![RestList(t, size)] = SplitAt(t, size)]
        ELSE /\ tags' = [tags EXCEPT ![t].size = size]
             /\ UNCHANGED l_freePages
     /\ objects' = objects \union {t}
     /\ Step(c, IF old = NULL THEN Idle ELSE [Idle EXCEPT !.pc = "melt", !.tag = old])
     /\ UNCHANGED <<l_completePages, blocks>>

free(c) ==
  /\ At(c, "idle")
  /\ \E p \in objects :
       /\ objects' = objects \ {p}
       /\ Step(c, [Idle EXCEPT !.pc = "melt", !.tag = p])
  /\ UNCHANGED <<tags, l_freePages, l_completePages, blocks>>

(* Variant: the left neighbour is never joined. *)
LeftIsFree_Never(t) == FALSE

(* One round of the "melt left" loop. *)
LeftIsFree(t) == IsFree(tags[t].split_left)

RightIsFree(t) == IsFree(tags[t].split_right)

MeltLeft(c) ==
  LET t == call[c].tag
      left == tags[t].split_left
  IN /\ At(c, "melt")
     /\ LeftIsFree(t)
     /\ tags' = Melted(t)
     /\ l_freePages' = Unheaded(left)
     /\ Step(c, [call[c] EXCEPT !.tag = left])
     /\ UNCHANGED <<l_completePages, blocks, objects>>

MeltDone(c) ==
  \/ At(c, "melt") /\ ~LeftIsFree(call[c].tag)
  \/ At(c, "absorb")

(* One round of the "melt right" loop. *)
AbsorbRight(c) ==
  LET t == call[c].tag
  IN /\ MeltDone(c)
     /\ RightIsFree(t)
     /\ tags' = Absorbed(t)
     /\ l_freePages' = Unheaded(tags[t].split_right)
     /\ Step(c, [call[c] EXCEPT !.pc = "absorb"])
     /\ UNCHANGED <<l_completePages, blocks, objects>>

(* The joined tag goes to the front of its list. *)
PutBack(c) ==
  LET t == call[c].tag
      i == ListOf(Payload(t))
  IN /\ MeltDone(c)
     /\ ~RightIsFree(t)
     /\ Whole(t) => l_completePages[i] # MaxComplete
     /\ l_completePages' = IF Whole(t) THEN [l_completePages EXCEPT ![i] = @ + 1]
                                       ELSE l_completePages
     /\ tags' = Inserted(tags, t, i)
     /\ l_freePages' = [l_freePages EXCEPT ![i] = t]
     /\ Step(c, Idle)
     /\ UNCHANGED <<blocks, objects>>

(* A whole block, and enough of them stand by: its pages are given back.    *)
GiveBack(c) ==
  LET t == call[c].tag
      b == [start |-> t \div l_pageSize, pages |-> PagesFor(Payload(t))]
  IN /\ MeltDone(c)
     /\ ~RightIsFree(t)
     /\ Whole(t) /\ l_completePages[ListOf(Payload(t))] = MaxComplete
     /\ blocks' = blocks \ {b}
     /\ tags' = Dropped(tags, t)
     /\ Step(c, Idle)
     /\ UNCHANGED <<l_freePages, l_completePages, objects>>

LibNext ==
  \E c \in Callers :
    \/ malloc(c) \/ realloc(c) \/ TakeFound(c) \/ allocate_new_tag(c) \/ Place(c)
    \/ free(c) \/ MeltLeft(c) \/ AbsorbRight(c) \/ PutBack(c) \/ GiveBack(c)

LibSpec == LibInit /\ [][LibNext]_libVars
-----------------------------------------------------------------------------
(* The fields of every tag have the type of struct boundary_tag. *)
LibTypeOK ==
  /\ \A t \in DOMAIN tags :
       /\ t \in Nat \ {NULL}
       /\ tags[t] \in [size : Nat, real_size : Nat, index : Indices \union {NoIndex},
                       split_left : Nat, split_right : Nat, next : Nat, prev : Nat]
  /\ l_freePages \in [Indices -> Nat]
  /\ l_completePages \in [Indices -> 0 .. MaxComplete]
  /\ blocks \subseteq Provider!Block
  /\ objects \subseteq Nat
  /\ \A c \in Callers : call[c].pc \in {"idle", "take", "place", "melt", "absorb"}

Extent(t) == t .. (t + tags[t].real_size - 1)

Bytes(b) == (b.start * l_pageSize) .. ((b.start + b.pages) * l_pageSize - 1)

(* Splitting and joining keep the tags tiling the blocks: no two overlap,   *)
(* none is missing, and split_left and split_right lead from each one to    *)
(* its neighbours and never out of the block.                               *)
Tiling ==
  /\ LibTypeOK
  /\ \A t, u \in DOMAIN tags : t # u => Extent(t) \cap Extent(u) = {}
  /\ UNION {Extent(t) : t \in DOMAIN tags} = UNION {Bytes(b) : b \in blocks}
  /\ \A t \in DOMAIN tags :
       LET l == tags[t].split_left
           r == tags[t].split_right
       IN /\ r # NULL => r = t + tags[t].real_size /\ r \in DOMAIN tags /\ tags[r].split_left = t
          /\ l # NULL => l \in DOMAIN tags /\ tags[l].split_right = t
          /\ l = NULL <=> \E b \in blocks : t = b.start * l_pageSize

(* An object the caller holds lies in its own tag and the tag is in no free *)
(* list: with Tiling, no two objects overlap and no list link is stored in  *)
(* one.                                                                     *)
ObjectsSafe ==
  \A p \in objects :
    p \in DOMAIN tags /\ ~IsFree(p) /\ TagSize + tags[p].size <= tags[p].real_size

Quiet == \A c \in Callers : call[c].pc = "idle"

(* Between calls every free list is a proper doubly linked list that ends,  *)
(* and it holds exactly the tags whose index names it, which is the list    *)
(* for their size: malloc's search sees every free tag of its class.        *)
FreeListsSound ==
  Quiet =>
    /\ \A i \in Indices :
         LET walk == Walk(i)
         IN /\ {walk[n] : n \in DOMAIN walk} \ {NULL} = {t \in DOMAIN tags : tags[t].index = i}
            /\ walk[Cardinality(DOMAIN tags)] = NULL
    /\ \A t \in DOMAIN tags : IsFree(t) =>
         /\ tags[t].index = ListOf(Payload(t))
         /\ tags[t].next # NULL => tags[tags[t].next].prev = t
         /\ tags[t].prev = NULL <=> l_freePages[tags[t].index] = t

(* Between calls no two neighbours are both free, every tag is free or held *)
(* by a caller, and nothing that was freed is lost.                         *)
FullyJoined ==
  Quiet =>
    /\ \A t \in DOMAIN tags : IsFree(t) => ~RightIsFree(t)
    /\ \A t \in DOMAIN tags : IsFree(t) \/ t \in objects

(* Between calls l_completePages counts the whole free blocks of each list. *)
CompleteCounted ==
  Quiet =>
    \A i \in Indices :
      l_completePages[i] = Cardinality({t \in DOMAIN tags : tags[t].index = i /\ Whole(t)})

(* liballoc.h:32-33: "This function is supposed to lock the memory data      *)
(* structures. It could be as simple as disabling interrupts or acquiring a *)
(* spinlock": a call never takes memory that another one has just returned. *)
NoObjectGivenTwice == \A c \in Callers : call[c].pc = "place" => call[c].tag \notin objects
=============================================================================
