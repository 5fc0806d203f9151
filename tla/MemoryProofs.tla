---------------------------- MODULE MemoryProofs ----------------------------
(***************************************************************************)
(* The proofs about the frame allocator and the page allocator.             *)
(*                                                                         *)
(* FrameAllocator implements FrameSource for every page size and every set  *)
(* of well-formed memory maps.  The inductive invariant FrameIInv says how  *)
(* the frames given out so far lie in the memory map: all of every claimed  *)
(* entry but the current one, and in the current one exactly what lies      *)
(* below allocator.next.                                                    *)
(*                                                                         *)
(* The page allocator keeps liballoc.h's contract when every request has    *)
(* the minimum size m and the initial heap is 2m pages: then every free     *)
(* region has m or 2m pages, so the excess of a split is either nothing or  *)
(* exactly the size of the request, the one case in which list_alloc puts   *)
(* it in the right place.  HeapStart, m and the memory are arbitrary.       *)
(***************************************************************************)
EXTENDS FrameAllocator, UniformRequests, SequenceTheorems, TLAPS

Ours(i) == entries[i].type # RESERVED

(* What WellFormed says of the usable entries, whatever has been claimed.   *)
MapOK ==
  \A i \in DOMAIN entries : Ours(i) =>
    /\ End(entries[i]) < WordSize
    /\ entries[i].base = 0 => entries[i].length >= PageSize
    /\ \A j \in DOMAIN entries : j # i /\ Ours(j) =>
         End(entries[i]) <= entries[j].base \/ End(entries[j]) <= entries[i].base

(* Entry c is the one being carved: region f is its tail. *)
TailOf(c, f) ==
  /\ \E k \in Nat : f.base = entries[c].base + k * PageSize
  /\ f.base + f.length = End(entries[c])

Accounted(c, f) ==
  /\ \A a \in FramesOf(entries[c]) : a \in Given <=> a < f.base
  /\ \A i \in DOMAIN entries \ {c} :
       entries[i].type = KERNEL_USED => FramesOf(entries[i]) \subseteq Given

Carving(c) ==
  /\ entries[c].type = KERNEL_USED
  /\ TailOf(c, next)
  /\ Accounted(c, next)

(* Only claimed entries have lost frames. *)
FromClaimed ==
  \A a \in Given : \E i \in DOMAIN entries :
    entries[i].type = KERNEL_USED /\ a \in FramesOf(entries[i])

FrameIInv ==
  /\ FaTypeOK
  /\ MapOK
  /\ FromClaimed
  /\ NoFrameTwice
  /\ ~panicked => \E c \in DOMAIN entries : Carving(c)
-----------------------------------------------------------------------------
(* Multiples of the size of a frame. *)
LEMMA FrameMultiples ==
  ASSUME NEW j \in Nat, NEW k \in Nat, j <= k
  PROVE  /\ j * PageSize \in Nat
         /\ j * PageSize <= k * PageSize
         /\ (k + 1) * PageSize = k * PageSize + PageSize
         /\ k <= k * PageSize
<1>1. PICK d \in Nat : k = j + d
  <2>1. k - j \in Nat /\ k = j + (k - j)
    OBVIOUS
  <2> QED BY <2>1
<1>2. /\ j * PageSize \in Nat
      /\ d * PageSize \in Nat
      /\ k * PageSize = j * PageSize + d * PageSize
  BY <1>1, PageSizeAssumption
<1>3. k * (PageSize - 1) >= 0 /\ k * PageSize = k * (PageSize - 1) + k
  BY PageSizeAssumption
<1> QED
  BY <1>2, <1>3, PageSizeAssumption

(* FramesOf without the bound that lets TLC enumerate it. *)
LEMMA FramesOfMembers ==
  ASSUME NEW e \in EntryOf({USABLE, KERNEL_USED, RESERVED}), NEW a \in Nat
  PROVE  a \in FramesOf(e) <=>
           /\ \E k \in Nat : a = e.base + k * PageSize
           /\ a # 0
           /\ a + PageSize <= End(e)
<1>1. ASSUME NEW k \in Nat, a = e.base + k * PageSize, a + PageSize <= End(e)
      PROVE  k \in 0..e.length
  <2>1. k <= k * PageSize /\ k * PageSize \in Nat
    BY FrameMultiples
  <2> QED
    BY <1>1, <2>1, PageSizeAssumption DEF EntryOf, End
<1>2. a \in FramesOf(e) <=>
        /\ \E k \in 0..e.length : a = e.base + k * PageSize
        /\ a # 0
        /\ a + PageSize <= End(e)
  BY DEF FramesOf
<1>3. e.length \in Nat
  BY DEF EntryOf
<1>4. ASSUME NEW k \in 0..e.length
      PROVE  k \in Nat
  BY <1>3
<1> QED
  BY <1>1, <1>2, <1>4

(* The frames of an entry of the memory map are numbers. *)
LEMMA FramesOfNat ==
  ASSUME NEW e \in EntryOf({USABLE, KERNEL_USED, RESERVED})
  PROVE  FramesOf(e) \subseteq Nat
BY FrameMultiples, PageSizeAssumption DEF FramesOf, EntryOf

(* Entries with the same base and length have the same frames. *)
LEMMA SameFrames ==
  ASSUME NEW d, NEW e, d.base = e.base, d.length = e.length
  PROVE  FramesOf(d) = FramesOf(e) /\ End(d) = End(e)
BY DEF FramesOf, End

(* The first frame of the current region is new, and once it is given the   *)
(* region that starts one page later accounts for what is given.            *)
LEMMA CarveOne ==
  ASSUME NEW e \in EntryOf({USABLE, KERNEL_USED, RESERVED}),
         NEW f \in [base : Nat, length : Nat],
         NEW k \in Nat, f.base = e.base + k * PageSize,
         f.base + f.length = End(e), End(e) < WordSize,
         f.base # 0, HasRoom(f)
  PROVE  /\ f.base \in FramesOf(e)
         /\ Minus(f.length, PageSize) = f.length - PageSize
         /\ f.length - PageSize \in Nat
         /\ f.base + PageSize = e.base + (k + 1) * PageSize
         /\ \A a \in FramesOf(e) : a < f.base + PageSize <=> a < f.base \/ a = f.base
<1>1. f.base \in FramesOf(e)
  <2>1. f.base \in Nat /\ f.base + PageSize <= End(e)
    BY PageSizeAssumption DEF HasRoom
  <2> QED BY <2>1, FramesOfMembers, Zenon
<1>2. Minus(f.length, PageSize) = f.length - PageSize /\ f.length - PageSize \in Nat
  BY PageSizeAssumption DEF HasRoom, Minus
<1>3. f.base + PageSize = e.base + (k + 1) * PageSize
  <2>1. (k + 1) * PageSize = k * PageSize + PageSize /\ k * PageSize \in Nat
    BY FrameMultiples
  <2> QED BY <2>1, PageSizeAssumption DEF EntryOf
<1>4. ASSUME NEW a \in FramesOf(e)
      PROVE  a < f.base + PageSize <=> a < f.base \/ a = f.base
  <2>a. PageSize \in Nat /\ PageSize > 0
    BY PageSizeAssumption
  <2>b. a \in Nat
    BY FramesOfNat, Zenon
  <2>0. a \in Nat /\ PageSize \in Nat /\ PageSize > 0
    BY <2>a, <2>b
  <2>1. PICK j \in Nat : a = e.base + j * PageSize
    BY <2>0, FramesOfMembers, Zenon
  <2>2. CASE j <= k
    <3>1. j * PageSize <= k * PageSize /\ j * PageSize \in Nat /\ k * PageSize \in Nat
      BY <2>2, FrameMultiples
    <3> QED BY <2>0, <2>1, <3>1 DEF EntryOf
  <2>3. CASE k + 1 <= j
    <3>1. (k + 1) * PageSize <= j * PageSize /\ j * PageSize \in Nat
          /\ (k + 1) * PageSize \in Nat
      BY <2>3, FrameMultiples
    <3> QED BY <2>0, <2>1, <3>1, <1>3 DEF EntryOf
  <2> QED BY <2>2, <2>3
<1> QED BY <1>1, <1>2, <1>3, <1>4

(* Stepping over frame 0 changes neither what is left nor what is counted. *)
LEMMA SkipZero ==
  ASSUME NEW e \in EntryOf({USABLE, KERNEL_USED, RESERVED}),
         NEW f \in [base : Nat, length : Nat],
         NEW k \in Nat, f.base = e.base + k * PageSize,
         f.base + f.length = End(e),
         e.base = 0 => e.length >= PageSize
  PROVE  /\ SkipFrameZero(f) \in [base : Nat, length : Nat]
         /\ SkipFrameZero(f).base # 0
         /\ \E l \in Nat : SkipFrameZero(f).base = e.base + l * PageSize
         /\ SkipFrameZero(f).base + SkipFrameZero(f).length = End(e)
         /\ \A a \in FramesOf(e) : a < SkipFrameZero(f).base <=> a < f.base
<1> DEFINE g == SkipFrameZero(f)
<1>1. CASE f.base # 0
  BY <1>1 DEF SkipFrameZero
<1>2. CASE f.base = 0
  <2>0. PageSize \in Nat /\ PageSize > 0
    BY PageSizeAssumption
  <2>1. k * PageSize \in Nat /\ k <= k * PageSize
    BY FrameMultiples
  <2>2. e.base = 0 /\ k = 0 /\ e.base \in Nat /\ e.length \in Nat
    BY <1>2, <2>1 DEF EntryOf
  <2>3. f.length = e.length /\ f.length >= PageSize
    BY <1>2, <2>2 DEF End
  <2>4. g = [base |-> PageSize, length |-> f.length - PageSize]
    BY <1>2, <2>3, <2>0, <2>2 DEF SkipFrameZero, Minus
  <2>5. g.base = e.base + 1 * PageSize
    BY <2>4, <2>2, <2>0
  <2>6. ASSUME NEW a \in FramesOf(e)
        PROVE  a >= PageSize
    <3>1. a \in Nat
      BY FramesOfNat, Zenon
    <3>2. PICK j \in Nat : a = e.base + j * PageSize /\ a # 0
      BY <3>1, FramesOfMembers, Zenon
    <3>3. j # 0
      BY <3>2, <2>2, <2>0
    <3>4. 1 * PageSize <= j * PageSize
      BY <3>3, FrameMultiples
    <3> QED BY <3>1, <3>2, <3>4, <2>2, <2>0
  <2>7. ASSUME NEW a \in FramesOf(e)
        PROVE  a < g.base <=> a < f.base
    <3>1. a >= PageSize /\ a \in Nat
      BY <2>6, FramesOfNat, Zenon
    <3> QED BY <3>1, <2>4, <2>0, <1>2
  <2>8. g.base + g.length = End(e)
    BY <2>4, <2>3, <2>2, <2>0 DEF End
  <2>9. g \in [base : Nat, length : Nat] /\ g.base # 0
    BY <2>4, <2>3, <2>2, <2>0
  <2>10. \E l \in Nat : g.base = e.base + l * PageSize
    BY <2>5
  <2> QED BY <2>7, <2>8, <2>9, <2>10
<1> QED BY <1>1, <1>2
-----------------------------------------------------------------------------
(* The three types of entries differ. *)
LEMMA StringsDiffer ==
  USABLE # KERNEL_USED /\ USABLE # RESERVED /\ KERNEL_USED # RESERVED
BY DEF USABLE, KERNEL_USED, RESERVED

(* The invariant of the frame allocator holds at the start. *)
LEMMA FrameInitIInv == FaInit => FrameIInv
<1> SUFFICES ASSUME FaInit PROVE FrameIInv
  OBVIOUS
<1>1. PICK m \in MemoryMaps : InitNone(m) \/ \E i \in DOMAIN m : InitFirst(m, i)
  BY DEF FaInit
<1>2. WellFormed(m)
  BY MemoryMapsAssumption
<1>3. frames = <<>> /\ Given = {} /\ NoFrameTwice /\ FromClaimed
  BY DEF FaInit, Given, NoFrameTwice, FromClaimed
<1>4. m \in Seq(EntryOf({USABLE, KERNEL_USED, RESERVED}))
  <2>1. EntryOf({USABLE, RESERVED}) \subseteq EntryOf({USABLE, KERNEL_USED, RESERVED})
    BY DEF EntryOf
  <2>2. m \in Seq(EntryOf({USABLE, RESERVED}))
    BY <1>2 DEF WellFormed
  <2> QED BY <2>1, <2>2, SeqMonotonic, Zenon
<1>5. \A i \in DOMAIN m : m[i] \in EntryOf({USABLE, RESERVED})
  BY <1>2 DEF WellFormed
<1>6. CASE InitNone(m)
  <2>1. FaTypeOK
    BY <1>3, <1>4, <1>6 DEF InitNone, FaTypeOK
  <2>2. \A i \in DOMAIN m : m[i].type = RESERVED
    BY <1>6, <1>5 DEF InitNone, EntryOf
  <2>3. MapOK
    BY <1>6, <2>2 DEF MapOK, Ours, InitNone
  <2> QED BY <1>3, <1>6, <2>1, <2>3 DEF FrameIInv, InitNone
<1>7. CASE \E i \in DOMAIN m : InitFirst(m, i)
  <2>1. PICK c \in DOMAIN m : InitFirst(m, c)
    BY <1>7
  <2>2. /\ m[c] \in EntryOf({USABLE, KERNEL_USED, RESERVED})
        /\ [m[c] EXCEPT !.type = KERNEL_USED] \in EntryOf({USABLE, KERNEL_USED, RESERVED})
    BY <1>5 DEF EntryOf
  <2>3. /\ DOMAIN entries = DOMAIN m
        /\ entries \in Seq(EntryOf({USABLE, KERNEL_USED, RESERVED}))
        /\ entries[c] = [m[c] EXCEPT !.type = KERNEL_USED]
        /\ \A i \in DOMAIN m \ {c} : entries[i] = m[i]
    BY <2>1, <2>2, <1>4 DEF InitFirst
  <2>4. FaTypeOK
    <3>1. m[c].base \in Nat /\ m[c].length \in Nat
      BY <2>2 DEF EntryOf
    <3>2. frames \in Seq(Nat)
      BY <1>3
    <3> QED BY <2>1, <2>3, <3>1, <3>2, Zenon DEF FaTypeOK, InitFirst
  <2>5. \A i \in DOMAIN m : /\ entries[i].base = m[i].base
                            /\ entries[i].length = m[i].length
                            /\ Ours(i) => m[i].type = USABLE
    BY <2>1, <2>2, <2>3, <1>5, StringsDiffer, SMTT(30), SMTT(60) DEF InitFirst, EntryOf, Ours
  <2>6. \A i \in DOMAIN m : End(entries[i]) = End(m[i])
    BY <2>5 DEF End
  <2>7. MapOK
    BY <2>3, <2>5, <2>6, <1>2 DEF MapOK, WellFormed
  <2>8. TailOf(c, next)
    <3>1. next.base = entries[c].base + 0 * PageSize
      BY <2>1, <2>2, <2>5, PageSizeAssumption DEF InitFirst, EntryOf
    <3> QED BY <3>1, <2>1, <2>5, Zenon DEF TailOf, End, InitFirst
  <2>9. Accounted(c, next)
    <3>1. ASSUME NEW a \in FramesOf(entries[c]) PROVE ~(a < next.base)
      <4>1. entries[c] \in EntryOf({USABLE, KERNEL_USED, RESERVED})
        BY <2>2, <2>3
      <4>2. a \in Nat
        BY <4>1, FramesOfNat, Zenon
      <4>3. PICK k \in Nat : a = entries[c].base + k * PageSize
        BY <4>1, <4>2, FramesOfMembers, Zenon
      <4>4. k * PageSize \in Nat
        BY FrameMultiples
      <4> QED BY <4>1, <4>3, <4>4, <2>1, <2>5 DEF InitFirst, EntryOf
    <3>2. \A i \in DOMAIN entries \ {c} : entries[i].type # KERNEL_USED
      BY <2>3, <1>5, StringsDiffer DEF EntryOf
    <3> QED BY <3>1, <3>2, <1>3 DEF Accounted
  <2>10. Carving(c)
    BY <2>2, <2>3, <2>8, <2>9 DEF Carving, EntryOf
  <2> QED BY <1>3, <2>3, <2>4, <2>7, <2>10 DEF FrameIInv
<1> QED BY <1>1, <1>6, <1>7
-----------------------------------------------------------------------------
(* A frame is added to the ones handed out. *)
LEMMA AppendFrame ==
  ASSUME FaTypeOK, NEW a \in Nat, frames' = Append(frames, a)
  PROVE  /\ frames' \in Seq(Nat)
         /\ Given' = Given \union {a}
         /\ a \notin Given /\ NoFrameTwice => NoFrameTwice'
<1>1. frames \in Seq(Nat) /\ Len(frames) \in Nat
  BY DEF FaTypeOK
<1>2. /\ frames' \in Seq(Nat)
      /\ DOMAIN frames = 1..Len(frames)
      /\ DOMAIN frames' = 1..(Len(frames) + 1)
      /\ frames'[Len(frames) + 1] = a
      /\ \A n \in 1..Len(frames) : frames'[n] = frames[n]
  BY <1>1
<1>3. Given' = Given \union {a}
  BY <1>1, <1>2 DEF Given
<1>4. ASSUME a \notin Given, NoFrameTwice PROVE NoFrameTwice'
  BY <1>1, <1>2, <1>4 DEF Given, NoFrameTwice
<1> QED BY <1>2, <1>3, <1>4

(* Carving the first frame off region f of entry c, in the map as the       *)
(* action leaves it.                                                        *)
LEMMA CarveStep ==
  ASSUME FaTypeOK, NoFrameTwice, MapOK', ~panicked, UNCHANGED panicked,
         entries' \in Seq(EntryOf({USABLE, KERNEL_USED, RESERVED})),
         \A a \in Given : \E i \in DOMAIN entries' :
           entries'[i].type = KERNEL_USED /\ a \in FramesOf(entries'[i]),
         NEW c \in DOMAIN entries', entries'[c].type = KERNEL_USED,
         NEW f \in [base : Nat, length : Nat], f.base # 0, HasRoom(f),
         NEW k \in Nat, f.base = entries'[c].base + k * PageSize,
         f.base + f.length = End(entries'[c]),
         \A a \in FramesOf(entries'[c]) : a \in Given <=> a < f.base,
         \A i \in DOMAIN entries' \ {c} :
           entries'[i].type = KERNEL_USED => FramesOf(entries'[i]) \subseteq Given,
         Carve(f)
  PROVE  /\ FrameIInv'
         /\ f.base \in FramesOf(entries'[c])
         /\ f.base \notin Given
         /\ Given' = Given \union {f.base}
<1>1. entries'[c] \in EntryOf({USABLE, KERNEL_USED, RESERVED})
  OBVIOUS
<1>2. End(entries'[c]) < WordSize
  BY StringsDiffer DEF MapOK, Ours
<1>3. /\ f.base \in FramesOf(entries'[c])
      /\ Minus(f.length, PageSize) = f.length - PageSize
      /\ f.length - PageSize \in Nat
      /\ f.base + PageSize = entries'[c].base + (k + 1) * PageSize
      /\ \A a \in FramesOf(entries'[c]) :
           a < f.base + PageSize <=> a < f.base \/ a = f.base
  BY <1>1, <1>2, CarveOne, Zenon
<1>4. f.base \in Nat /\ f.base \notin Given
  BY <1>3
<1>5. /\ frames' \in Seq(Nat)
      /\ Given' = Given \union {f.base}
      /\ NoFrameTwice'
  BY <1>4, AppendFrame DEF Carve
<1>6. next' = [base |-> f.base + PageSize, length |-> f.length - PageSize]
  BY <1>3 DEF Carve
<1>7. FaTypeOK'
  <2>1. next' \in [base : Nat, length : Nat]
    BY <1>3, <1>4, <1>6, PageSizeAssumption
  <2> QED BY <1>5, <2>1 DEF FaTypeOK
<1>8. FromClaimed'
  BY <1>3, <1>5 DEF FromClaimed
<1>9. TailOf(c, next)'
  <2>1. next'.base = entries'[c].base + (k + 1) * PageSize /\ k + 1 \in Nat
    BY <1>3, <1>6
  <2>2. next'.base + next'.length = End(entries'[c])
    BY <1>3, <1>4, <1>6, PageSizeAssumption
  <2> QED BY <2>1, <2>2 DEF TailOf, End
<1>10. Accounted(c, next)'
  <2>1. \A a \in FramesOf(entries'[c]) : a \in Given' <=> a < next'.base
    BY <1>3, <1>5, <1>6
  <2> QED BY <2>1, <1>5 DEF Accounted, FramesOf, End
<1> QED
  BY <1>3, <1>4, <1>5, <1>7, <1>8, <1>9, <1>10 DEF FrameIInv, Carving

(* Claiming entries changes their type and nothing else. *)
LEMMA ClaimKeepsMap ==
  ASSUME FaTypeOK, MapOK, NEW n \in DOMAIN entries, entries' = ClaimUpTo(n)
  PROVE  /\ DOMAIN entries' = DOMAIN entries
         /\ entries' \in Seq(EntryOf({USABLE, KERNEL_USED, RESERVED}))
         /\ \A i \in DOMAIN entries :
              /\ FramesOf(entries'[i]) = FramesOf(entries[i])
              /\ End(entries'[i]) = End(entries[i])
              /\ entries'[i].base = entries[i].base
              /\ entries'[i].length = entries[i].length
              /\ entries'[i].type # RESERVED <=> entries[i].type # RESERVED
              /\ entries[i].type = KERNEL_USED => entries'[i].type = KERNEL_USED
              /\ entries'[i].type = KERNEL_USED =>
                   entries[i].type = KERNEL_USED \/ (i <= n /\ i \in Usable)
         /\ MapOK'
<1>1. /\ entries \in Seq(EntryOf({USABLE, KERNEL_USED, RESERVED}))
      /\ DOMAIN entries = 1..Len(entries)
      /\ Len(entries) \in Nat
  BY DEF FaTypeOK
<1>2. ASSUME NEW i \in DOMAIN entries
      PROVE  /\ entries'[i] = IF i <= n /\ i \in Usable
                              THEN [entries[i] EXCEPT !.type = KERNEL_USED]
                              ELSE entries[i]
             /\ entries[i] \in EntryOf({USABLE, KERNEL_USED, RESERVED})
  BY <1>1 DEF ClaimUpTo
<1>3. ASSUME NEW i \in DOMAIN entries
      PROVE  /\ entries'[i] \in EntryOf({USABLE, KERNEL_USED, RESERVED})
             /\ entries'[i].base = entries[i].base
             /\ entries'[i].length = entries[i].length
             /\ entries'[i].type # RESERVED <=> entries[i].type # RESERVED
             /\ entries[i].type = KERNEL_USED => entries'[i].type = KERNEL_USED
             /\ entries'[i].type = KERNEL_USED =>
                  entries[i].type = KERNEL_USED \/ (i <= n /\ i \in Usable)
  BY <1>2, StringsDiffer, Zenon DEF EntryOf, Usable
<1>4. DOMAIN entries' = DOMAIN entries
  BY DEF ClaimUpTo
<1>5. entries' \in Seq(EntryOf({USABLE, KERNEL_USED, RESERVED}))
  <2>1. entries' = [i \in 1..Len(entries) |-> entries'[i]]
    BY <1>1 DEF ClaimUpTo
  <2>2. entries' \in [1..Len(entries) -> EntryOf({USABLE, KERNEL_USED, RESERVED})]
    BY <2>1, <1>1, <1>3, Zenon
  <2> QED BY <2>2, <1>1, SeqDef, ZenonT(40)
<1>6. \A i \in DOMAIN entries : /\ FramesOf(entries'[i]) = FramesOf(entries[i])
                                /\ End(entries'[i]) = End(entries[i])
  BY <1>3, SameFrames
<1>7. MapOK'
  BY <1>3, <1>4, <1>6 DEF MapOK, Ours
<1> QED BY <1>3, <1>4, <1>5, <1>6, <1>7

(* What a call does, in FrameSource's terms. *)
TakesNew ==
  \E a \in UsableFrames : a \notin Given /\ Given' = Given \union {a}

(* A frame carved from the current entry keeps the invariant, and is a new  *)
(* usable frame.                                                            *)
LEMMA CurrentStep == FrameIInv /\ FromCurrent => FrameIInv' /\ TakesNew /\ UsableFrames' = UsableFrames
<1> SUFFICES ASSUME FrameIInv, FromCurrent
             PROVE  FrameIInv' /\ TakesNew /\ UsableFrames' = UsableFrames
  OBVIOUS
<1> DEFINE f == SkipFrameZero(next)
<1>1. PICK c \in DOMAIN entries : Carving(c)
  BY DEF FrameIInv, FromCurrent
<1>2. PICK k \in Nat : next.base = entries[c].base + k * PageSize
  BY <1>1 DEF Carving, TailOf
<1>3. entries[c] \in EntryOf({USABLE, KERNEL_USED, RESERVED}) /\ next \in [base : Nat, length : Nat]
  BY DEF FrameIInv, FaTypeOK
<1>4. entries[c].base = 0 => entries[c].length >= PageSize
  BY <1>1, StringsDiffer DEF FrameIInv, MapOK, Ours, Carving
<1>5. next.base + next.length = End(entries[c])
  BY <1>1 DEF Carving, TailOf
<1>6. /\ f \in [base : Nat, length : Nat]
      /\ f.base # 0
      /\ \E l \in Nat : f.base = entries[c].base + l * PageSize
      /\ f.base + f.length = End(entries[c])
      /\ \A a \in FramesOf(entries[c]) : a < f.base <=> a < next.base
  BY <1>2, <1>3, <1>4, <1>5, SkipZero, Zenon
<1>7. PICK l \in Nat : f.base = entries[c].base + l * PageSize
  BY <1>6
<1> HIDE DEF f
<1>8. entries' = entries /\ panicked' = panicked /\ ~panicked /\ HasRoom(f) /\ Carve(f)
  BY DEF FromCurrent, f
<1>9. \A a \in FramesOf(entries[c]) : a \in Given <=> a < f.base
  BY <1>1, <1>6 DEF Carving, Accounted
<1>10. MapOK'
  BY <1>8 DEF FrameIInv, MapOK, Ours
<1>11. /\ FrameIInv'
       /\ f.base \in FramesOf(entries[c])
       /\ f.base \notin Given
       /\ Given' = Given \union {f.base}
  <2>1. FaTypeOK /\ NoFrameTwice /\ FromClaimed
    BY DEF FrameIInv
  <2>2. entries' \in Seq(EntryOf({USABLE, KERNEL_USED, RESERVED}))
    BY <1>8, <2>1 DEF FaTypeOK
  <2>3. /\ \A a \in Given : \E i \in DOMAIN entries' :
             entries'[i].type = KERNEL_USED /\ a \in FramesOf(entries'[i])
        /\ entries'[c].type = KERNEL_USED
        /\ \A i \in DOMAIN entries' \ {c} :
             entries'[i].type = KERNEL_USED => FramesOf(entries'[i]) \subseteq Given
    BY <1>1, <1>8, <2>1 DEF FromClaimed, Carving, Accounted
  <2> QED BY <2>1, <2>2, <2>3, <1>6, <1>7, <1>8, <1>9, <1>10, CarveStep, ZenonT(60)
<1>12. UsableFrames' = UsableFrames
  BY <1>8 DEF UsableFrames, FramesOf, End
<1>13. f.base \in UsableFrames
  BY <1>11, <1>1, StringsDiffer DEF UsableFrames, Carving
<1> QED BY <1>11, <1>12, <1>13 DEF TakesNew

(* Where the frames of an entry begin and end. *)
LEMMA FrameBounds ==
  ASSUME NEW e \in EntryOf({USABLE, KERNEL_USED, RESERVED}), NEW a \in FramesOf(e)
  PROVE  a \in Nat /\ e.base <= a /\ a + PageSize <= End(e)
<1>1. a \in Nat
  BY FramesOfNat, Zenon
<1>2. PICK k \in Nat : a = e.base + k * PageSize /\ a + PageSize <= End(e)
  BY <1>1, FramesOfMembers, Zenon
<1>3. k * PageSize \in Nat
  BY FrameMultiples
<1> QED BY <1>1, <1>2, <1>3 DEF EntryOf

(* What SkipZero says of an entry that has just been claimed. *)
LEMMA ClaimedRegion ==
  ASSUME NEW e \in EntryOf({USABLE, KERNEL_USED, RESERVED}),
         e.base = 0 => e.length >= PageSize
  PROVE  /\ Claimed(e) \in [base : Nat, length : Nat]
         /\ Claimed(e).base # 0
         /\ \E l \in Nat : Claimed(e).base = e.base + l * PageSize
         /\ Claimed(e).base + Claimed(e).length = End(e)
         /\ \A a \in FramesOf(e) : ~(a < Claimed(e).base)
<1> DEFINE f == [base |-> e.base, length |-> e.length]
<1>1. /\ f \in [base : Nat, length : Nat]
      /\ f.base = e.base + 0 * PageSize
      /\ f.base + f.length = End(e)
      /\ f.base = e.base
  BY PageSizeAssumption DEF EntryOf, End
<1>2. Claimed(e) = SkipFrameZero(f)
  BY DEF Claimed
<1> HIDE DEF f
<1>3. /\ Claimed(e) \in [base : Nat, length : Nat]
      /\ Claimed(e).base # 0
      /\ \E l \in Nat : Claimed(e).base = e.base + l * PageSize
      /\ Claimed(e).base + Claimed(e).length = End(e)
      /\ \A a \in FramesOf(e) : a < Claimed(e).base <=> a < f.base
  <2>1. PICK k \in Nat : f.base = e.base + k * PageSize
    BY <1>1
  <2>2. /\ SkipFrameZero(f) \in [base : Nat, length : Nat]
        /\ SkipFrameZero(f).base # 0
        /\ \E l \in Nat : SkipFrameZero(f).base = e.base + l * PageSize
        /\ SkipFrameZero(f).base + SkipFrameZero(f).length = End(e)
        /\ \A a \in FramesOf(e) : a < SkipFrameZero(f).base <=> a < f.base
    <3>1. f \in [base : Nat, length : Nat] /\ f.base + f.length = End(e)
      BY <1>1
    <3> QED BY <3>1, <2>1, SkipZero, Zenon
  <2> QED BY <1>2, <2>2
<1>4. ASSUME NEW a \in FramesOf(e) PROVE ~(a < f.base)
  <2>1. a \in Nat /\ e.base <= a
    BY FrameBounds, Zenon
  <2> QED BY <2>1, <1>1 DEF EntryOf
<1> QED BY <1>3, <1>4

(* An untouched entry that has no room has no whole frame. *)
LEMMA NoRoomNoFrames ==
  ASSUME NEW e \in EntryOf({USABLE, KERNEL_USED, RESERVED}),
         e.base = 0 => e.length >= PageSize, ~HasRoom(Claimed(e))
  PROVE  FramesOf(e) = {}
<1> SUFFICES ASSUME NEW a \in FramesOf(e) PROVE FALSE
  OBVIOUS
<1>1. /\ Claimed(e) \in [base : Nat, length : Nat]
      /\ Claimed(e).base + Claimed(e).length = End(e)
      /\ ~(a < Claimed(e).base)
  BY ClaimedRegion, Zenon
<1>2. a \in Nat /\ a + PageSize <= End(e)
  BY FrameBounds, Zenon
<1> QED BY <1>1, <1>2, PageSizeAssumption DEF HasRoom

(* Every frame of an entry that has been carved to its end has been handed  *)
(* out.                                                                     *)
LEMMA FullEntry ==
  ASSUME FrameIInv, NEW c \in DOMAIN entries, Carving(c), ~HasRoom(SkipFrameZero(next))
  PROVE  FramesOf(entries[c]) \subseteq Given
<1> DEFINE g == SkipFrameZero(next)
<1>1. PICK k \in Nat : next.base = entries[c].base + k * PageSize
  BY DEF Carving, TailOf
<1>2. entries[c] \in EntryOf({USABLE, KERNEL_USED, RESERVED}) /\ next \in [base : Nat, length : Nat]
  BY DEF FrameIInv, FaTypeOK
<1>3. entries[c].base = 0 => entries[c].length >= PageSize
  BY StringsDiffer DEF FrameIInv, MapOK, Ours, Carving
<1>4. next.base + next.length = End(entries[c])
  BY DEF Carving, TailOf
<1>5. /\ g \in [base : Nat, length : Nat]
      /\ g.base + g.length = End(entries[c])
      /\ \A a \in FramesOf(entries[c]) : a < g.base <=> a < next.base
  BY <1>1, <1>2, <1>3, <1>4, SkipZero, Zenon
<1> HIDE DEF g
<1>6. ~HasRoom(g)
  BY DEF g
<1>7. ASSUME NEW a \in FramesOf(entries[c]) PROVE a \in Given
  <2>1. a \in Nat /\ a + PageSize <= End(entries[c])
    BY <1>2, FrameBounds, Zenon
  <2>2. a < g.base
    BY <2>1, <1>5, <1>6, PageSizeAssumption DEF HasRoom
  <2> QED BY <2>2, <1>5 DEF Carving, Accounted
<1> QED BY <1>7

(* A frame carved from the next usable entry keeps the invariant, and is a  *)
(* new usable frame.                                                        *)
LEMMA NextEntryStep ==
  FrameIInv /\ FromNextEntry => FrameIInv' /\ TakesNew /\ UsableFrames' = UsableFrames
<1> SUFFICES ASSUME FrameIInv, FromNextEntry
             PROVE  FrameIInv' /\ TakesNew /\ UsableFrames' = UsableFrames
  OBVIOUS
<1>1. PICK c \in DOMAIN entries : Carving(c)
  BY DEF FrameIInv, FromNextEntry
<1>2. PICK i \in Roomy : /\ \A j \in Roomy : i <= j
                         /\ entries' = ClaimUpTo(i)
                         /\ Carve(Claimed(entries[i]))
  BY DEF FromNextEntry
<1>3. FaTypeOK /\ MapOK /\ FromClaimed /\ NoFrameTwice
  BY DEF FrameIInv
<1>4. i \in DOMAIN entries /\ entries[i].type = USABLE /\ HasRoom(Claimed(entries[i]))
  BY <1>2 DEF Roomy, Usable
<1>5. \A j \in DOMAIN entries : entries[j] \in EntryOf({USABLE, KERNEL_USED, RESERVED})
  BY <1>3 DEF FaTypeOK
<1>6. \A j \in DOMAIN entries :
        entries[j].type # RESERVED => (entries[j].base = 0 => entries[j].length >= PageSize)
  BY <1>3 DEF MapOK, Ours
<1> DEFINE f == Claimed(entries[i])
<1>7. /\ f \in [base : Nat, length : Nat]
      /\ f.base # 0
      /\ \E l \in Nat : f.base = entries[i].base + l * PageSize
      /\ f.base + f.length = End(entries[i])
      /\ \A a \in FramesOf(entries[i]) : ~(a < f.base)
  <2>1. entries[i].base = 0 => entries[i].length >= PageSize
    BY <1>4, <1>6, StringsDiffer
  <2> QED BY <1>4, <1>5, <2>1, ClaimedRegion, Zenon
<1>8. PICK k \in Nat : f.base = entries[i].base + k * PageSize
  BY <1>7
<1> HIDE DEF f
<1>9. HasRoom(f) /\ Carve(f) /\ ~panicked /\ UNCHANGED panicked
  BY <1>2, <1>4 DEF f, FromNextEntry
<1>10. /\ DOMAIN entries' = DOMAIN entries
       /\ entries' \in Seq(EntryOf({USABLE, KERNEL_USED, RESERVED}))
       /\ \A j \in DOMAIN entries :
            /\ FramesOf(entries'[j]) = FramesOf(entries[j])
            /\ End(entries'[j]) = End(entries[j])
            /\ entries'[j].base = entries[j].base
            /\ entries'[j].type # RESERVED <=> entries[j].type # RESERVED
            /\ entries[j].type = KERNEL_USED => entries'[j].type = KERNEL_USED
            /\ entries'[j].type = KERNEL_USED =>
                 entries[j].type = KERNEL_USED \/ (j <= i /\ j \in Usable)
       /\ MapOK'
  BY <1>2, <1>3, <1>4, ClaimKeepsMap, Zenon
<1>11. entries'[i].type = KERNEL_USED
  BY <1>2, <1>3, <1>4, <1>5 DEF ClaimUpTo, Usable, FaTypeOK, EntryOf
<1>12. \A a \in Given : a \notin FramesOf(entries[i])
  <2> SUFFICES ASSUME NEW a \in Given, a \in FramesOf(entries[i]) PROVE FALSE
    OBVIOUS
  <2>1. PICK j \in DOMAIN entries :
          entries[j].type = KERNEL_USED /\ a \in FramesOf(entries[j])
    BY <1>3 DEF FromClaimed
  <2>2. j # i /\ Ours(i) /\ Ours(j)
    BY <2>1, <1>4, StringsDiffer DEF Ours
  <2>3. End(entries[i]) <= entries[j].base \/ End(entries[j]) <= entries[i].base
    BY <2>2, <1>3, <1>4 DEF MapOK
  <2>4. /\ a \in Nat /\ entries[i].base <= a /\ a + PageSize <= End(entries[i])
        /\ entries[j].base <= a /\ a + PageSize <= End(entries[j])
    BY <2>1, <1>4, <1>5, FrameBounds, Zenon
  <2>5. entries[i] \in EntryOf({USABLE, KERNEL_USED, RESERVED})
        /\ entries[j] \in EntryOf({USABLE, KERNEL_USED, RESERVED})
    BY <1>4, <1>5
  <2> QED BY <2>3, <2>4, <2>5, PageSizeAssumption DEF EntryOf, End
<1>13. ASSUME NEW j \in DOMAIN entries' \ {i}, entries'[j].type = KERNEL_USED
       PROVE  FramesOf(entries'[j]) \subseteq Given
  <2>1. j \in DOMAIN entries /\ FramesOf(entries'[j]) = FramesOf(entries[j])
    BY <1>10
  <2>2. CASE entries[j].type = KERNEL_USED
    <3>1. ~HasRoom(SkipFrameZero(next))
      BY DEF FromNextEntry
    <3>2. FramesOf(entries[c]) \subseteq Given
      BY <1>1, <3>1, FullEntry
    <3> QED BY <2>1, <2>2, <3>2, <1>1 DEF Carving, Accounted
  <2>3. CASE j <= i /\ j \in Usable
    <3>1. j \notin Roomy
      BY <2>1, <2>3, <1>2, <1>3, <1>4 DEF FaTypeOK
    <3>2. ~HasRoom(Claimed(entries[j])) /\ entries[j].type = USABLE
      BY <3>1, <2>3 DEF Roomy, Usable
    <3>3. entries[j].base = 0 => entries[j].length >= PageSize
      BY <3>2, <2>1, <1>6, StringsDiffer
    <3>4. FramesOf(entries[j]) = {}
      BY <3>2, <3>3, <2>1, <1>5, NoRoomNoFrames, SMTT(30), SMTT(60)
    <3> QED BY <3>4, <2>1, SMTT(30), SMTT(60)
  <2> QED BY <2>1, <2>2, <2>3, <1>10, <1>13
<1>14. /\ FrameIInv'
       /\ f.base \in FramesOf(entries'[i])
       /\ f.base \notin Given
       /\ Given' = Given \union {f.base}
  <2>1. \A a \in Given : \E j \in DOMAIN entries' :
          entries'[j].type = KERNEL_USED /\ a \in FramesOf(entries'[j])
    BY <1>3, <1>10 DEF FromClaimed
  <2>2. \A a \in FramesOf(entries'[i]) : a \in Given <=> a < f.base
    BY <1>4, <1>7, <1>10, <1>12, SMTT(30), SMTT(60)
  <2>3. f.base = entries'[i].base + k * PageSize /\ f.base + f.length = End(entries'[i])
    BY <1>4, <1>7, <1>8, <1>10, SMTT(30), SMTT(60)
  <2> QED
    BY <1>3, <1>4, <1>7, <1>9, <1>10, <1>11, <1>13, <2>1, <2>2, <2>3, CarveStep, SMTT(30), SMTT(60)
<1>15. UsableFrames' = UsableFrames
  BY <1>10, SMTT(30), SMTT(60) DEF UsableFrames
<1>16. f.base \in UsableFrames
  BY <1>14, <1>10, <1>4, StringsDiffer DEF UsableFrames
<1> QED BY <1>14, <1>15, <1>16 DEF TakesNew

(* The allocator panics only when every usable frame has been handed out. *)
LEMMA PanicStep ==
  FrameIInv /\ NoEntryLeft => /\ FrameIInv'
                         /\ UsableFrames \subseteq Given
                         /\ UsableFrames' = UsableFrames
                         /\ Given' = Given
<1> SUFFICES ASSUME FrameIInv, NoEntryLeft
             PROVE  /\ FrameIInv'
                    /\ UsableFrames \subseteq Given
                    /\ UsableFrames' = UsableFrames
                    /\ Given' = Given
  OBVIOUS
<1>1. PICK c \in DOMAIN entries : Carving(c)
  BY DEF FrameIInv, NoEntryLeft
<1>2. UNCHANGED <<entries, next, frames>> /\ panicked'
  BY DEF NoEntryLeft
<1>3. UsableFrames' = UsableFrames /\ Given' = Given
  BY <1>2, SMTT(30), SMTT(60) DEF UsableFrames, Given, FramesOf, End
<1>4. FrameIInv'
  BY <1>2, <1>3 DEF FrameIInv, FaTypeOK, MapOK, Ours, End, FromClaimed, FramesOf, NoFrameTwice
<1>5. ASSUME NEW i \in DOMAIN entries, entries[i].type # RESERVED
      PROVE  FramesOf(entries[i]) \subseteq Given
  <2>1. entries[i] \in EntryOf({USABLE, KERNEL_USED, RESERVED})
    BY DEF FrameIInv, FaTypeOK
  <2>2. CASE entries[i].type = KERNEL_USED
    <3>1. ~HasRoom(SkipFrameZero(next))
      BY DEF NoEntryLeft
    <3>2. FramesOf(entries[c]) \subseteq Given
      BY <1>1, <3>1, FullEntry
    <3> QED BY <2>2, <3>2, <1>1 DEF Carving, Accounted
  <2>3. CASE entries[i].type = USABLE
    <3>1. ~HasRoom(Claimed(entries[i]))
      BY <2>3 DEF NoEntryLeft, Roomy, Usable
    <3>2. entries[i].base = 0 => entries[i].length >= PageSize
      BY <1>5 DEF FrameIInv, MapOK, Ours
    <3>3. FramesOf(entries[i]) = {}
      BY <2>1, <3>1, <3>2, NoRoomNoFrames
    <3> QED BY <3>3
  <2> QED BY <2>1, <2>2, <2>3, <1>5 DEF EntryOf
<1>6. UsableFrames \subseteq Given
  BY <1>5 DEF UsableFrames
<1> QED BY <1>3, <1>4, <1>6

(* A stuttering step keeps the invariant of the frame allocator. *)
LEMMA FrameStutterStep ==
  FrameIInv /\ UNCHANGED faVars => FrameIInv' /\ UNCHANGED Source!vars
<1> SUFFICES ASSUME FrameIInv, UNCHANGED faVars PROVE FrameIInv' /\ UNCHANGED Source!vars
  OBVIOUS
<1>1. UNCHANGED <<entries, next, frames, panicked>>
  BY DEF faVars
<1>2. UsableFrames' = UsableFrames /\ Given' = Given
  BY <1>1, SMTT(30), SMTT(60) DEF UsableFrames, Given, FramesOf, End
<1>3. FrameIInv'
  BY <1>1, <1>2, SMTT(30), SMTT(60) DEF FrameIInv, FaTypeOK, MapOK, Ours, End, FromClaimed, FramesOf, NoFrameTwice,
                    Carving, TailOf, Accounted
<1> QED BY <1>1, <1>2, <1>3 DEF Source!vars

(* Every step keeps the invariant of the frame allocator. *)
LEMMA FrameStepIInv == FrameIInv /\ [FaNext]_faVars => FrameIInv'
BY CurrentStep, NextEntryStep, PanicStep, FrameStutterStep DEF FaNext, allocate_frame

(***************************************************************************)
(* allocate_frame keeps its variables well-typed and never returns the same *)
(* frame twice, for every page size and every well-formed memory map.       *)
(***************************************************************************)
THEOREM FrameSafety == FaSpec => [](FaTypeOK /\ NoFrameTwice)
<1>1. FaInit => FrameIInv
  BY FrameInitIInv
<1>2. FrameIInv /\ [FaNext]_faVars => FrameIInv'
  BY FrameStepIInv
<1>3. FrameIInv => FaTypeOK /\ NoFrameTwice
  BY DEF FrameIInv
<1> QED BY <1>1, <1>2, <1>3, PTL DEF FaSpec

(***************************************************************************)
(* FrameAllocator implements FrameSource: only unused frames of usable      *)
(* memory are returned, never frame 0, and the panic in next_usable comes   *)
(* only when every usable frame has been returned.                          *)
(***************************************************************************)
THEOREM FrameRefinement == FaSpec => ImplementsFrameSource
<1>1. FaInit => Source!Init
  <2> SUFFICES ASSUME FaInit PROVE Source!Init
    OBVIOUS
  <2>1. Given = {}
    BY DEF FaInit, Given
  <2>2. PICK m \in MemoryMaps : InitNone(m) \/ \E i \in DOMAIN m : InitFirst(m, i)
    BY DEF FaInit
  <2>3. CASE InitNone(m)
    <3>1. \A i \in DOMAIN m : m[i].type = RESERVED
      <4>1. WellFormed(m)
        BY MemoryMapsAssumption
      <4>2. \A i \in DOMAIN m : m[i] \in EntryOf({USABLE, RESERVED})
        BY <4>1 DEF WellFormed
      <4> QED BY <2>3, <4>2 DEF InitNone, EntryOf
    <3>2. UsableFrames = {}
      BY <2>3, <3>1 DEF UsableFrames, InitNone
    <3> QED BY <2>1, <2>3, <3>2 DEF Source!Init, InitNone
  <2>4. CASE \E i \in DOMAIN m : InitFirst(m, i)
    BY <2>1, <2>4, Zenon DEF Source!Init, InitFirst
  <2> QED BY <2>2, <2>3, <2>4
<1>2. FrameIInv /\ [FaNext]_faVars => [Source!Next]_(Source!vars)
  <2> SUFFICES ASSUME FrameIInv, [FaNext]_faVars PROVE [Source!Next]_(Source!vars)
    OBVIOUS
  <2>1. CASE FromCurrent
    <3>1. TakesNew /\ UsableFrames' = UsableFrames
      BY <2>1, CurrentStep
    <3> QED BY <2>1, <3>1 DEF FromCurrent, TakesNew, Source!Next, Source!Take
  <2>2. CASE FromNextEntry
    <3>1. TakesNew /\ UsableFrames' = UsableFrames
      BY <2>2, NextEntryStep
    <3> QED BY <2>2, <3>1 DEF FromNextEntry, TakesNew, Source!Next, Source!Take
  <2>3. CASE NoEntryLeft
    BY <2>3, PanicStep DEF NoEntryLeft, Source!Next, Source!Exhaust
  <2>4. CASE UNCHANGED faVars
    BY <2>4, FrameStutterStep
  <2> QED BY <2>1, <2>2, <2>3, <2>4 DEF FaNext, allocate_frame
<1>3. FaInit => FrameIInv
  BY FrameInitIInv
<1>4. FrameIInv /\ [FaNext]_faVars => FrameIInv'
  BY FrameStepIInv
<1> QED BY <1>1, <1>2, <1>3, <1>4, PTL DEF FaSpec, ImplementsFrameSource, Source!Spec
-----------------------------------------------------------------------------
(* The page allocator. *)

(* The strengthening: the sizes above, and nothing mapped past heap_end. *)
RegionSizes ==
  /\ \A i \in DOMAIN regions :
       regions[i].pages + regions[i].pages = InitialPages \/ regions[i].pages = InitialPages
  /\ \A b \in live : b.pages + b.pages = InitialPages

Mapped ==
  /\ \A p \in mapped : p <= heap_end
  /\ \A b \in live : Pages!Span(b) \subseteq mapped

HeapIInv == TypeOK /\ NoOverlap /\ RegionSizes /\ Mapped
-----------------------------------------------------------------------------
(* The elements of the free list without one of them. *)
LEMMA WithoutElements ==
  ASSUME NEW S, NEW s \in Seq(S), NEW i \in DOMAIN s
  PROVE  /\ Without(s, i) \in Seq(S)
         /\ DOMAIN Without(s, i) = 1..(Len(s) - 1)
         /\ \A j \in 1..(Len(s) - 1) :
              Without(s, i)[j] = s[IF j < i THEN j ELSE j + 1]
<1> DEFINE front == SubSeq(s, 1, i - 1)
           back  == SubSeq(s, i + 1, Len(s))
<1>1. i \in 1..Len(s) /\ Len(s) \in Nat
  OBVIOUS
<1>2. /\ front \in Seq(S) /\ Len(front) = i - 1
      /\ \A j \in 1..(i - 1) : front[j] = s[j]
  BY <1>1
<1>3. /\ back \in Seq(S) /\ Len(back) = Len(s) - i
      /\ \A j \in 1..(Len(s) - i) : back[j] = s[i + j]
  BY <1>1
<1> HIDE DEF front, back
<1>4. /\ front \o back \in Seq(S)
      /\ Len(front \o back) = Len(s) - 1
      /\ \A j \in 1..(Len(s) - 1) :
           (front \o back)[j] = IF j <= i - 1 THEN front[j] ELSE back[j - (i - 1)]
  <2>1. /\ front \o back \in Seq(S)
        /\ Len(front \o back) = Len(front) + Len(back)
        /\ \A j \in 1..(Len(front) + Len(back)) :
             (front \o back)[j] = IF j <= Len(front) THEN front[j] ELSE back[j - Len(front)]
    BY <1>2, <1>3, ConcatProperties, Zenon
  <2>2. Len(front) + Len(back) = Len(s) - 1 /\ Len(front) = i - 1
    BY <1>1, <1>2, <1>3
  <2> QED BY <2>1, <2>2, SMTT(30), SMTT(60)
<1>5. Without(s, i) = front \o back
  BY DEF Without, front, back
<1>6. ASSUME NEW j \in 1..(Len(s) - 1)
      PROVE  Without(s, i)[j] = s[IF j < i THEN j ELSE j + 1]
  <2>1. CASE j < i
    BY <2>1, <1>1, <1>2, <1>4, <1>5
  <2>2. CASE ~(j < i)
    <3>1. j - (i - 1) \in 1..(Len(s) - i) /\ i + (j - (i - 1)) = j + 1
      BY <2>2, <1>1
    <3>2. (front \o back)[j] = back[j - (i - 1)]
      BY <2>2, <1>1, <1>4
    <3>3. back[j - (i - 1)] = s[j + 1]
      BY <3>1, <1>3
    <3> QED BY <2>2, <3>2, <3>3, <1>5, Zenon
  <2> QED BY <2>1, <2>2
<1> QED BY <1>1, <1>4, <1>5, <1>6

(* The elements of the free list with one more. *)
LEMMA PushElements ==
  ASSUME NEW S, NEW s \in Seq(S), NEW start, NEW pages, Region(start, pages) \in S
  PROVE  /\ add_region(s, start, pages) \in Seq(S)
         /\ DOMAIN add_region(s, start, pages) = 1..(Len(s) + 1)
         /\ add_region(s, start, pages)[1] = Region(start, pages)
         /\ \A j \in 2..(Len(s) + 1) : add_region(s, start, pages)[j] = s[j - 1]
<1> DEFINE r == Region(start, pages)
<1>1. r \in S
  OBVIOUS
<1> HIDE DEF r
<1>2. /\ <<r>> \o s \in Seq(S)
      /\ Len(<<r>> \o s) = Len(s) + 1
      /\ (<<r>> \o s)[1] = r
      /\ \A j \in 2..(Len(s) + 1) : (<<r>> \o s)[j] = s[j - 1]
  BY <1>1
<1>3. add_region(s, start, pages) = <<r>> \o s
  BY DEF add_region, r
<1> QED BY <1>2, <1>3 DEF r

(* The fields of a region. *)
LEMMA RegionFields ==
  ASSUME NEW s \in Nat, NEW p \in Nat
  PROVE  Region(s, p) \in Pages!Block /\ Region(s, p).start = s /\ Region(s, p).pages = p
BY DEF Region, Pages!Block
-----------------------------------------------------------------------------
(* The invariant of the heap's page allocator holds at the start. *)
LEMMA HeapInitIInv == Init => HeapIInv
<1> SUFFICES ASSUME Init PROVE HeapIInv
  OBVIOUS
<1>1. HeapStart \in Nat /\ InitialPages \in Nat
  BY HeapAssumption
<1> DEFINE r == Region(HeapStart, InitialPages)
<1>2. r \in Pages!Block /\ r.start = HeapStart /\ r.pages = InitialPages
  BY <1>1, RegionFields
<1>3. regions = <<r>> /\ DOMAIN regions = {1} /\ regions[1] = r
  BY DEF Init
<1> HIDE DEF r
<1>4. TypeOK
  <2>1. regions \in Seq(Pages!Block)
    BY <1>2, <1>3
  <2>2. mapped \subseteq Nat /\ heap_end \in Nat
    BY <1>1 DEF Init
  <2> QED BY <2>1, <2>2, Zenon DEF Init, TypeOK
<1>5. NoOverlap
  BY <1>1, <1>2, <1>3 DEF Init, NoOverlap, Pages!Span
<1>6. RegionSizes /\ Mapped
  BY <1>1, <1>2, <1>3 DEF Init, RegionSizes, Mapped
<1> QED BY <1>4, <1>5, <1>6 DEF HeapIInv

(* What the refinement needs of an allocation: block b is new, it overlaps  *)
(* no block in use and its pages are mapped.                                *)
HandsOut(b) ==
  /\ b \notin live
  /\ \A c \in live : Pages!Disjoint(b, c)
  /\ live' = live \union {b}
  /\ mapped \subseteq mapped'
  /\ Pages!Span(b) \subseteq mapped'

(* A block that lies inside region i. *)
LEMMA BlockInRegion ==
  ASSUME HeapIInv, NEW i \in DOMAIN regions, NEW b \in Pages!Block, b.pages > 0,
         regions[i].start <= b.start,
         b.start + b.pages <= regions[i].start + regions[i].pages
  PROVE  /\ Pages!Span(b) \subseteq mapped
         /\ b \notin live
         /\ \A c \in live : Pages!Disjoint(b, c)
         /\ \A j \in DOMAIN regions \ {i} : Pages!Disjoint(b, regions[j])
<1>1. /\ regions \in Seq(Pages!Block)
      /\ live \subseteq Pages!Block
      /\ regions[i] \in Pages!Block
      /\ \A j \in DOMAIN regions : regions[j] \in Pages!Block
  BY DEF HeapIInv, TypeOK
<1>2. Pages!Span(b) \subseteq Pages!Span(regions[i])
  BY <1>1, SMTT(30), SMTT(60) DEF Pages!Span, Pages!Block
<1>3. Pages!Span(b) \subseteq mapped
  BY <1>2 DEF HeapIInv, NoOverlap
<1>4. ASSUME NEW c \in Pages!Block, Pages!Disjoint(regions[i], c)
      PROVE  Pages!Disjoint(b, c)
  BY <1>1, <1>4, SMTT(30), SMTT(60) DEF Pages!Disjoint, Pages!Block
<1>5. \A c \in live : Pages!Disjoint(b, c)
  BY <1>1, <1>4 DEF HeapIInv, NoOverlap
<1>6. \A j \in DOMAIN regions \ {i} : Pages!Disjoint(b, regions[j])
  BY <1>1, <1>4 DEF HeapIInv, NoOverlap
<1>7. b \notin live
  BY <1>5, SMTT(30), SMTT(60) DEF Pages!Disjoint, Pages!Block
<1> QED BY <1>3, <1>5, <1>6, <1>7

(* The list once region i is taken off it, in a state where only blocks     *)
(* inside region i are added to the blocks in use.                          *)
LEMMA RestOfList ==
  ASSUME HeapIInv, NEW i \in DOMAIN regions, NEW L, L = Without(regions, i)
  PROVE  /\ L \in Seq(Pages!Block)
         /\ DOMAIN L = 1..Len(L)
         /\ \A j \in DOMAIN L :
              /\ \E k \in DOMAIN regions \ {i} : L[j] = regions[k]
              /\ Pages!Span(L[j]) \subseteq mapped
              /\ \A b \in live : Pages!Disjoint(L[j], b)
              /\ L[j].pages + L[j].pages = InitialPages \/ L[j].pages = InitialPages
              /\ \A k \in DOMAIN L : j # k => Pages!Disjoint(L[j], L[k])
<1> DEFINE old(j) == IF j < i THEN j ELSE j + 1
<1>1. regions \in Seq(Pages!Block) /\ i \in 1..Len(regions) /\ Len(regions) \in Nat
  BY DEF HeapIInv, TypeOK
<1>2. /\ L \in Seq(Pages!Block)
      /\ DOMAIN L = 1..(Len(regions) - 1)
      /\ \A j \in DOMAIN L : L[j] = regions[old(j)]
  BY <1>1, WithoutElements, Zenon
<1>3. \A j \in DOMAIN L : old(j) \in DOMAIN regions \ {i}
  BY <1>1, <1>2
<1>4. \A j, k \in DOMAIN L : j # k => old(j) # old(k)
  BY <1>1, <1>2, SMTT(30), SMTT(60)
<1> HIDE DEF old
<1>5. ASSUME NEW j \in DOMAIN L
      PROVE  /\ \E k \in DOMAIN regions \ {i} : L[j] = regions[k]
             /\ Pages!Span(L[j]) \subseteq mapped
             /\ \A b \in live : Pages!Disjoint(L[j], b)
             /\ L[j].pages + L[j].pages = InitialPages \/ L[j].pages = InitialPages
             /\ \A k \in DOMAIN L : j # k => Pages!Disjoint(L[j], L[k])
  <2>1. L[j] = regions[old(j)] /\ old(j) \in DOMAIN regions \ {i}
    BY <1>2, <1>3, SMTT(30), SMTT(60)
  <2>2. \A k \in DOMAIN L : j # k => Pages!Disjoint(L[j], L[k])
    BY <2>1, <1>2, <1>3, <1>4 DEF HeapIInv, NoOverlap
  <2> QED BY <2>1, <2>2 DEF HeapIInv, NoOverlap, RegionSizes
<1>6. DOMAIN L = 1..Len(L)
  BY <1>2
<1> QED BY <1>2, <1>5, <1>6

(* To be disjoint is symmetric. *)
LEMMA DisjointSymmetric ==
  ASSUME NEW b, NEW c
  PROVE  Pages!Disjoint(b, c) <=> Pages!Disjoint(c, b)
BY DEF Pages!Disjoint

(* A region taken from the free list keeps the invariant of the heap's page *)
(* allocator.                                                               *)
LEMMA FromListStep ==
  ASSUME HeapIInv, NEW pages \in RequestSizes, AllocFromList(pages)
  PROVE  HeapIInv' /\ \E b \in Pages!Block : HandsOut(b)
<1>1. PICK i \in DOMAIN regions :
        /\ FirstFit(pages, i)
        /\ LET region == regions[i]
               excess == region.pages - pages
               rest   == Without(regions, i)
           IN /\ regions' = IF excess > 0
                            THEN add_region(rest, region.start + excess, excess)
                            ELSE rest
              /\ live' = live \union {Region(region.start, pages)}
  BY DEF AllocFromList
<1> DEFINE L == Without(regions, i)
           b == Region(regions[i].start, pages)
<1>2. /\ pages \in Nat /\ pages > 0 /\ pages + pages = InitialPages
      /\ InitialPages \in Nat
  BY HeapAssumption, UniformAssumption
<1>3. /\ regions \in Seq(Pages!Block)
      /\ regions[i].start \in Nat /\ regions[i].pages \in Nat
      /\ regions[i] \in Pages!Block
  <2>1. regions \in Seq(Pages!Block) /\ regions[i] \in Pages!Block
    BY SMTT(30), SMTT(60) DEF HeapIInv, TypeOK
  <2> QED BY <2>1 DEF Pages!Block
<1>4. /\ pages <= regions[i].pages
      /\ regions[i].pages = pages \/ regions[i].pages = pages + pages
  BY <1>1, <1>2, <1>3, SMTT(30), SMTT(60) DEF FirstFit, Fits, HeapIInv, RegionSizes
<1>5. b \in Pages!Block /\ b.start = regions[i].start /\ b.pages = pages
  BY <1>2, <1>3, RegionFields, SMTT(30), SMTT(60)
<1>6. /\ Pages!Span(b) \subseteq mapped
      /\ b \notin live
      /\ \A c \in live : Pages!Disjoint(b, c)
      /\ \A j \in DOMAIN regions \ {i} : Pages!Disjoint(b, regions[j])
  BY <1>2, <1>3, <1>4, <1>5, BlockInRegion, SMTT(30), SMTT(60)
<1>7. /\ L \in Seq(Pages!Block)
      /\ DOMAIN L = 1..Len(L)
      /\ \A j \in DOMAIN L :
           /\ \E k \in DOMAIN regions \ {i} : L[j] = regions[k]
           /\ Pages!Span(L[j]) \subseteq mapped
           /\ \A c \in live : Pages!Disjoint(L[j], c)
           /\ L[j].pages + L[j].pages = InitialPages \/ L[j].pages = InitialPages
           /\ \A k \in DOMAIN L : j # k => Pages!Disjoint(L[j], L[k])
  BY RestOfList, SMTT(30), SMTT(60)
<1>8. live' = live \union {b} /\ UNCHANGED <<heap_end, mapped, halted>>
  BY <1>1, SMTT(30), SMTT(60) DEF AllocFromList
<1>9. regions' = IF regions[i].pages - pages > 0
                 THEN add_region(L, regions[i].start + (regions[i].pages - pages),
                                 regions[i].pages - pages)
                 ELSE L
  BY <1>1
<1> HIDE DEF L, b
<1>10. HandsOut(b)
  BY <1>6, <1>8 DEF HandsOut
<1>11. \A c, d \in live' : c # d => Pages!Disjoint(c, d)
  BY <1>6, <1>8, DisjointSymmetric DEF HeapIInv, NoOverlap
<1>12. (\A c \in live' : c.pages + c.pages = InitialPages) /\ Mapped'
  BY <1>2, <1>5, <1>6, <1>8, SMTT(30), SMTT(60) DEF HeapIInv, RegionSizes, Mapped
<1>13. ASSUME NEW j \in DOMAIN L
       PROVE  \A c \in live' : Pages!Disjoint(L[j], c)
  BY <1>6, <1>7, <1>8, DisjointSymmetric
<1>14. CASE regions[i].pages = pages
  <2>1. regions' = L
    BY <1>2, <1>9, <1>14, SMTT(30), SMTT(60)
  <2>2. TypeOK'
    BY <2>1, <1>5, <1>7, <1>8, SMTT(30), SMTT(60) DEF HeapIInv, TypeOK
  <2>3. NoOverlap'
    BY <2>1, <1>7, <1>8, <1>11, <1>13, SMTT(30), SMTT(60) DEF NoOverlap
  <2>4. RegionSizes'
    BY <2>1, <1>7, <1>12 DEF RegionSizes
  <2> QED BY <2>2, <2>3, <2>4, <1>10, <1>12, <1>5 DEF HeapIInv
<1>15. CASE regions[i].pages = pages + pages
  <2> DEFINE r == Region(regions[i].start + pages, pages)
             R == add_region(L, regions[i].start + pages, pages)
  <2>1. regions' = R
    <3>1. regions[i].pages - pages = pages
      BY <1>2, <1>15, SMTT(30), SMTT(60)
    <3> QED BY <3>1, <1>2, <1>9
  <2>2. r \in Pages!Block /\ r.start = regions[i].start + pages /\ r.pages = pages
    BY <1>2, <1>3, RegionFields, SMTT(30), SMTT(60)
  <2>3. /\ Pages!Span(r) \subseteq mapped
        /\ \A c \in live : Pages!Disjoint(r, c)
        /\ \A j \in DOMAIN regions \ {i} : Pages!Disjoint(r, regions[j])
    BY <2>2, <1>2, <1>3, <1>15, BlockInRegion, SMTT(30), SMTT(60)
  <2>4. Pages!Disjoint(r, b)
    BY <2>2, <1>2, <1>3, <1>5, SMTT(30), SMTT(60) DEF Pages!Disjoint
  <2>5. /\ R \in Seq(Pages!Block)
        /\ DOMAIN R = 1..(Len(L) + 1)
        /\ R[1] = r
        /\ \A j \in 2..(Len(L) + 1) : R[j] = L[j - 1]
    <3>1. L \in Seq(Pages!Block) /\ Region(regions[i].start + pages, pages) \in Pages!Block
      BY <2>2, <1>7, SMTT(30), SMTT(60)
    <3> DEFINE at == regions[i].start + pages
    <3> HIDE DEF at
    <3>2. Region(at, pages) \in Pages!Block
      BY <3>1, SMTT(30), SMTT(60) DEF at
    <3>3. /\ add_region(L, at, pages) \in Seq(Pages!Block)
          /\ DOMAIN add_region(L, at, pages) = 1..(Len(L) + 1)
          /\ add_region(L, at, pages)[1] = Region(at, pages)
          /\ \A j \in 2..(Len(L) + 1) : add_region(L, at, pages)[j] = L[j - 1]
      BY <3>1, <3>2, PushElements
    <3> QED BY <3>3, SMTT(30), SMTT(60) DEF at
  <2> HIDE DEF r, R
  <2>6. \A c \in live' : Pages!Disjoint(r, c)
    BY <2>3, <2>4, <1>8, SMTT(30), SMTT(60)
  <2>7. \A j \in DOMAIN L : Pages!Disjoint(r, L[j])
    BY <2>3, <1>7, SMTT(30), SMTT(60)
  <2>8. TypeOK'
    BY <2>1, <2>5, <1>5, <1>8, SMTT(30), SMTT(60) DEF HeapIInv, TypeOK
  <2>9. Len(L) \in Nat
    BY <1>7, SMTT(30), SMTT(60)
  <2>10. ASSUME NEW j \in DOMAIN R
         PROVE  /\ Pages!Span(R[j]) \subseteq mapped
                /\ \A c \in live' : Pages!Disjoint(R[j], c)
                /\ R[j].pages + R[j].pages = InitialPages \/ R[j].pages = InitialPages
                /\ \A k \in DOMAIN R : j # k => Pages!Disjoint(R[j], R[k])
    <3>1. CASE j = 1
      <4>1. \A k \in DOMAIN R : j # k => Pages!Disjoint(R[j], R[k])
        BY <2>5, <2>7, <2>9, <3>1, <1>7, SMTT(30), SMTT(60)
      <4> QED BY <4>1, <2>2, <2>3, <2>5, <2>6, <3>1, <1>2, Zenon
    <3>2. CASE j # 1
      <4>1. j \in 2..(Len(L) + 1) /\ j - 1 \in DOMAIN L /\ R[j] = L[j - 1]
        BY <3>2, <2>5, <2>9, <1>7
      <4>2. ASSUME NEW k \in DOMAIN R, j # k PROVE Pages!Disjoint(R[j], R[k])
        <5>1. CASE k = 1
          BY <5>1, <4>1, <2>5, <2>7, DisjointSymmetric, SMTT(30), SMTT(60)
        <5>2. CASE k # 1
          <6>1. k - 1 \in DOMAIN L /\ R[k] = L[k - 1] /\ k - 1 # j - 1
            BY <5>2, <4>1, <4>2, <2>5, <2>9, <1>7, SMTT(30), SMTT(60)
          <6> QED BY <6>1, <4>1, <1>7, SMTT(30), SMTT(60)
        <5> QED BY <5>1, <5>2, SMTT(30), SMTT(60)
      <4> QED BY <4>1, <4>2, <1>7, <1>13, SMTT(30), SMTT(60)
    <3> QED BY <3>1, <3>2
  <2>11. NoOverlap'
    BY <2>1, <2>10, <1>8, <1>11, SMTT(30), SMTT(60) DEF NoOverlap
  <2>12. RegionSizes'
    BY <2>1, <2>10, <1>12 DEF RegionSizes
  <2> QED BY <2>8, <2>11, <2>12, <1>10, <1>12, <1>5 DEF HeapIInv
<1> QED BY <1>4, <1>14, <1>15, SMTT(30), SMTT(60)

(* Growing the heap: the new pages lie past everything that is mapped. *)
LEMMA GrowingStep ==
  ASSUME HeapIInv, NEW pages \in RequestSizes, AllocByGrowing(pages)
  PROVE  /\ HeapIInv'
         /\ \E b \in Pages!Block : HandsOut(b)
         /\ \A p \in (heap_end + 1) .. heap_end' : p \notin mapped /\ p \in mapped'
<1> DEFINE b == GrownRegion(pages)
<1>1. /\ pages \in Nat /\ pages > 0 /\ pages + pages = InitialPages
      /\ InitialPages \in Nat /\ heap_end \in Nat
  BY HeapAssumption, UniformAssumption DEF HeapIInv, TypeOK
<1>2. b \in Pages!Block /\ b.start = heap_end + 1 /\ b.pages = pages
  BY <1>1, RegionFields DEF GrownRegion
<1>3. /\ heap_end' = heap_end + 1 + pages
      /\ mapped' = mapped \union ((heap_end + 1) .. (heap_end + 1 + pages))
      /\ live' = live \union {b}
      /\ UNCHANGED <<regions, halted>>
  BY DEF AllocByGrowing
<1> HIDE DEF b
<1>4. /\ regions \in Seq(Pages!Block)
      /\ mapped \subseteq Nat
      /\ live \subseteq Pages!Block
      /\ \A p \in mapped : p <= heap_end
  BY DEF HeapIInv, TypeOK, Mapped
<1>5. Pages!Span(b) \subseteq mapped'
  BY <1>1, <1>2, <1>3 DEF Pages!Span
<1>6. ASSUME NEW c \in Pages!Block, Pages!Span(c) \subseteq mapped, c.pages > 0
      PROVE  Pages!Disjoint(b, c) /\ Pages!Disjoint(c, b)
  <2>1. c.start \in Nat /\ c.pages \in Nat
    BY DEF Pages!Block
  <2>2. c.start + c.pages - 1 \in Pages!Span(c)
    BY <2>1, <1>6 DEF Pages!Span
  <2>3. c.start + c.pages - 1 <= heap_end
    BY <2>2, <1>4, <1>6, Zenon
  <2> QED BY <2>1, <2>3, <1>1, <1>2 DEF Pages!Disjoint
<1>7. ASSUME NEW c \in live PROVE Pages!Disjoint(b, c) /\ Pages!Disjoint(c, b)
  <2>1. c \in Pages!Block /\ Pages!Span(c) \subseteq mapped /\ c.pages + c.pages = InitialPages
    BY <1>4 DEF HeapIInv, Mapped, RegionSizes
  <2>2. c.pages > 0
    BY <2>1, <1>1, SMTT(30), SMTT(60) DEF Pages!Block
  <2> QED BY <2>1, <2>2, <1>6
<1>8. ASSUME NEW j \in DOMAIN regions PROVE Pages!Disjoint(regions[j], b)
  <2>1. /\ regions[j] \in Pages!Block
        /\ Pages!Span(regions[j]) \subseteq mapped
        /\ regions[j].pages + regions[j].pages = InitialPages \/ regions[j].pages = InitialPages
    BY <1>4 DEF HeapIInv, NoOverlap, RegionSizes
  <2>2. regions[j].pages > 0
    BY <2>1, <1>1 DEF Pages!Block
  <2> QED BY <2>1, <2>2, <1>6, SMTT(30), SMTT(60)
<1>9. b \notin live
  BY <1>1, <1>2, <1>7 DEF Pages!Disjoint
<1>10. HandsOut(b)
  BY <1>3, <1>5, <1>7, <1>9 DEF HandsOut
<1>11. TypeOK'
  <2>1. mapped' \subseteq Nat /\ heap_end' \in Nat
    BY <1>1, <1>3, <1>4, SMTT(30), SMTT(60)
  <2> QED BY <2>1, <1>2, <1>3, <1>4 DEF HeapIInv, TypeOK
<1>12. NoOverlap'
  <2>1. \A c, d \in live' : c # d => Pages!Disjoint(c, d)
    BY <1>3, <1>7, SMTT(30), SMTT(60) DEF HeapIInv, NoOverlap
  <2>2. \A j \in DOMAIN regions : /\ Pages!Span(regions[j]) \subseteq mapped'
                                  /\ \A c \in live' : Pages!Disjoint(regions[j], c)
    BY <1>3, <1>8, SMTT(30), SMTT(60) DEF HeapIInv, NoOverlap
  <2> QED BY <2>1, <2>2, <1>3, SMTT(30), SMTT(60) DEF HeapIInv, NoOverlap
<1>13. RegionSizes'
  BY <1>1, <1>2, <1>3 DEF HeapIInv, RegionSizes
<1>14. Mapped'
  <2>1. \A p \in mapped' : p <= heap_end'
    BY <1>1, <1>3, <1>4
  <2>2. \A c \in live' : Pages!Span(c) \subseteq mapped'
    BY <1>3, <1>5 DEF HeapIInv, Mapped
  <2> QED BY <2>1, <2>2 DEF Mapped
<1>15. \A p \in (heap_end + 1) .. heap_end' : p \notin mapped /\ p \in mapped'
  BY <1>1, <1>3, <1>4
<1> QED BY <1>2, <1>10, <1>11, <1>12, <1>13, <1>14, <1>15, SMTT(30), SMTT(60) DEF HeapIInv

(* liballoc_free keeps the invariant of the heap's page allocator. *)
LEMMA FreeStep ==
  ASSUME HeapIInv, NEW b \in live, liballoc_free(b)
  PROVE  HeapIInv' /\ live' = live \ {b} /\ mapped' = mapped
<1> DEFINE R == add_region(regions, b.start, b.pages)
<1>1. /\ live' = live \ {b}
      /\ regions' = R
      /\ UNCHANGED <<heap_end, mapped, halted>>
  BY DEF liballoc_free
<1>2. regions \in Seq(Pages!Block) /\ b \in Pages!Block /\ live \subseteq Pages!Block
  BY DEF HeapIInv, TypeOK
<1>3. Region(b.start, b.pages) = b
  BY <1>2, SMTT(30), SMTT(60) DEF Region, Pages!Block
<1>4. /\ R \in Seq(Pages!Block)
      /\ DOMAIN R = 1..(Len(regions) + 1)
      /\ R[1] = b
      /\ \A j \in 2..(Len(regions) + 1) : R[j] = regions[j - 1]
  BY <1>2, <1>3, PushElements
<1> HIDE DEF R
<1>5. Len(regions) \in Nat /\ DOMAIN regions = 1..Len(regions)
  BY <1>2
<1>6. TypeOK'
  BY <1>1, <1>2, <1>4, SMTT(30), SMTT(60) DEF HeapIInv, TypeOK
<1>7. ASSUME NEW j \in DOMAIN R, j # 1
      PROVE  j - 1 \in DOMAIN regions /\ R[j] = regions[j - 1]
  BY <1>4, <1>5, <1>7, SMTT(30), SMTT(60)
<1>8. ASSUME NEW j \in DOMAIN R
      PROVE  /\ Pages!Span(R[j]) \subseteq mapped
             /\ \A c \in live' : Pages!Disjoint(R[j], c)
             /\ R[j].pages + R[j].pages = InitialPages \/ R[j].pages = InitialPages
             /\ \A k \in DOMAIN R : j # k => Pages!Disjoint(R[j], R[k])
  <2>1. CASE j = 1
    <3>1. \A k \in DOMAIN R : j # k => Pages!Disjoint(R[j], R[k])
      BY <2>1, <1>4, <1>7, DisjointSymmetric, SMTT(30), SMTT(60) DEF HeapIInv, NoOverlap
    <3> QED BY <3>1, <2>1, <1>1, <1>4, SMTT(30), SMTT(60) DEF HeapIInv, NoOverlap, RegionSizes, Mapped
  <2>2. CASE j # 1
    <3>1. j - 1 \in DOMAIN regions /\ R[j] = regions[j - 1]
      BY <2>2, <1>7
    <3>2. ASSUME NEW k \in DOMAIN R, j # k PROVE Pages!Disjoint(R[j], R[k])
      <4>1. CASE k = 1
        BY <4>1, <3>1, <1>4, SMTT(30), SMTT(60) DEF HeapIInv, NoOverlap
      <4>2. CASE k # 1
        <5>1. k - 1 \in DOMAIN regions /\ R[k] = regions[k - 1] /\ k - 1 # j - 1
          BY <4>2, <3>2, <1>4, <1>5, <1>7, SMTT(30), SMTT(60)
        <5> QED BY <5>1, <3>1, SMTT(30), SMTT(60) DEF HeapIInv, NoOverlap
      <4> QED BY <4>1, <4>2, SMTT(30), SMTT(60)
    <3> QED BY <3>1, <3>2, <1>1 DEF HeapIInv, NoOverlap, RegionSizes
  <2> QED BY <2>1, <2>2, SMTT(30), SMTT(60)
<1>9. NoOverlap'
  BY <1>1, <1>8, SMTT(30), SMTT(60) DEF HeapIInv, NoOverlap
<1>10. RegionSizes'
  BY <1>1, <1>8 DEF HeapIInv, RegionSizes
<1>11. Mapped'
  BY <1>1, SMTT(30), SMTT(60) DEF HeapIInv, Mapped
<1> QED BY <1>1, <1>6, <1>9, <1>10, <1>11 DEF HeapIInv

(* A stuttering step keeps the invariant of the heap's page allocator. *)
LEMMA HeapStutterStep == HeapIInv /\ UNCHANGED <<regions, heap_end, mapped, live>> /\ halted' \in BOOLEAN => HeapIInv'
BY DEF HeapIInv, TypeOK, NoOverlap, RegionSizes, Mapped

(* Every step keeps the invariant of the heap's page allocator. *)
LEMMA HeapStepIInv == HeapIInv /\ [Next]_vars => HeapIInv'
<1> SUFFICES ASSUME HeapIInv, [Next]_vars PROVE HeapIInv'
  OBVIOUS
<1>1. ASSUME NEW pages \in RequestSizes, AllocFromList(pages) PROVE HeapIInv'
  BY <1>1, FromListStep
<1>2. ASSUME NEW pages \in RequestSizes, AllocByGrowing(pages) PROVE HeapIInv'
  BY <1>2, GrowingStep
<1>3. ASSUME NEW pages \in RequestSizes, OutOfMemory(pages) PROVE HeapIInv'
  BY <1>3, HeapStutterStep DEF OutOfMemory
<1>4. ASSUME NEW b \in live, liballoc_free(b) PROVE HeapIInv'
  BY <1>4, FreeStep
<1>5. CASE UNCHANGED vars
  BY <1>5, HeapStutterStep DEF vars, HeapIInv, TypeOK
<1> QED BY <1>1, <1>2, <1>3, <1>4, <1>5 DEF Next, list_alloc

(***************************************************************************)
(* With requests of the minimum size, no free region ever overlaps a block  *)
(* in use or another region, and every page of both is mapped.              *)
(***************************************************************************)
THEOREM HeapSafety == Spec => [](TypeOK /\ NoOverlap)
<1>1. Init => HeapIInv
  BY HeapInitIInv
<1>2. HeapIInv /\ [Next]_vars => HeapIInv'
  BY HeapStepIInv
<1>3. HeapIInv => TypeOK /\ NoOverlap
  BY DEF HeapIInv
<1> QED BY <1>1, <1>2, <1>3, PTL DEF Spec

(***************************************************************************)
(* increase_heap_size only maps pages that are not mapped, so map_page's    *)
(* panic on a mapped page cannot come from a growing heap.                  *)
(***************************************************************************)
THEOREM HeapGrowth == Spec => GrowthMapsNewPages
<1> DEFINE Fresh == \A p \in (heap_end + 1) .. heap_end' : p \notin mapped /\ p \in mapped'
<1>1. HeapIInv /\ [Next]_vars => [Fresh]_vars
  <2> SUFFICES ASSUME HeapIInv, Next PROVE Fresh
    OBVIOUS
  <2>1. heap_end \in Nat
    BY DEF HeapIInv, TypeOK
  <2>2. CASE heap_end' = heap_end
    BY <2>1, <2>2
  <2>3. ASSUME NEW pages \in RequestSizes, AllocByGrowing(pages) PROVE Fresh
    BY <2>3, GrowingStep
  <2> QED
    BY <2>2, <2>3 DEF Next, list_alloc, AllocFromList, OutOfMemory, liballoc_free
<1>2. Init => HeapIInv
  BY HeapInitIInv
<1>3. HeapIInv /\ [Next]_vars => HeapIInv'
  BY HeapStepIInv
<1> QED BY <1>1, <1>2, <1>3, PTL DEF Spec, GrowthMapsNewPages

(***************************************************************************)
(* With requests of the minimum size, liballoc_alloc and liballoc_free keep *)
(* the contract of liballoc.h.                                              *)
(***************************************************************************)
THEOREM HeapRefinement == Spec => ImplementsPageProvider
<1>1. Init => Pages!Init
  BY HeapAssumption DEF Init, Pages!Init
<1>2. HeapIInv /\ [Next]_vars => [Pages!Next]_(Pages!vars)
  <2> SUFFICES ASSUME HeapIInv, [Next]_vars PROVE [Pages!Next]_(Pages!vars)
    OBVIOUS
  <2>1. ASSUME NEW b, HandsOut(b) PROVE Pages!Next
    BY <2>1 DEF HandsOut, Pages!Next, Pages!Alloc
  <2>2. ASSUME NEW pages \in RequestSizes, AllocFromList(pages) PROVE Pages!Next
    BY <2>1, <2>2, FromListStep
  <2>3. ASSUME NEW pages \in RequestSizes, AllocByGrowing(pages) PROVE Pages!Next
    BY <2>1, <2>3, GrowingStep
  <2>4. ASSUME NEW pages \in RequestSizes, OutOfMemory(pages) PROVE UNCHANGED Pages!vars
    BY <2>4 DEF OutOfMemory, Pages!vars
  <2>5. ASSUME NEW b \in live, liballoc_free(b) PROVE Pages!Next
    BY <2>5, FreeStep DEF Pages!Next, Pages!Free
  <2>6. CASE UNCHANGED vars
    BY <2>6 DEF vars, Pages!vars
  <2> QED BY <2>2, <2>3, <2>4, <2>5, <2>6 DEF Next, list_alloc
<1>3. Init => HeapIInv
  BY HeapInitIInv
<1>4. HeapIInv /\ [Next]_vars => HeapIInv'
  BY HeapStepIInv
<1> QED BY <1>1, <1>2, <1>3, <1>4, PTL DEF Spec, ImplementsPageProvider, Pages!Spec
=============================================================================
