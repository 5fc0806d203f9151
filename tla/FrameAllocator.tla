--------------------------- MODULE FrameAllocator ---------------------------
(***************************************************************************)
(* The physical frame allocator of lethe-kernel/memory/                     *)
(* initial_frame_allocator.c: a bump allocator over the boot loader's       *)
(* memory map.  It carves frames off one usable entry at a time and, when   *)
(* that entry has less than a frame left, claims the next usable one by     *)
(* overwriting its type with KERNEL_USED.  Frames are never given back.     *)
(***************************************************************************)
EXTENDS Integers, Sequences

CONSTANTS
  PageSize,    \* 4096 in the code
  WordSize,    \* 2^64: lengths are unsigned and wrap
  MemoryMaps   \* the memory maps the boot loader may hand over

USABLE      == "USABLE"       \* LIMINE_MEMMAP_USABLE
KERNEL_USED == "KERNEL_USED"  \* 0xA9
RESERVED    == "RESERVED"     \* every other type

EntryOf(types) == [base : Nat, length : Nat, type : types]

End(e) == e.base + e.length

(* The boot loader's side: usable entries do not overlap, none wraps the    *)
(* address space, and one that starts at address 0 holds the page at 0.     *)
WellFormed(m) ==
  /\ m \in Seq(EntryOf({USABLE, RESERVED}))
  /\ \A i \in DOMAIN m : m[i].type = USABLE =>
       /\ End(m[i]) < WordSize
       /\ m[i].base = 0 => m[i].length >= PageSize
       /\ \A j \in DOMAIN m : j # i /\ m[j].type = USABLE =>
            End(m[i]) <= m[j].base \/ End(m[j]) <= m[i].base

ASSUME PageSizeAssumption == PageSize \in Nat \ {0}
ASSUME WordSizeAssumption == WordSize \in Nat /\ PageSize < WordSize
ASSUME MemoryMapsAssumption == \A m \in MemoryMaps : WellFormed(m)

VARIABLES
  entries,  \* allocator.memory_map: the entries, with their current type
  next,     \* allocator.next: what is left of the entry being carved
  frames,   \* history: the frames returned, in order
  panicked    \* panic() was called

faVars == <<entries, next, frames, panicked>>
-----------------------------------------------------------------------------
Minus(x, y) == IF x >= y THEN x - y ELSE x - y + WordSize

(* Variant: the frame at 0 is not skipped. *)
SkipFrameZero_Kept(f) == f

(* Frame 0 is never handed out: 0 is how allocate_frame reports an          *)
(* uninitialised allocator.                                                 *)
SkipFrameZero(f) ==
  IF f.base = 0
  THEN [base |-> PageSize, length |-> Minus(f.length, PageSize)]
  ELSE f

HasRoom(f) == f.length >= PageSize

(* allocator.next once next_usable has claimed entry e and allocate_frame   *)
(* has looked at it.                                                        *)
Claimed(e) == SkipFrameZero([base |-> e.base, length |-> e.length])

Usable == {i \in DOMAIN entries : entries[i].type = USABLE}

Roomy == {i \in Usable : HasRoom(Claimed(entries[i]))}

(* Variant: a claimed entry keeps its type. *)
ClaimUpTo_Unmarked(i) == entries

(* next_usable claims usable entries in index order, so reaching entry i    *)
(* marks every usable entry up to it.                                       *)
ClaimUpTo(i) ==
  [j \in DOMAIN entries |->
     IF j <= i /\ j \in Usable
     THEN [entries[j] EXCEPT !.type = KERNEL_USED]
     ELSE entries[j]]

(* Return f's first frame and leave the rest of it in allocator.next.       *)
Carve(f) ==
  /\ frames' = Append(frames, f.base)
  /\ next' = [base |-> f.base + PageSize, length |-> Minus(f.length, PageSize)]
-----------------------------------------------------------------------------
(* init_frame_allocator: the first usable entry becomes allocator.next, and *)
(* the kernel panics when there is none.  The flag next.start is TRUE only  *)
(* inside this function, so no later call sees it.                          *)
InitNone(m) ==
  /\ \A i \in DOMAIN m : m[i].type # USABLE
  /\ entries = m
  /\ next = [base |-> 0, length |-> 0]
  /\ panicked = TRUE

InitFirst(m, i) ==
  /\ m[i].type = USABLE
  /\ \A j \in 1..(i - 1) : m[j].type # USABLE
  /\ entries = [m EXCEPT ![i].type = KERNEL_USED]
  /\ next = [base |-> m[i].base, length |-> m[i].length]
  /\ panicked = FALSE

FaInit ==
  /\ frames = <<>>
  /\ \E m \in MemoryMaps : InitNone(m) \/ \E i \in DOMAIN m : InitFirst(m, i)

(* allocate_frame when the current entry still has a frame. *)
FromCurrent ==
  /\ ~panicked
  /\ HasRoom(SkipFrameZero(next))
  /\ Carve(SkipFrameZero(next))
  /\ UNCHANGED <<entries, panicked>>

(* allocate_frame when it has not: next_usable and the recursive call,      *)
(* repeated until an entry has room.                                        *)
FromNextEntry ==
  /\ ~panicked
  /\ ~HasRoom(SkipFrameZero(next))
  /\ \E i \in Roomy :
       /\ \A j \in Roomy : i <= j
       /\ entries' = ClaimUpTo(i)
       /\ Carve(Claimed(entries[i]))
  /\ UNCHANGED panicked

(* allocate_frame when next_usable runs out of entries: panic. *)
NoEntryLeft ==
  /\ ~panicked
  /\ ~HasRoom(SkipFrameZero(next))
  /\ Roomy = {}
  /\ panicked' = TRUE
  /\ UNCHANGED <<entries, next, frames>>

allocate_frame == FromCurrent \/ FromNextEntry \/ NoEntryLeft

FaNext == allocate_frame

FaSpec == FaInit /\ [][FaNext]_faVars
-----------------------------------------------------------------------------
(* The frames the kernel may use: the whole pages of an entry the boot      *)
(* loader marked usable, counted from its base, except the one at 0.        *)
FramesOf(e) ==
  {a \in {e.base + k * PageSize : k \in 0..e.length} :
     a # 0 /\ a + PageSize <= End(e)}

UsableFrames ==
  UNION {FramesOf(entries[i]) :
           i \in {j \in DOMAIN entries : entries[j].type # RESERVED}}

Given == {frames[n] : n \in DOMAIN frames}

(* Every variable has the type its C declaration gives it. *)
FaTypeOK ==
  /\ entries \in Seq(EntryOf({USABLE, KERNEL_USED, RESERVED}))
  /\ next \in [base : Nat, length : Nat]
  /\ frames \in Seq(Nat)
  /\ panicked \in BOOLEAN

(* allocate_frame never returns the same frame twice, even across entries:  *)
(* a frame given to the heap never becomes a page table as well.            *)
NoFrameTwice ==
  \A m, n \in DOMAIN frames : frames[m] = frames[n] => m = n

(* allocate_frame implements FrameSource: it returns only unused frames of  *)
(* usable memory, never frame 0, and it panics only when every one of them  *)
(* has been returned: skipping short entries loses no memory.               *)
Source == INSTANCE FrameSource
            WITH pool <- UsableFrames, given <- Given, exhausted <- panicked

ImplementsFrameSource == Source!Spec
=============================================================================
