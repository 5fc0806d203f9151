------------------------------- MODULE Paging -------------------------------
(***************************************************************************)
(* The page tables (lethe-kernel/memory/paging.c) and the ways the kernel   *)
(* changes them: the heap grows by a page (alloc.c, list_allocator.c) and   *)
(* devices are mapped (madt.c, ahci.c).                                     *)
(*                                                                         *)
(* Addresses are counted in pages of 4096 bytes.  A table has Fanout (512)  *)
(* entries and a page is reached through Levels (4) tables, which the code  *)
(* writes out one by one and the model indexes by level, 1 being the table  *)
(* whose entries are pages.  Of an entry's flags these are kept: present,   *)
(* which every caller passes, unused_1, which set_entry always sets and     *)
(* which is the processor's dirty bit, and page_size, which the code never  *)
(* sets or tests and which makes an entry above level 1 a huge page.        *)
(*                                                                         *)
(* The boot loader maps all memory with huge pages, from hhdm_mapping on,   *)
(* and devices are looked up and mapped there.  To the code a huge page is  *)
(* one more table: it reads what is in the memory of the page, and may      *)
(* write there.  A lookup may then return anything; a store that goes       *)
(* astray so is marked (stray), may have changed anything, and ends what    *)
(* the model says.                                                          *)
(*                                                                         *)
(* map_page takes a step per table: it may run out of memory half way, and  *)
(* the processor uses the tables all the while.  Nothing interrupts one     *)
(* call with another: the handlers that could grow the heap are kept out.   *)
(***************************************************************************)
EXTENDS Integers, Functions

CONSTANTS
  Levels, Fanout,
  Root,         \* the frame of the top table, from cr3
  RAM,          \* the frames allocate_frame may return
  Devices,      \* the frames of memory-mapped devices
  BootTables,   \* the tables of the boot loader, by level
  BootFrame,    \* the frame and
  BootPage,     \* the page of the kernel itself
  HHDM,         \* hhdm_mapping: the page frame 0 is mapped at
  Huge,         \* the huge pages of the boot loader: the frame in each such entry of its tables,
  Direct,       \* and the frame of each page under them
  HeapPages,    \* the pages the heap grows into, from the lowest on
  Requests      \* the pages and frames that devices are asked to be mapped at

(* The pages that one table of level l maps, all the way down. *)
PagesUnder[l \in 0 .. Levels] == IF l = 0 THEN 1 ELSE Fanout * PagesUnder[l - 1]

Pages == 0 .. (PagesUnder[Levels] - 1)
Indices == 0 .. (Fanout - 1)
Below == 1 .. (Levels - 1)

BootRange == {BootTables[l] : l \in Below}
Tables == RAM \union {Root} \union BootRange
AllFrames == Tables \union Devices \union {BootFrame}

(* Frame 0 is what an empty entry refers to.  Usable memory, the tables of  *)
(* the boot loader, the kernel and the devices are in different places.     *)
ASSUME PagingAssumption ==
  /\ Levels \in Nat /\ Levels > 1
  /\ Fanout \in Nat \ {0}
  /\ Devices \subseteq Nat
  /\ 0 \notin AllFrames
  /\ \A k, l \in Below : BootTables[k] = BootTables[l] => k = l
  /\ RAM \intersect BootRange = {} /\ Root \notin RAM \union BootRange
  /\ (Devices \union {BootFrame}) \intersect Tables = {}
  /\ {BootPage, HHDM} \union HeapPages \subseteq Pages
  /\ Requests \subseteq Pages \X Devices
  /\ DOMAIN Huge \subseteq (BootRange \ {BootTables[1]}) \X Indices
  /\ \A h \in DOMAIN Huge : Huge[h] \in AllFrames \union {0}
  /\ Direct \in [Pages -> AllFrames]

VARIABLES
  mem,     \* the tables, by the frame they are in
  given,   \* the frames allocate_frame has returned
  heap_end,  \* the last page of the heap
  op,      \* the call of map_page that is under way
  tlb,     \* the translations the processor remembers
  halted,  \* the kernel panicked
  stray    \* the kernel took a huge page for a table and went on to write to it

vars == <<mem, given, heap_end, op, tlb, halted, stray>>

Source == INSTANCE FrameSource WITH pool <- RAM, exhausted <- halted
-----------------------------------------------------------------------------
(* The index of page v into a table of level l: nine bits of the address. *)
Index(v, l) == (v \div PagesUnder[l - 1]) % Fanout

EmptyEntry == [present |-> FALSE, unused_1 |-> FALSE, page_size |-> FALSE, address |-> 0]
EmptyTable == [i \in Indices |-> EmptyEntry]

(* What is in a frame that nobody has cleared. *)
DirtyTable ==
  [i \in Indices |-> [present |-> TRUE, unused_1 |-> TRUE, page_size |-> FALSE, address |-> Root]]

set_entry(m, t, i, a) ==
  [m EXCEPT ![t][i] = [present |-> TRUE, unused_1 |-> TRUE, page_size |-> FALSE, address |-> a]]

(* The table that the entry for page v of table t of level l refers to; a   *)
(* huge page is none.                                                       *)
Address(m, t, v, l) == IF t = 0 \/ m[t][Index(v, l)].page_size THEN 0 ELSE m[t][Index(v, l)].address

(* The tables on the way to page v, 0 where an address on the way is 0. *)
Walk(m, v) ==
  LET table[l \in 1 .. Levels] ==
        IF l = Levels THEN Root ELSE Address(m, table[l + 1], v, l + 1)
  IN  table

Entry(m, t, v) ==
  IF t = 0 \/ m[t][Index(v, 1)].address = 0 THEN EmptyEntry ELSE m[t][Index(v, 1)]

get_entry(m, v) == Entry(m, Walk(m, v)[1], v)

is_free(m, v) == ~get_entry(m, v).unused_1

virtual_to_physical(m, v) == get_entry(m, v).address

(* What the processor does: it follows present entries only, down to a      *)
(* page or a huge page.                                                     *)
Leads(e) == e.present /\ ~e.page_size

NextTable(m, t, v, l) ==
  IF t = 0 \/ ~Leads(m[t][Index(v, l)]) THEN 0 ELSE m[t][Index(v, l)].address

Reached(m, v) ==
  LET table[l \in 1 .. Levels] ==
        IF l = Levels THEN Root ELSE NextTable(m, table[l + 1], v, l + 1)
  IN  table

UnderHuge(m, v) ==
  LET way == Reached(m, v)
  IN  \E l \in 2 .. Levels : way[l] # 0 /\ m[way[l]][Index(v, l)].page_size

PresentAddress(m, t, v) ==
  IF t = 0 \/ ~m[t][Index(v, 1)].present THEN 0 ELSE m[t][Index(v, 1)].address

Small(m, v) == PresentAddress(m, Reached(m, v)[1], v)

Physical(m, v) == IF UnderHuge(m, v) THEN Direct[v] ELSE Small(m, v)

Translation(m) == [v \in {p \in Pages : Physical(m, p) # 0} |-> Physical(m, v)]

(* What the kernel's lookups may return: under a huge page, anything. *)
Found(v) == IF UnderHuge(mem, v) THEN AllFrames \union {0} ELSE {virtual_to_physical(mem, v)}

FoundFree(v) == IF UnderHuge(mem, v) THEN BOOLEAN ELSE {is_free(mem, v)}
-----------------------------------------------------------------------------
Idle ==
  [pc |-> "idle", page |-> 0, frame |-> 0, left |-> 0, grow |-> FALSE,
   level |-> Levels, table |-> Root]

(* The start of a call of map_page, or of n calls in a row; g says whether  *)
(* it is the heap that grows.                                               *)
Call(v, f, n, g) ==
  [pc |-> "look", page |-> v, frame |-> f, left |-> n, grow |-> g,
   level |-> Levels, table |-> Root]

At(pc) == ~halted /\ ~stray /\ op.pc = pc

(* The boot loader has mapped the kernel, and memory with huge pages. *)
BootEntry(t, i) ==
  \/ t = Root /\ i = Index(BootPage, Levels)
  \/ \E l \in Below : t = BootTables[l] /\ i = Index(BootPage, l)

BootTarget(t) ==
  IF t = Root THEN BootTables[Levels - 1]
  ELSE IF t = BootTables[1] THEN BootFrame
  ELSE BootTables[(CHOOSE l \in Below : t = BootTables[l]) - 1]

Init ==
  /\ \E dirty \in BOOLEAN :
       mem = [t \in Tables |->
                IF t \in RAM THEN DirtyTable
                ELSE [i \in Indices |->
                        IF BootEntry(t, i)
                        THEN [present |-> TRUE, unused_1 |-> dirty, page_size |-> FALSE, address |-> BootTarget(t)]
                        ELSE IF <<t, i>> \in DOMAIN Huge
                        THEN [present |-> TRUE, unused_1 |-> dirty, page_size |-> TRUE, address |-> Huge[<<t, i>>]]
                        ELSE EmptyEntry]]
  /\ given = {}
  /\ heap_end = BootPage
  /\ op = Idle
  /\ tlb = {}
  /\ halted = FALSE /\ stray = FALSE

(* allocate_frame clears the frame it returns. *)
Allocated(f) == Source!Take(f) /\ mem' = [mem EXCEPT ![f] = EmptyTable]

(* increase_heap_size: a frame for the page after heap_end.  heap_end moves *)
(* when the page is mapped.                                                 *)
NextHeapPage == {v \in HeapPages : v > heap_end /\ \A w \in HeapPages : w > heap_end => w >= v}

MapHeapPage ==
  /\ At("idle")
  /\ \E v \in NextHeapPage :
       \/ \E f \in RAM : Allocated(f) /\ op' = Call(v, f, 1, TRUE)
       \/ Source!Exhaust /\ UNCHANGED <<mem, op>>
  /\ UNCHANGED <<heap_end, tlb, stray>>

(* madt_get_lapic_addr and init_port map a device without a look, be the    *)
(* page mapped or not.                                                      *)
MapDevice(v, d) ==
  /\ At("idle")
  /\ op' = Call(v, d, 1, FALSE)
  /\ UNCHANGED <<mem, given, heap_end, tlb, halted, stray>>

(* madt_get_ioapic does unless the page is mapped, to whatever it is; and   *)
(* get_cmd_table unless it is mapped to the frame.                          *)
madt_get_ioapic(v, d) == 0 \in Found(v) /\ MapDevice(v, d)

get_cmd_table(v, d) == Found(v) # {d} /\ MapDevice(v, d)

(* The page of address 0 or of frame 0 is not given to a device. *)
NearestStart(v) == IF v \in {0, HHDM} THEN v + 1 ELSE v

(* The first page from there on that virtual_to_physical does not know. *)
map_page_nearest(v, d) ==
  /\ At("idle")
  /\ \E w \in Pages :
       /\ w >= NearestStart(v)
       /\ 0 \in Found(w)
       /\ \A u \in NearestStart(v) .. (w - 1) : Found(u) # {0}
       /\ op' = Call(w, d, 1, FALSE)
  /\ UNCHANGED <<mem, given, heap_end, tlb, halted, stray>>

(* get_free_region: a page that is not free moves the search past it. *)
FreeRegion(v, n) ==
  /\ v + n - 1 \in Pages
  /\ \A u \in v .. (v + n - 1) : TRUE \in FoundFree(u)

TakenRegion(v, n) == \E u \in v .. (v + n - 1) : u \in Pages /\ FALSE \in FoundFree(u)

map_contiguous_pages(v, d, n) ==
  /\ At("idle")
  /\ \E w \in Pages :
       /\ w >= v
       /\ FreeRegion(w, n)
       /\ \A u \in v .. (w - 1) : TakenRegion(u, n)
       /\ op' = Call(w, d, n, FALSE)
  /\ UNCHANGED <<mem, given, heap_end, tlb, halted, stray>>
-----------------------------------------------------------------------------
EntryOf == mem[op.table][Index(op.page, op.level)]

(* Above level 1: follow the entry if it is present, be it a table or not. *)
Look ==
  /\ At("look")
  /\ op.level > 1
  /\ CASE Leads(EntryOf) -> op' = [op EXCEPT !.level = @ - 1, !.table = EntryOf.address] /\ stray' = stray
       [] ~EntryOf.present -> op' = [op EXCEPT !.pc = "allocate"] /\ stray' = stray
       [] OTHER -> stray' = TRUE /\ op' = op
  /\ UNCHANGED <<mem, given, heap_end, tlb, halted>>

(* Variant: the new table is not cleared. *)
__allocate_entry_Dirty ==
  /\ At("allocate")
  /\ \/ \E f \in RAM :
          /\ Source!Take(f)
          /\ mem' = set_entry(mem, op.table, Index(op.page, op.level), f)
          /\ op' = [op EXCEPT !.pc = "look"]
     \/ Source!Exhaust /\ UNCHANGED <<mem, op>>
  /\ UNCHANGED <<heap_end, tlb, stray>>

(* __allocate_entry: a new table, entered where it was missing. *)
__allocate_entry ==
  /\ At("allocate")
  /\ \/ \E f \in RAM :
          /\ Source!Take(f)
          /\ mem' = set_entry([mem EXCEPT ![f] = EmptyTable],
                              op.table, Index(op.page, op.level), f)
          /\ op' = [op EXCEPT !.pc = "look"]
     \/ Source!Exhaust /\ UNCHANGED <<mem, op>>
  /\ UNCHANGED <<heap_end, tlb, stray>>

(* Variant: a mapped page is mapped again. *)
LookLast_Unchecked ==
  /\ At("look")
  /\ op.level = 1
  /\ op' = [op EXCEPT !.pc = "set"]
  /\ UNCHANGED <<mem, given, heap_end, tlb, halted, stray>>

(* At level 1: a page that is mapped already is a panic. *)
LookLast ==
  /\ At("look")
  /\ op.level = 1
  /\ IF EntryOf.present
     THEN halted' = TRUE /\ UNCHANGED op
     ELSE halted' = halted /\ op' = [op EXCEPT !.pc = "set"]
  /\ UNCHANGED <<mem, given, heap_end, tlb, stray>>

(* The entry is written and the page flushed; map_contiguous_pages goes on. *)
SetLast ==
  /\ At("set")
  /\ mem' = set_entry(mem, op.table, Index(op.page, 1), op.frame)
  /\ tlb' = {e \in tlb : e[1] # op.page}
  /\ heap_end' = IF op.grow THEN op.page ELSE heap_end
  /\ op' = IF op.left = 1 THEN Idle ELSE Call(op.page + 1, op.frame + 1, op.left - 1, FALSE)
  /\ UNCHANGED <<given, halted, stray>>

(* Variant: only the present bit is cleared. *)
unmap_page_PresentOnly(v) ==
  /\ At("idle")
  /\ Reached(mem, v)[1] # 0
  /\ mem' = [mem EXCEPT ![Reached(mem, v)[1]][Index(v, 1)].present = FALSE]
  /\ tlb' = {e \in tlb : e[1] # v}
  /\ UNCHANGED <<given, heap_end, op, halted, stray>>

(* Variant: the page is not flushed. *)
unmap_page_NoFlush(v) ==
  /\ At("idle")
  /\ Reached(mem, v)[1] # 0
  /\ mem' = [mem EXCEPT ![Reached(mem, v)[1]][Index(v, 1)] = EmptyEntry]
  /\ UNCHANGED <<given, heap_end, op, tlb, halted, stray>>

(* Nothing to unmap unless every table on the way is present. *)
unmap_page(v) ==
  /\ At("idle")
  /\ Reached(mem, v)[1] # 0
  /\ mem' = [mem EXCEPT ![Reached(mem, v)[1]][Index(v, 1)] = EmptyEntry]
  /\ tlb' = {e \in tlb : e[1] # v}
  /\ UNCHANGED <<given, heap_end, op, halted, stray>>

(* The same, of a page under a huge page. *)
UnmapHuge(v) ==
  /\ At("idle")
  /\ UnderHuge(mem, v)
  /\ stray' = TRUE
  /\ UNCHANGED <<mem, given, heap_end, op, tlb, halted>>

(* The processor uses a page, marks it dirty if it writes, and remembers    *)
(* where it is.  It may forget any other page, and one remembered page is   *)
(* as good as many: every flush is of one page.  Nobody looks at the dirty  *)
(* bit of a huge page.                                                      *)
Access(v) ==
  /\ ~halted /\ ~stray
  /\ Physical(mem, v) # 0
  /\ IF UnderHuge(mem, v)
     THEN mem' = mem
     ELSE mem' \in {mem, [mem EXCEPT ![Reached(mem, v)[1]][Index(v, 1)].unused_1 = TRUE]}
  /\ tlb' = {<<v, Physical(mem, v)>>}
  /\ UNCHANGED <<given, heap_end, op, halted, stray>>

Next ==
  \/ MapHeapPage \/ Look \/ __allocate_entry \/ LookLast \/ SetLast
  \/ \E r \in Requests :
       \/ MapDevice(r[1], r[2]) \/ madt_get_ioapic(r[1], r[2]) \/ get_cmd_table(r[1], r[2])
       \/ map_page_nearest(r[1], r[2])
       \/ r[2] + 1 \in Devices /\ map_contiguous_pages(r[1], r[2], 2)
  \/ \E v \in Pages : unmap_page(v) \/ UnmapHuge(v) \/ Access(v)

Spec == Init /\ [][Next]_vars
-----------------------------------------------------------------------------
TypeOK ==
  /\ mem \in [Tables -> [Indices -> [present : BOOLEAN, unused_1 : BOOLEAN, page_size : BOOLEAN,
                                     address : AllFrames \union {0}]]]
  /\ given \subseteq RAM
  /\ heap_end \in Nat
  /\ op \in [pc : {"idle", "look", "allocate", "set"}, page : Pages, frame : AllFrames \union {0},
             left : Nat, grow : BOOLEAN, level : 1 .. Levels, table : Tables]
  /\ tlb \subseteq Pages \X AllFrames
  /\ halted \in BOOLEAN /\ stray \in BOOLEAN

(* Mapping a page changes that page and no other, a page is never mapped    *)
(* over the top of another mapping, and unmapping takes away one page,      *)
(* until map_page or unmap_page takes a huge page for a table.              *)
Space == INSTANCE AddressSpace WITH
  space <- Translation(mem), lost <- stray, Frames <- RAM \union Devices \union {BootFrame}, Loaded <- AllFrames

ImplementsAddressSpace == Space!Spec

(* The entries the processor can come by, above level 1. *)
Links(m) ==
  UNION {{<<Reached(m, v)[l], Index(v, l)>> : l \in {k \in 2 .. Levels : Reached(m, v)[k - 1] # 0}} :
         v \in Pages}

(* The tables are a tree: no table is entered twice, and no table is also   *)
(* mapped, as a page of its own, as memory that somebody else writes to     *)
(* (the boot loader's huge pages hold all memory, the tables included).     *)
TablesAreATree ==
  ~stray =>
    /\ TypeOK
    /\ LET links  == Links(mem)
           tables == {mem[e[1]][e[2]].address : e \in links}
       IN  /\ \A d, e \in links : mem[d[1]][d[2]].address = mem[e[1]][e[2]].address => d = e
           /\ \A v \in Pages : Small(mem, v) \notin tables \union {Root}

(* virtual_to_physical, which looks at addresses, and is_free, which looks  *)
(* at unused_1, both agree with the processor, which looks at present, for  *)
(* every page that is not under a huge page; for is_free this is so only of *)
(* the pages the kernel has mapped, since the boot loader leaves clear what *)
(* is the dirty bit to the processor.                                       *)
LookupsAgree ==
  ~stray =>
    LET space == Translation(mem)
    IN  \A v \in Pages :
          ~UnderHuge(mem, v) =>
            /\ virtual_to_physical(mem, v) = IF v \in DOMAIN space THEN space[v] ELSE 0
            /\ v # BootPage => (is_free(mem, v) <=> v \notin DOMAIN space)

(* The processor never uses a translation that is out of date. *)
TLBIsFresh == ~stray => \A e \in tlb : Physical(mem, e[1]) = e[2]
=============================================================================
