# Verification of lethe

lethe is a small x86_64 kernel in C. This directory holds TLA+ models of its
parts, TLC configurations that check them on small instances, and TLAPS proofs
of the main results for every size. The build that is modelled is the
configured one: QEMU, booted by Limine, one processor, `-O2`.

## The system

| part | sources (under `src/`) | state | modules |
|---|---|---|---|
| frame allocator | `lethe-kernel/memory/initial_frame_allocator.c` | the boot loader's memory map, the entry being carved | `FrameSource`, `FrameAllocator` |
| page tables | `lethe-kernel/memory/paging.c` | the tables in memory | `AddressSpace`, `Paging` |
| page allocator | `lethe-kernel/memory/list_allocator.c`, `alloc.c` | list of free regions, end of the heap | `PageProvider`, `ListAllocator`, `UniformRequests` |
| malloc | `lethe-kernel/memory/liballoc.c` | boundary tags, free lists | `Liballoc` |
| ring queue | `lethe-utils/queue.c` | slots, head, tail | `QueueOps`, `Fifo`, `Queue` |
| tasks | `lethe-kernel/cpu/task.c` | current task, two rings, contexts, the stack | `Tasks` |
| sleeping, timers | `lethe-kernel/cpu/sleep.c`, `tsc.c`, `pit.c`, `misc/config.c`, `misc/keyboard.c` | `ticks`, the timer in use | `Sleep` |
| interrupts | `cpu/idt.c`, `cpu/isr.*`, `acpi/ioapic.c`, `lapic.c`, `pci/msi.c` | handler table, masks, flags | `Kernel` |
| boot, halt loop | `kernel.c` | `kexit` | `Kernel` |
| keyboard, shell | `misc/keyboard.c`, `misc/shell.c` | key states, the line buffer | `ShellOps`, `Kernel`; one key in `Sleep` |
| terminal | `terminal/tty.c`, `terminal/pixel.c` | cursor and line | `Tty` |
| PCI, MSI | `pci/pci.c`, `pci/msi.c` | lists of buses, devices and functions, configuration registers | `Pci`, `Ahci` |
| AHCI | `pci/ahci.c` | ports, command slots, the list of disks | `Ahci`; its interrupt at boot in `Kernel` |
| AML parser | `lethe-aml/aml/*.c` | namespaces and their objects | `Aml`, `AmlTerms` |
| hash map | `lethe-utils/hashmap.c` | the table, an iterator | `Map`, `HashMap` |
| printf | `lethe-libc/stdio.c` | the flags, the buffer of digits | `Printf` |
| ACPI tables, GDT/TSS, stack traces, cpio, UEFI loader | | none that changes, or not built / not called | not modelled |

The memory parts stand on each other: malloc takes pages from the page
allocator, which maps them with `map_page`, which takes frames for pages and
tables from the frame allocator. Each layer is checked against an abstract
specification of what it promises, and the layer above uses that
specification and not the code below:

    Liballoc  --uses-->  PageProvider  <--implemented by--  ListAllocator
    Paging    --uses-->  FrameSource   <--implemented by--  FrameAllocator
    Paging    --implements-->  AddressSpace
    Kernel    --uses-->  ShellOps
    Tasks     --uses-->  QueueOps;  Queue --implements--> Fifo
    HashMap   --implements-->  Map
    Ahci      --extends-->  Pci
    AmlTerms  --extends-->  Aml  (how tables are written, against how they are read)

`Aml` keeps the children of a namespace as a function from names: what
`HashMap` is shown to implement.

Interrupts cut across all of it. The kernel has no locks that do anything:
the hooks of malloc's lock are empty, and the handlers of the keyboard and of
the timers change what the interrupted code is reading.

## The modules

Definitions have the names of the C functions where they stand for one. A
definition whose name ends in `_Something` below a comment "Variant" is a
plausible bug in the definition after it; it is used to test that the
properties notice it, and is not part of any specification.

**FrameAllocator.** `entries` is the boot loader's map with the types that the
allocator overwrites; `next` what is left of the entry being carved. One call
of `allocate_frame` is one step (`FromCurrent`, `FromNextEntry`,
`NoEntryLeft`): its recursion only claims entries without room. Lengths wrap at
`WordSize`. The assumption `WellFormed` is the boot loader's side: usable
entries do not overlap, and one that starts at 0 has at least a page.

**ListAllocator.** Addresses are page numbers; the linked list is a sequence of
regions. `AllocFromList` puts the excess where the code puts it, at
`region + excess`. Both loops that map pages have an inclusive bound, so that a
page more is mapped than is given out. `UniformRequests` adds the condition
under which this is right: every request has one size, and the initial heap is
two of them. The code meets it (16 and 32 pages) as long as no single
allocation needs more than 16 pages.

**Liballoc.** `tags` maps addresses to boundary tags; `l_freePages` and
`l_completePages` are the code's. A call is split where an interrupt makes a
difference: the search, taking the tag, splitting, each join, insertion.
`Callers` says whether an interrupt handler allocates too; it runs to its end
before the interrupted code goes on.

**Paging.** Tables are functions from index to entry; an entry has the three
fields the code tests, and `page_size`, which it neither sets nor tests.
`map_page` takes one step per table (`Look`, `__allocate_entry`, `LookLast`,
`SetLast`), and the processor uses any page in between (`Access`), which may set
the dirty bit and load the TLB. The boot loader maps all memory with huge pages,
from `hhdm_mapping` on (`Huge`, `Direct`), and that is where the code looks
devices up and maps them. To the code a huge page is one more table: it takes
the contents of the page for entries. A lookup there may return anything
(`Found`, `FoundFree`); where `map_page` or `unmap_page` would go on to write
through such an entry, `stray` is set and the model ends, since any memory may
have changed. `MapDevice` is the mapping without a look (`init_port`,
`madt_get_lapic_addr`); `madt_get_ioapic` and `get_cmd_table` look first.
`map_contiguous_pages` and `unmap_page` have no caller in the kernel and are
modelled as exported operations. Calls of `map_page` do not interrupt each
other in the model.

**QueueOps, Queue.** The ring as functions of the struct. Slots start with
arbitrary memory (`Junk`). `Full` tests the wrong end of the ring, as the code
does: a ring of any size holds one pointer. `Fifo` is what a queue promises,
whatever it holds: what is taken is what was put first, and only a queue that is
not empty may drop a pointer. That the ring drops one although it is not full is
the run `queue_full`.

**Tasks.** A task pointer is its id; a register context is the task whose code
it is in, and how far that task had got. The saved registers (`isr_stack_t`,
`copy_ctx`) have neither `rsp` nor `ss`, so there is one stack for all tasks:
`stack` has the contexts that wait for a call to return, whichever task called.
When a task returns on top of a frame of another it goes on in that task's code,
and `crossed` is set; the properties that speak of registers hold until then.
`dead` is set where the code dereferences NULL, freed or uninitialised memory.

**Sleep.** Test and `hlt` are two steps. The PIT interrupts again and again,
the TSC deadline once for each deadline.

**ShellOps, Kernel.** The line buffer as functions of its variables, and the
kernel around it. `stack` holds the statements that `kmain` and the handlers
above it have still to execute, one for each that changes state, in the code's
order; `Call` replaces a call by the body of the function. A device may request
an interrupt between any two of them, and the processor takes it before the
next statement if the flag, the APIC and the priority classes allow it. Typing
the name of a function calls it inside the keyboard's handler, where
`enable_pit` and `enable_apic` execute `cli` and `sti`: handlers can nest. An
APIC that is disabled keeps or drops a request, since emulators differ. The
PIT is slower than its handler: the interrupted code gets further between two
ticks. `machine.hoisted` is a compiler that reads `kexit`, which is not
volatile, once for the whole loop. `fault` is where the kernel has called a
missing handler or stored through NULL; the model stops there. A store outside
a buffer that exists stops nothing: the shell goes on, with the cursor where it
is, and `shell.stray` remembers who stored on which side. What such a store does
to the memory beside the buffer is not modelled. The disk controller is one that
the firmware left idle; `Ahci` has the others.

**HashMap.** The table, and `hm_expand` slot by slot. Searches are stated by
where they end (`Search`): the first slot that is empty or holds the key. Every
allocation may fail. The load factor is the exact `4 * count >= 3 * capacity`.
`seen` and `expected` are the history of one iterator. It goes on after an
expansion, with its old index in the new table, as in the code; `rehashed` says
that it has.

**Printf.** One step takes one conversion. `flags` are never cleared between
conversions, as in the code. A number goes through `ntoa_long` (digits in
reverse), `__ntoa` (precision, zeros, prefix, sign) and `print_reverse`
(padding). `Standard` is the reference: the text the C standard asks for.
`Usual` names the cases in which the code is known to differ.

**Tty.** The thread's `tty_putc` is four steps, one of them repeated (the
drawing reads `cursor` and `line` again for every pixel); the keyboard's
handler echoes, deletes or runs a command in between.

**Pci.** The recursion of the scan is a stack (`scan`), one step for each
function that is probed. Buses behind bridges are scanned but, as in the code,
not linked to the root bus, so `locate_pci_device` does not see them.
`get_register_value` reads registers 16 and 17 from the part of the copy that
nobody wrote (`machine.stale`: anything).

**Ahci.** `init_ahci` after the scan: the walk through the capabilities,
`enable_msi` one write at a time, and for each disk `stop_cmd`, `find_cmdslot`,
`get_cmd_table`, the wait for the busy bits, the issue and the poll. The
controller (external) stops its engines, completes old commands and interrupts
between any two of these. The firmware may have left its interrupts enabled
(`machine.ie`, bit 1 of `ghc`) or not; the enable bit of MSI itself is clear when
the kernel starts. A write of 0 to `is` clears nothing.

**Aml, AmlTerms.** A table is a sequence of bytes; a segment of a name is one
number followed by three fillers, since the code only compares whole segments.
One step parses one term; `stack` holds the calls of `parse_termlist`. `trace`
is where terms were found. `AmlTerms` is the other direction: it encodes terms
and says what they mean by the rules of the language, not by what the parser
does (`Meaning`, `Written`, `Starts`). `off` is set by a construct that the code
reads differently from how it is written, `misplaced` by one that it reads
rightly and stores under another path, name or offset (see below). The
properties about reading speak of tables, or beginnings of tables, without the
first, and `ParsedAsWritten` of those without either.

## The runs

A run whose name is that of several parts drives one of them in each
behaviour (`which`); they share no state.

| run | states | what it shows |
|---|---|---|
| `memory` | 147 111 | no frame is given out twice, none outside usable memory; blocks and free regions are disjoint and the heap grows into unmapped pages, for uniform requests; tags tile the blocks, objects do not overlap, free lists are sound, neighbours are joined, the count of whole blocks is right |
| `list_allocator_large` | | **violated** for a request of more than half a region: the excess overlaps the block |
| `liballoc_isr` | | **violated** with a handler that allocates: one object is given to two callers |
| `library` | 1 066 613 | searches in the hash map end, iterations are complete, the map is a map; the ring is a queue, one that may drop what it is given; a switch loses and adds no task and gives each its own registers; numbers are printed as C says and stay in their buffer; the console never draws below the screen, nor to its right by more than a tab per key that interrupts; deleting undoes printing |
| `queue_full` | | **violated** by the second push: a ring that holds one pointer is taken for full |
| `tasks_zombie` | | **violated**: a finished task is freed and still switched to |
| `sleep` | 1 986 | no sleep ends early; on the PIT the wait for a key ends |
| `sleep_tsc` | | **violated** on the TSC deadline: the one interrupt can come between test and `hlt` |
| `kernel` | 267 622 | interrupts find their handlers and what these need, the line stays in its buffer but for two stores that are named, accepted keys are read, `kexit` ends the kernel while the PIT ticks |
| `paging` | 23 187 | until a huge page is taken for a table: the tables are a tree, the lookups of the code agree with the processor outside huge pages, the TLB is never stale, mapping changes one page |
| `aml` | 196 592 | terms are found where they were written, objects end up under the paths they were written for, no namespace replaces another, the sleep registers get the values of the root's `_S5_` |
| `disk` | 162 469 | the scan makes one structure for each function, the search counts every match once, only the MSI capability is written, an interrupt finds its handler unless the firmware let it come too soon, commands go into free slots of stopped ports, `stop_cmd` ends |

Bounds, and why they are enough:

- *Memory maps*: three entries with bases, gaps and lengths around one and two
  pages: all orders of skipped, exact, odd and zero-based entries.
- *Heap*: requests of 2 pages in a heap of 4, as 16 in 32; four growths, so
  that blocks from different growths are freed and reused in any order. The
  large run has requests of 2, 3 and 5 pages.
- *malloc*: tags of 1 byte, quantum 4, blocks of 16 bytes, five pages. Sizes 1,
  5, 8 and 17 reach both small lists, a split, a piece too small to split and a
  block of its own size. `MaxComplete` is 1, so that blocks are given back.
- *Paging*: three levels of two entries, one of them a huge page. A device is
  asked for beside it and one under it, from where the search for a free page
  meets the heap; three frames of RAM run out half way through a mapping.
  Frames of RAM are symmetric: nothing compares them.
- *Queue, tasks*: rings of 5 slots wrap; three tasks, two steps each, two calls
  deep on the stack.
- *Kernel*: three machines (TSC known and the test hoisted, TSC calibrated, PIT
  with a disk controller); four keys are two commands, or twice what a line of 2
  characters holds; three commands that change the machine's configuration. A
  tick that stops after `kexit` takes a third command (`enable_pit`, `kexit`,
  `enable_apic`) and is beyond this bound; `ExitsOnPIT` allows for it all the
  same.
- *Sleep*: every combination of processor features; 3 ticks, 3 rounds.

- *Hash map*: four keys in a table of 4 pass the load factor; three of them
  collide at the last slot, so that searches wrap, and two collide again after
  the expansion. One hash function: the proofs are for all.
- *printf*: types of 2, 3, 4 and 6 bits and a buffer of 5 keep the order of the
  real ones where it matters: a long in base 2 has more digits than the buffer,
  an int has not. (In the code the widest number has 64 digits, the buffer 48.)
  Every set of flags, widths and precisions below, at and above the buffer's
  size, arguments at the ends of the types; pairs of conversions for the flags
  that stay.
- *Console*: 8 columns, 4 rows, two keys during one character.
- *AML*: blocks of one or two terms, or a region and an outer body of up to two
  terms with bodies of their own, with names of every form and lengths of one
  and two bytes.
- *Disk*: two buses deep, bridges as devices and as functions; seven lists of
  capabilities with the odd places among them; two ports with every state the
  firmware can leave the first in, interrupts enabled or not; two slots, two
  polls.

Deadlock is checked in `sleep`. Elsewhere the modelled code really may stop:
after a panic, an exit or a fault, when the boot is over, or when a bound on
steps is used up.

**What `kernel` leaves standing.** Its properties name their exceptions, and
each exception does happen: a PIT tick outstanding when the command
`enable_apic` removes its handler is dispatched through NULL; a key that comes
while `init_shell` has a size and no buffer is stored through NULL; a backspace
on an empty line is stored below the buffer, and so may be what is typed next;
the terminator of a full line is stored above it; `enable_apic` as a command
that finds the TSC unreliable leaves the APIC disabled; without ticks, or with
the test hoisted, `kexit` may go unnoticed. The ticks can stop after `kexit`: an
`enable_apic` that is typed before the loop has seen it masks the PIT, and
`ExitsOnPIT` ends there.
`enable_pit` as a command on a machine that uses the TSC leaves both bits of
`timer_source` set, the value `config.h` calls reserved.

**Fairness.** Only `Sleep`, `Kernel` and `Ahci` assume any. The processor goes
on executing, the PIT goes on interrupting, a deadline that is set passes, and
an AHCI engine whose start bit is cleared stops, as its specification says.
That is what the hardware does. Nothing is assumed of the person at the
keyboard, of a disk's answers or of the controller's interrupts.

## The proofs

TLAPS checks these for every value of the constants that meets the named
assumptions. Each safety theorem comes from an inductive invariant: it holds
at the start, every action keeps it (one lemma per action), and it implies the
property.

**MemoryProofs.**

- `FrameSafety` (no frame twice) and `FrameRefinement` (`FrameAllocator`
  implements `FrameSource`). The invariant says that every frame given out
  comes from an entry that is claimed, and that the entry being carved has
  given out exactly the multiples of the page size before `next.base`. Without
  the second part nothing relates `next` to the history; without the first,
  claiming an entry could repeat frames.
- `HeapSafety` (no overlap), `HeapGrowth` (growth maps new pages) and
  `HeapRefinement` (the contract of malloc's page hooks), from
  `UniformAssumption`. The invariant adds that every region is one or two
  requests long, which is what makes `region + excess` the end of the block,
  and that what is mapped is exactly the pages up to `heap_end`.

**MallocProofs**, on `LiballocProofs`. `LiballocSafety`: the five invariants of
malloc (`Tiling`, `ObjectsSafe`, `FreeListsSound`, `FullyJoined`,
`CompleteCounted`) for any sizes of tags, pages, lists and requests, with one
caller. That hypothesis is necessary: `liballoc_isr` shows what a second caller
does. In the invariant `LibInv`, `Layout` says how the tags lie in the blocks
(each begins where its left neighbour ends, and names it), `Lists` that every
list is a chain without repetition whose `prev` mirrors `next`, `Owned` that a
tag outside all lists is an object or in the hands of the call that is running,
and `Progress` what that call has established at each of its steps.
`LiballocProofs` proves what insertion, removal, splitting and joining do to
chains and tilings of any length, and uses it for the actions that start a call
or take a free tag; `MallocProofs` does the other actions and the theorem. What
they need of the library's theorems (a set of naturals has a least element, how
`Cardinality` changes) is the hypothesis `SetFacts` of their lemmas. The last
lemma, `SetFactsHold`, proves it, so the theorem does not have it: with the
library in scope from the start, checking the two modules takes nearly twice as
long.

**PagingProofs.** `PagingSafety` (`TablesAreATree`, `LookupsAgree`,
`TLBIsFresh`) and `PagingRefinement` (`Paging` implements `AddressSpace`), for
any number of levels and entries, wherever huge pages lie in the boot loader's
tables. All of it holds until the kernel takes a huge page for a table and
writes to it, and `LookupsAgree` is about the pages that are not under one. The
invariant gives every table in use a level (`lvl`): an entry of a table of level
l that is no huge page points to a table of level l - 1 and no two entries point
to the same one, so that writing one entry can change only the pages under it,
and `present` and `address` go together except where the boot loader wrote the
entry. `CallOK` says how far the running `map_page` has come. `PagingAssumption`
is what the kernel is booted with: the boot loader's tables are distinct, lie
outside the memory that `allocate_frame` gives out, and are not mapped as
devices; its huge pages are entries of its own tables above the last level.

**KernelProofs.** `KernelSafety` (`HandlersAreReady`, `LineStaysInBuffer`), for
every machine, any number of keys and every length of the line. The invariant
begins with control: every frame of `stack` is a path through the statements of
its function (`StackOK`), so that the statement about to be executed tells
which ones have been. On that rest what is registered and unmasked by then
(`Interrupts`, `Disk`, `Pit`), which handlers can lie above which (`Nesting`,
with the end-of-interrupt and the flag), and how the cursor of the line relates
to its size and to what has been stored outside (`LineOK`), also after a
backspace has taken it below the buffer.

**AhciProofs.** `AhciSafety` (`WritesOnlyMsi`, `HandlerIsReady`,
`IssuesIntoFreeSlot`), for any list of capabilities (`CapsAssumption`: the links
stay among the capabilities) and any number of ports and slots. The invariant
relates the registers written, the handler and the mapping to the step of
`init_ahci` (`Order`), with firmware that enabled interrupts and without, and
what `stop_cmd` has waited for to the engines, while the controller moves between
any two reads. `ScanSafety` (`EachFunctionOnce`) holds for any tree of buses
(`TopologyAssumption`: a bus is behind one bridge, functions other than 0 only
on devices that say so). Its invariant divides the functions on the buses
numbered so far into those found and those that exactly one call on the stack
of the scan has still to look at; when the stack is empty, what is found is
closed under bridges, and is all that can be reached.

**TasksProofs.** The tasks, and the console and the printing they write with.

- `QueueTypes` and `QueueRefinement`: for every capacity of at least two the
  ring is a queue in the sense of `Fifo`. The invariant (`Ring`): head and tail
  are equal or one slot apart.
- `TaskContexts` (each task has the registers it was interrupted with, until
  some code returns into that of another task) and `SwitchSafety`, for every
  number of tasks and ring size and any depth of the stack: the invariant adds
  the shape of the rings, that a queued task was created, and that a task not
  yet created has not run.
- `DrawnOnScreen` and `DeletionUndoes`, for every size of the screen and any
  number of keys. The invariant says what the tests of `tty_putc` leave true
  until the drawing: the column is off by at most a tab for each key since.
- `PrintfBuffer`: whatever the format, the argument, the width and the
  precision, and whatever flags earlier conversions left, no conversion writes
  behind the buffer of digits. The widths of the types do not matter for it:
  every write is guarded by the buffer's size.

**LibraryProofs.**

- `SearchTerminates`, `IterationIsComplete` and `HashMapRefinement`, for every
  set of keys, every hash function and every number of expansions. The
  invariant's core is `Placed`: the search for a key that is in a table ends at
  that key. `Room` bounds the used slots by `count` and `count` by three
  quarters of the capacity, in both tables; `Moved` says that the new table
  holds exactly the slots below `i`; `Iterating`, that the iterator has
  returned what it has to below its index.
- `NeverWakesEarly`, for every duration and processor. The invariant relates
  `ticks` to the interrupts since the sleep began.

**How induction is done.** The induction theorems of the library take an
operator and cannot be used. The proofs use the same principle for sets: a set
of numbers that is not empty has a least element (`LeastElement`), so a set
that contains 0, and with n also n + 1, contains every number up to any bound
(`InductionUpTo`), and a function that is given by its first value and by the
step from n - 1 to n exists (`RecursionUpTo`). The arguments over levels, lists,
digits and entries rest on these. What is recursive in the code is stated in
this form, too: `Printf`, `Pci` and `Liballoc` use recursive functions and least
elements instead of `RECURSIVE` operators. (The provers' work grows with
everything a module extends. For that reason the modules with large proofs
extend few others, and `LocatesInOrder` is in `MCAhci`. A leaf that cites `SMTT`
twice asks for a second attempt: `tlapm` gives up translating an obligation
after five seconds, and how long that takes varies from run to run.)

Only model-checked:

- the liveness properties `KeyWaitEndsOnPIT`, `KeyIsRead`, `ExitsOnPIT` and
  `StopEnds`: the prover does not do fairness;
- `PrintsAsC`: it compares digit by digit with powers of the base, about which
  the prover knows nothing, not even that they are numbers;
- `LocatesInOrder`: it compares the nested recursion of `search_bus_for_match`
  with a filter of the concatenated lists (`FlattenSeq`, `SelectSeq`), which
  are recursive too, and of which the library states no theorems to start from;
- the four properties of the AML parser, which is recursive over byte strings
  and keeps its `RECURSIVE` operators;
- the five runs that end in a violation.

## Disagreements found

Five runs end in a violation; each states what a comment or header of the
repository says. `list_alloc` computes the excess region from the wrong end
(`list_allocator.c:95`); the lock of malloc does nothing although a handler
allocates (`alloc.c:25`); a ring that holds one pointer is taken for full and
drops the next (`queue.c:14`); a task that finishes is freed and stays in the ring
(`task.c:126`); `ksleep` can halt for ever on the TSC deadline (`sleep.c:41`).

The properties name further behaviour that nothing in the repository
contradicts in words; it happens in the models as in the code:

- *printf*: flags stay for the conversions that follow; the least int and a
  full buffer lose sign or digits; a precision is ignored in a left-justified
  field; `#` with as many digits as the field is wide replaces digits.
- *Console*: a key handled while a character is drawn can move it to the right
  of the screen.
- *AML*: the terms of a true `If` and of an `Else` are read from their length
  on, and an `Else` ends by the length of the `If`; `CreateWordField` runs into
  the case after it; `locate_object` changes the name it is given. These set
  `off`. Others are stored elsewhere (`misplaced`): every mutex under one
  key, fields behind the first at the wrong offset, a device for which one of
  the same name is found further up, what is declared by a path whose first
  segment is found further up, and names in packages that refer to something
  above the scope they are in; index fields and processors are skipped.
- *PCI*: what is behind a bridge is scanned and never found again; with a host
  bridge of several functions the host gets several structures; a capability
  in registers 0x10 or 0x11 is read from memory that nobody wrote.
- *AHCI*: `port->is = 0` clears nothing, so a stale error ends in a panic and a
  stale FIS in a halt; the command is issued to a stopped engine, since nobody
  calls `start_cmd`, and the poll need not end; `map_page` panics when the
  command list is in a page that is mapped. Where the firmware left interrupts
  enabled, one that comes after MSI is enabled (`msi.c:39`) is called through
  NULL until the handler is registered, and panics until `abar` is mapped.
- *Page tables*: at `hhdm_mapping`, where devices are looked up and mapped
  (`madt.c:52`, `madt.c:95`, `ahci.c:274`, `ahci.c:363`), the code may come by a
  huge page of the boot loader and read or write its contents as entries.
- *Tasks*: all run on one stack, and a task that returns may go on in another.
- *Hash map*: an iterator that is used after an expansion may repeat or miss
  keys; no caller does that.

## Not modelled

- `map_page` interrupted by a handler that makes the heap grow
  (`paging.c:158`). Its cause, the lock that does nothing, is shown one layer
  up by `liballoc_isr`.
- The kernel does not call the AML parser at present (`acpi.c:75`), so `Kernel`
  and `Aml` are not composed.
- Input that is read once and kept: ACPI tables, the MCFG list, CPUID, the
  scan code tables. Descriptor tables: bit layouts loaded once.
- Output: pixels, the wording of messages, `debug_pci`, `debug_namespace`,
  `hm_debug`. Stack traces only read.
- Code that nothing calls: `getch` (only from `shell_prompt_hex`, which has no
  caller), `start_cmd`, `test_ahci`, `task_loop`, the resizable queue, the
  linked list, `fnv_32a_*`, `cpio.c`, `usermode.asm`.
- The memory and string functions of libc: they copy and compare bytes, and
  are one assignment or one comparison in the modules that use them.
- The UEFI loader (not built), the configurator (a build tool) and the AML
  driver for the host (it only calls the parser).
