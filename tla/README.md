# A TLA+ model of devOS

devOS is a small x86-64 kernel for one CPU with its own boot loader. This
directory holds TLA+ modules translated from its C sources, TLC configurations
that check them on small instances, and TLAPS proofs for every value of the
constants. `PROJECT.json` lists components, runs, mutants, the map from
definitions to source lines, findings, hazards and theorems.

To check a run: `tlc -config MCBuddy.cfg MCBuddy` (and likewise for the others).
To check the proofs: `tlapm M.tla` for each module `M` whose name ends in `Proofs`.

## 1. The system

The boot goes through these parts in order; afterwards only the scheduler runs.

| Part | Source | Modules | What is hard |
|---|---|---|---|
| FAT reader, boot loader | `boot/` | `Fat` | failing reads and the FAT cache, damaged chains, path components |
| E820 map | `arch/x86/e820.c` | `MemoryMap`, `E820` | overlapping and touching entries, full tables |
| Boot allocator | `arch/x86/bootmem.c` | `Bootmem`, used by `Vmm` and `BootMemory` | holes, unaligned entries, `vmm_map` allocating while it maps |
| Virtual memory | `arch/x86/vmm.c` | `PageTables`, `Vmm`, used by `BootMemory` and `UserSpace` | which allocator serves which phase, partial failure, ownership on destroy |
| Page map, release to buddy | `mm/mem.c`, `mm/buddy.c`, `kernel/entry.c` | `BootMemory` | every page has one owner; order of the handoffs |
| Buddy allocator | `mm/buddy.c` | `Buddy`, `PageAllocator` | split and merge keep lists and states consistent |
| Tasks, scheduler, exceptions | `sched/`, `kernel/entry.c`, `arch/x86/isr.*`, `irq.c`, `lib/panic.c` | `Sched`, `SchedShare` | first quantum, failures half way, fairness, overflow, trap gates |
| Interrupt controllers | `arch/x86/pic.c`, `irq.c` | `SchedPic` | the end of interrupt comes after the task switch |
| Log, consoles | `lib/printk.c`, `driver/` | `Printk`, `Console` | formatting limits, chunks, cursor, a tick inside a message |

How they are put together: `E820` establishes `WellFormed` memory maps, which are
what `BootMemory` starts from. `BootMemory` composes the page pool, the page table
code, `mem_init` and the E820 scan of `buddy_init`, and ends in the kind of state
`Buddy` starts from (some set of pages released). `Buddy` implements
`PageAllocator`, the contract from which `Vmm` takes its `alloc_pages` and
`free_pages` in `UserSpace`. `SchedPic` composes the scheduler with the interrupt
controllers and implements `Sched`. `Console` takes the text of messages as given;
`Printk` is about how that text is made.

The modules `MC...` hold the constants of the runs. Section 9 sums up what is
proved, what is only model-checked, and what a later proof would need.

## 2. Buddy: the page allocator

`Buddy.tla` models `mm/buddy.c`. The fields of `struct page` are the functions
`state`, `order`, `prev`, `next` over page frame numbers; `free_matrix` holds the
list heads; pointers are page frame numbers and `NULL` is -1. The lists are the
code's doubly linked ones, not sets, because the faults to look for are in the
links. `pc` and `page` are the position and the local variable of the running
call; calls do not overlap, since the allocator only runs with interrupts off.

| Action | Code |
|---|---|
| `GroupSkip`, `GroupBlock`, `GroupDone` | the grouping loop of `buddy_init`, one step per block, and its final check |
| `alloc_pages_bad_order`, `alloc_pages_none`, `alloc_pages` | the order check, the failing search, the search with `pop_free` |
| `AllocSplit`, `AllocReturn` | one iteration of the split loop with its panic; the return |
| `free_pages`, `MergeRight`, `MergeLeft`, `FreeInsert` | the entry with its early return, one merge, the final `insert_free` |

`Init` is the state after the E820 scan (section 5 models the scan): the pages of
some set in `RamSets` are `PG_BUDDY` of order 0, the others `PG_RESERVED`. `GroupDone`
compares with the size of that set; that the sum the scan takes is just this size is
part of `ReleasedExactly` in section 5. Callers
free only blocks they were given (`held`), which is what `vmm_destroy_user_pml4`
is meant to do; a free of anything else returns early unless its state is
`PG_ALLOCATED`.

**The left merge.** When the buddy of a freed block is on its left, `free_pages`
calls `remove_free(page)` on the block being freed, which is on no list, instead
of on the buddy. The buddy stays on the list of its old order and is linked a
second time by `insert_free`. The ghost `left_merged` records that this has
happened. Two runs show what follows from it, each with four pages:

* `buddy_lists`: a free list starts with a page that is allocated, so the next
  allocation hands it out a second time;
* `buddy_tail`: the assertion in the split loop fails, and the kernel panics.

In the kernel as it is, `free_pages` is reached only from
`vmm_destroy_user_pml4`, which nothing calls yet. Every other guarantee except
`OnlyRam` is claimed up to the first left merge.

Runs:

* `buddy`: 8 pages, orders 0 to 2, three memory maps (everything; a hole where
  kernel and pool are; unaligned ends). Eight pages hold two blocks of the largest
  order, so merging stops at the cap with a free neighbour present, and lists get
  three pages and more, so that first, middle and last are removed. States are
  explored up to the first left merge (constraint `UpToLeftMerge`).
* `buddy_all`: 3 pages, no constraint. Corrupted lists multiply the states (four
  pages have more than 90 million); three already give left merges, pages on two
  lists, double allocation and the panics after them.

Properties: `Partition` (each RAM page is in exactly one block, the allocated
blocks are those callers hold), `FreeListsExact` (walking a list ends and meets
exactly the free blocks of its order, also between two iterations of a loop),
`Coalesced`, `SplitFindsTail`, `GroupingAccounts`, `OnlyRam`, and `KeepsContract`:
`Buddy` implements `PageAllocator`, the abstract contract of an allocator, with
`broken <- left_merged`. The contract says that it lapses at that event, so it is
kept by behaviours that reach it as well.

The proofs are for every `NrPages`, `MaxOrder` and `RamSets`. `BuddyProofs` holds
`RamCorrect`, what `insert_free`, `remove_free` and `pop_free` do to well-linked lists,
what each operation does to the blocks, and the theorems from `BuddyInv`;
`BuddyFreeProofs` is about cycles, walks along the lists, alignment, merging and grouping.

* `RamCorrect`: `Spec => [](TypeOK /\ OnlyRam)`, left merges included. `OnlyRam`
  speaks of the block of every RAM page, not only of heads, so that it survives
  corrupted lists; the inductive invariant `RamInv` adds that list heads, `next`
  pointers and the page a call has in hand are RAM.
* `BlocksCorrect`: `Spec => [](Partition /\ SplitFindsTail)`. `BuddyInv` adds, up to
  the first left merge, that the inner pages of a block are tails and each tail is
  inside a block (`TailsOK`, `Covered`), that the lists are well linked and hold
  free heads of their order only (`LinksOK`: without it a pop could return an
  allocated page), that the page in hand is on no list, that every other free
  head is on one (`Complete`: without it `remove_free` could miss an absorbed
  block), and that what the grouping loop has not reached is untouched.
* `TypesCorrect` and `SplitsCorrect` state the parts `TypeOK` and `SplitFindsTail`
  of these by themselves.
* `ContractKept`: `Spec => KeepsContract`, by mapping each step to `Alloc`, `Free`,
  `Lapse` or a stutter, from the same invariant.

* `ListsCorrect`: `Spec => []FreeListsExact`. `LinksOK` is about a page and its
  neighbours, and would allow a cycle that no list head leads to. The invariant
  `FreeInv` adds `Ranked`: some numbering of the pages falls along `next`. With it a
  walk cannot meet a page twice, so it ends within `NrPages` steps, and going back
  along `prev` from any free head leads to the head of its list.
* `CoalescedCorrect`: `Spec => []Coalesced`. `FreeInv` adds that heads are aligned to
  their size (`Aligned`) and that no two free blocks in the lists are halves of one
  (`Unpaired`), which in the middle of `free_pages` says nothing about the block in
  hand. That it holds when grouping ends needs that each block was the largest that
  fits its place (`Largest`).
* `GroupingCorrect`: `Spec => []GroupingAccounts`. `accounted` is the number of RAM
  pages below the page the loop has reached (`Grouped`).

The invariants of the model that walk a list or sum over blocks need induction over
data. The library's induction theorems cannot be used here, but its least-number
principle can be stated for sets: `LeastNat` and `UpTo` in `BuddyFreeProofs`. All safety
properties of `Buddy` are thereby proved.

## 3. Sched: tasks, scheduler, exceptions, interrupt controllers

`Sched.tla` models `sched/sched.c`, the task part of `kernel/entry.c`, and the
dispatch in `isr.c`, `irq.c` and `panic.c`. `tstate`, `priority`, `vtime` and `ctx`
are fields of `tasks[]`. A register context is a record: `mode` (user code, the
panicking handler, ...), `task` (whose computation it is) and `pc` (how far that
has got, up to `MaxSteps`). `cpu` is the context in the registers, `cr3` the page
table in use. The ghosts `done` and `early` count the steps a task has executed, ever
and before the first interrupt. The pid and the list of a task's pages are left out:
only `task_alloc_pages` reads the list, and nothing the pid.

| Action | Code |
|---|---|
| `make_task` | `make_task`: `create_task`, `vmm_set_table`, `task_alloc_pages`, `vmm_map`, `memcpy`, `run_task` |
| `make_task_none`, `make_task_no_table`, `make_task_no_pages`, `make_task_not_mapped` | its failures: no slot; no page for the PML4; no task pages; no page for a page table |
| `enter_task` | `enter_task(A)`, with the fault when `A` is NULL |
| `UserStep` | user code |
| `Irq` | a timer or keyboard interrupt: entry, `schedule`, return |
| `ExceptionInterruptGate`, `ExceptionTrapGate`, `vpanic_cli` | an exception, and the end of `vpanic` |

An interrupt is one step because its gate clears IF. `__alloc_table` does not
check `alloc_pages` for NULL: `page_to_hhdm(NULL)` is a non-canonical address, so
that the `memset` faults with interrupts off; the two actions that say "no page"
halt for this reason, and `create_task` never sees a NULL table. Virtual time is
taken modulo `VtimeMod` (2^64), and the selection loop's `UINT64_MAX` start value
is kept. The log line every 1024 ticks is in `Console`.

Exceptions always panic. Those with interrupt gates (2, 8, 14, 18) run to the end
with interrupts off. The others keep IF: an interrupt may arrive before
`vpanic`'s `cli()`, `schedule` saves the handler's context in the task and runs
another task, and the next entry from user mode starts again at the top of the
one kernel stack. `Clobbered` marks such a saved handler `"wild"`: resuming it is
undefined and the model stops there. The invariants below hold throughout, but a
panic through a trap gate is not final.

Before the first interrupt `current` is NULL: task A runs with the page table of
the last task made, and that interrupt drops what A has done. `CurrentOwnsCpu`
is therefore stated for `current # NULL`. `NoLostWork` covers the whole run and says
what is dropped: the computation of a task, on the CPU or saved, is all it has `done`,
less, for A and from the first interrupt on, the `early` steps (`Dropped`).

`SchedPic.tla` puts the controllers in front of `Irq`. `imr` is the set of masked
lines as `pic_remap` and `irq_init` leave it, `in_service` the lines being served,
`vector` the interrupt number in each task's saved context. `irq_dispatch(line)`
happens only for a line that is not masked and has a higher priority than all in
service; it runs `schedule` and then ends the service with the vector of the
context it will return to, which is the new task's: the one that last interrupted
it, or 0 if it has never run. `VectorOf` keeps of a vector which controllers
`pic_send_EOI` tells. `pic_mask` is never called.

Runs:

* `sched`: 4 slots, 5 boot tasks (the fifth finds no slot) with priorities in the
  pattern of `entry()`: two equal, one small, one large; timer and keyboard.
  `VtimeMod` is 32, so a missing normalisation wraps within a few interrupts. One
  step of a task (`MaxSteps`) is told apart from none, which is enough to see work
  lost or done for another task. Properties: `VtimeBounded`, `CurrentOwnsCpu`,
  `NoLostWork`, `TimerDeliverable` (whenever user code runs the timer can interrupt
  it) and, under `PicFairSpec`, `NoStarvation`. Weak fairness is assumed of the boot
  code (nothing can block it), of `irq_dispatch(0)` (the PIT is periodic; that the
  controller lets it through is the model's to show) and of `vpanic_cli` (it waits
  for nothing). None is assumed of user code, the keyboard or exceptions.
* `sched_share`: `SchedShare.tla` adds the history variables `service` and `vbase`.
  `FairShare`: quanta times priority of two runnable tasks never differ by more
  than the priority of the one ahead. `VtimeIsLag`: `vtime` is exactly quanta times
  priority minus the common base. The run goes on until the base passes 12, when
  the slowest of three tasks has had its third quantum; counters are otherwise
  unbounded.

`SchedProofs.tla` proves, for every number of slots, boot sequence and `VtimeMod`
(assuming that priorities are positive and twice a priority is below
`VtimeMod - 1`, which holds for `uint32_t` against 2^64):

* `SchedCorrect`: `Spec => [](TypeOK /\ VtimeBounded /\ CurrentOwnsCpu /\ NoLostWork)`.
  The inductive invariant `SchedInv` adds that a slot without a runnable task was
  never charged (a task starts level), that a runnable task's saved context is its
  own, that nothing is saved before the first interrupt, and that the CPU holds
  the current task. With them the selection loop always finds a task, the additions
  cannot wrap, and the progress of each task, with what the first interrupt dropped,
  equals `done`.
* `ShareCorrect` (and `LagCorrect`): `ShareSpec => [](VtimeIsLag /\ FairShare)`.
  `VtimeIsLag` is inductive on top of `SchedInv`; fairness follows from it and
  `VtimeBounded`.

It also proves, for every set `Lines` of lines of the first controller:

* `TimerAlwaysDeliverable`: `PicSpec => []TimerDeliverable`. The inductive invariant
  `PicInv` says that between two interrupts no line is in service and the masks are
  as `irq_init` left them; it is kept because, whatever number of the new task's
  context `pic_send_EOI` is given, the first controller is told.
* `PicRefinesSched`: each step of `PicSpec` is one of `Sched` or a stutter, whence
  `PicTypeOK`, `PicVtimeBounded`, `PicCurrentOwnsCpu` and `PicNoLostWork`.

`NoStarvation` is a liveness property under fairness and only model-checked.

## 4. E820: the memory map

`E820.tla` models `e820_init` and `e820_sanitize`, one action per iteration of
each loop: `collect` (change points of an entry that is not empty), `insert` (one
insertion of the sort, with the code's comparison: starts before ends at the same
address), `sweep` (one change point: the overlap list, the largest type in it, the
entry emitted when the type changes), then `find_last_ram`. `e820_sanitize_fails`
is the error return for a map that does not fit the table or an entry whose end
overflows. A map with fewer than two entries is not an error to `e820_sanitize`,
which leaves the new table empty; `e820_init` then finds no RAM and panics. Ends
of entries are taken modulo `AddrMod` (2^64). The warning about entries that are
not aligned to pages is left out, as it changes nothing.

Run `e820`: every map of up to two entries, many of three and four, over addresses
below 8, with three types; the new table holds three entries, so that a sweep
overflows it. `LargestTypeWins`: every address gets the largest type of the firmware
entries that cover it, up to where a full table stops. `SanitizedWellFormed`: at
every moment of the sweep the table is sorted, disjoint and merged.
`LastRamIsTop`: there is RAM just below `last_ram_addr` and none above.

These three, with `TypeOK` (no array is used beyond its end), are proved for every set of
firmware maps of any length, every size of the table and every `AddrMod`:
`E820TypeCorrect`, `E820WellFormed`, `E820LargestTypeWins`, `E820LastRam` in
`E820Proofs`, from the invariant `E820Inv`. It has two parts.

* `PointsInv` (kept by the first half of `E820Proofs`): the change points are the starts and ends
  of the collected entries that are not empty, each once, none missing; no end has
  wrapped; the sorted prefix is ordered by address with starts before ends. The
  insertion moves points one by one, so the lemmas say where each of them goes.
* `SweepInv`: `overlap_list` holds exactly the entries begun and not ended, each once
  (`OverlapExact`); `last_type` is the largest type among them; the table, together
  with the entry being built, gives each address below the point reached the
  largest type of the firmware's entries there (`ContentExact`). That adjoining
  entries differ in type is not inductive by itself, since at one address several
  points come and the type may change back and forth: `NotContinued` says that it
  first only rises, then only falls, which is where starts before ends matters.

## 5. BootMemory: taking over physical memory

Four modules. `PageTables` holds the walk through four levels of tables with small
and large pages, `vmm_virt_range_has_mapping`, and `Reachable`: the physical
addresses the kernel can access in each phase of `vmm.c`. `Bootmem` holds the pool,
`Vmm` the functions that build tables (`get_or_create_table`, `set_page`,
`set_range`, `vmm_map`); all are functions on a record `m` with the statics of the
two files, the tables, the value returned and `halted` ("panic", or "fault" for an
access to memory that is not mapped). `BootMemory` has one action per call of
entry(), in their order: `vmm_init`, `bootmem_init_call`, `vmm_map_hhdm`,
`early_vga_init` (the framebuffer pointer moves to the higher-half direct map, HHDM),
`vmm_unmap_low_identity`, `mem_init_alloc` and `mem_init_memset` (the struct page
array, allocated in segments), `buddy_init` (the scan that releases pages), and
`vmm_use_alloc_pages`. Interrupts are off, so that calls do not interleave; what is
hard is that each call depends on what the earlier ones left.

Run `boot_memory`: sixteen thousand memory maps that change type at page, large page
and other boundaries, within and beyond the identity mapping. A page has 8 bytes, a
table 4 entries, so that a few hundred bytes need tables at every level, large pages
and the unaligned ranges around them; many maps have too little RAM, and the pool
runs dry at every point of the boot.

* `PoolTakesRam`, `PoolAccounts`: the pool hands out whole pages of RAM outside the
  kernel image, each once, inside the range `buddy_init` will reserve; the "state
  corrupted" panics are not reached.
* `HhdmExact`: the HHDM maps RAM read-write, ACPI memory read-only, the VGA memory,
  and nothing else. If the pool runs dry while it is built, `vmm_map_hhdm` only logs
  it; the kernel then stops in `mem_init`, which finds no page and panics, or before it.
* `MemMapMapped`: when `mem_init` has returned, the array is mapped page by page to
  the segments it was given. It is stated from there on because
  `bootmem_alloc_mapped` overwrites the count of failed bytes with that of the last
  segment (`bootmem.c:188`): a failure in an earlier segment goes unreported, and
  the `memset` that follows faults.
* `ReleasedExactly`: buddy gets all whole pages of RAM but kernel and pool, and can
  reach each of them and its struct page; `expected_pages`, which the scan adds up range
  by range and the grouping loop is later compared with, is their number.
* `ConsoleMapped`: the framebuffer is writable after every call, with one exception.
  When the pool has no page left for its tables, `vmm_map_hhdm` only logs it
  (`vmm.c:311`; the model keeps its local `vga_failed`) and entry() moves the pointer all
  the same. The print at the end of `vmm_unmap_low_identity` then faults, and `mem_init`
  is not reached. The run has maps on which this happens. Every call that prints ends
  with `Printed`, which faults unless the framebuffer is mapped read-write; warnings on
  the way write to the same framebuffer under the same tables.

Flags of page table entries are reduced to the access they grant; NX and global
pages are not modelled.

## 6. UserSpace: user page tables

`UserSpace.tla` models what `vmm.c` does once `alloc_pages` serves it:
`vmm_create_user_pml4`, `vmm_set_table`, `map_block` (a block from `alloc_pages`, mapped
with `vmm_map`) and `vmm_destroy_user_pml4`. The guard of `map_block`, that
`vmm_virt_range_has_mapping` finds nothing, is an assumption on the caller: `make_task`
makes no such check, but meets it because its space is new. The ghost `spaces` remembers which blocks
were put where. When memory runs out, `__alloc_table` uses NULL and faults, and the
model stops. The allocator is the contract `PageAllocator`, which `Buddy` keeps up to
its first left merge (section 2); the results here hold as long.
`vmm_destroy_user_pml4` has no caller in the kernel yet.

Run `user_space`: two spaces, blocks of two and four pages at an aligned place, an
unaligned one and one that crosses into the next table, 14 pages of memory.
`OwnershipExact`: the blocks handed out are exactly the tables and mapped blocks of
the live spaces, none in two: destroying gives back everything once.
`MappingsExact`: each space translates exactly the addresses of its blocks.
`TableInUseLive`: cr3 never points to a table given back, and its kernel half is the
kernel's.

## 7. Fat: loading the kernel

`Fat.tla` models `boot/fat.c` and the part of `boot/main.c` that loads the kernel, one
action per access to the disk, each of which may fail: `fat_dev_init`,
`path_lookup` (the next component, converted to the 8.3 form), `scan` (a sector of a
directory), `dir_next` and `next` (the next cluster through the one-sector FAT
cache), `read`. A failure goes to the halt loop of entry(). The contents of a sector
are its LBA, relative to the partition and modulo 2^32 (`LbaMod`): the sector number of
a cluster, the sum that is tested against the end of the partition and the sectors
asked of the disk all wrap as `uint32_t` does.

`fat_dev_init` takes the header of the disk as it is, and so does the model: there may
be no sectors in a cluster or many, the root directory may be anywhere, and a chain may
lead to a cluster number whose word is beyond the end of the FAT (what lies there is
then taken for the word). With 16 or more sectors per cluster the number of a sector of
a damaged chain can be just below 2^32; `lba + count` then wraps and the test passes.

Run `fat`: some eighteen hundred volumes, sound, cyclic, ending in a free cluster, beyond
the FAT or beyond the partition. Cluster numbers are below 14; most volumes have two
sectors per cluster, the others none or eight, and with eight cluster 9 is where sector
numbers wrap, as a directory, as the start of a file or inside one. FAT sectors have two
entries (so that chains enter and leave the cached sector), names 3+2 characters.

* `LoadedIsFile`: the kernel starts only when exactly the sectors of its file are in
  memory.
* `ReadsInPartition`: the disk is never asked for a sector behind the partition, nor for
  one that is more than a cluster before it; and only for sectors of the partition if the
  header `Fits`, that is, if no cluster number below the end-of-chain mark makes the sum
  wrap, as with up to 8 sectors per cluster and the data in the first half of 2^32.
* `BootEnds`: without a cyclic chain the loader ends, under weak fairness of its steps
  (it is the only thread, and `disk_read` returns). With a cyclic one it reads for ever;
  `MaxLoaded` bounds that, and is at least the number of sectors of all clusters, so that
  a chain without a cycle is loaded whole.

`FatProofs` proves `ReadsCorrect` (`Spec => []ReadsInPartition`) and `LoadCorrect`
(`Spec => []LoadedIsFile`) for every set of volumes, whatever their headers, chains and
directories. `Fat.tla` names the assumptions: the fields have the widths of the code
(`VolumesAssumption`, `SizesAssumption`; `reserved_sectors` is a `uint16_t`, so that the
sector numbers of the FAT do not wrap, for any cluster number), `MaxLoaded` is large
enough, and `KERNEL_FILE` has two components (it is `system/kernel.bin`; `Components` is
how they are stored). TLC evaluates all of them for the volumes of the run.

The invariant `FatInv` says that the cached sector of the FAT is what is on the disk
(`CacheOK`; a failed fetch may leave anything, but then the loader halts), that the
current entry is what the directories say about the components passed so far
(`LookupInv`), that the clusters met since its first one are a path through the FAT,
and that the sectors on it hold nothing that stops the search (`ScanInv`), or are in
memory in their order (`LoadInv`). The step from paths to `Walk`, `HoldsChain` and
`Names`, in terms of which the property is stated, comes first in `FatProofs`: a path that
meets a cluster twice goes round for ever, so that a search that finds an entry, and
a file that ends, have met each cluster once and are the walk. Again the inductions
use `LeastNat` and `UpTo`, and the recursive function behind `Walk` is shown to exist
before it is unfolded.

Seen while modelling, without effect on these: a chain that ends in a free cluster is
accepted as complete; `name[0] == 0xE5` (`fat.c:168`) compares a signed char and is
never true, but a deleted name matches no component anyway.

## 8. Console and Printk: messages

`Console.tla` turns a message into the accesses it makes to the devices and to the
drivers' variables: `_putc` and `_flush` cut it into chunks for the sinks,
`early_uart_log_write` adds the colour codes, `early_vga_putc` is a sequence of loads
and stores of `cx`, `cy` and the cells. The order is that of the kernel built with
-O2: the variables are not volatile, are loaded once and stored on the way. `printk`
makes the accesses of a message the ones to do, `access` does the next. At boot nothing
comes between them; a handler entered through a trap gate (`__isr_dispatch`) prints with
interrupts on, and a timer tick whose `schedule` prints (`tick`) may come between any two
accesses, and returns (`iret`) to the message it has interrupted. `vpanic_cli` ends it.
Sinks are registered and removed between messages.

Run `console`: a screen of 4 by 2, chunks of 3, two sinks, three messages out of three,
one tick, two changes of the sinks. `CursorOnScreen`: between messages the cursor is on the
screen even after a tick has moved it inside `early_vga_putc` (a character in the
middle of that may go to the cell just below the last row, which the hardware does
not show). `ScreenIsTail`: unless a tick tore a message, the screen shows the end of
the text as on endless paper. `SerialComplete`: the serial line gets every letter
once; those that a tick prints are counted, the others are also in order.
`NoBleeding`: every newline is sent with the colours reset, as the comment at
`early_uart.c:93` asks.

The loop that moves the lines up in `scroll` is one step; the registers of the
hardware cursor, the UART's busy wait and a second handler that prints are left
out. The texts are ASCII as all of the kernel's are: a `char` of 0x80 or more would be
sign-extended over the colour.

All four are proved, for every size of the screen and of the buffer, any number
of sinks, messages, ticks and changes, and all messages that satisfy
`MessagesAssumption`: a text holds no colour codes of its own, and a newline only at its
end. That is so for every format of the kernel. (One string, at `vmm.c:326`, ends in two
newlines; but there the level is followed by a comma, so that the format is only the level
and the string is never printed.)

* `ConsoleProofs` has `CursorCorrect` and `BleedingCorrect`, from the invariant
  `ConsoleInv`. What is left of a message is in the order of `early_vga_putc`
  (`Remains`), and the registers or variables are as the next access needs them
  (`Place`): before a character `cx` and `cy` are on the screen, inside one only the
  registers count. Hence of an interrupted message nothing is claimed about `cx` and
  `cy` while it is inside a character: it overwrites them. On the serial line a reset
  code comes right before every newline, and after the last character of a run; so a
  tick, which always starts with a code and ends with a reset, leaves the line as the
  interrupted message needs it, even between the two tokens of a code (`Tinted`).
* `ConsoleSerialProofs` has `SerialCorrect`. The invariant `SentInv` balances what has
  been sent, what the current and the interrupted message still send, and what the sink
  was given (`Balanced`); `ChunksJoined` says that the chunks are the text, whatever the
  size of the buffer, and `MessageLetters` that the sink sends just the chunks.
* `ConsoleScreenProofs` has `ScreenCorrect`. The invariant `ScreenInv` looks ahead: unless
  a tick has printed within a message, the accesses that are left lead (`Leads`) to a
  screen that shows all the text given to the sink (`Shows`), so `access` keeps it by
  definition, and the work is in `printk`. `PutcShows` runs the six accesses of
  `early_vga_putc` and says where a character leaves the cells and the cursor, through
  wrapping, tabs and scrolling; `CharShown` compares that with typing the character on the
  paper; `Prints` and `PrintsJoined` lift it over a chunk, over the sinks (what the UART
  does leaves the screen alone) and over the chunks of a message.

`Printk.tla` is `_vprintkl` on formats already split into items: one action per kind of
conversion, with flags, width, precision and length, negative widths, NULL strings,
the digit buffer of `_ntoa`, and UTF-8 for wide characters. Run `printk`: every
combination for integers of 3 to 6 bits around the limits of each type, wide
characters around the limits of each encoding, and pairs of the other conversions.
`ConversionsExact`: the text of an integer conversion reads back as the value of
the argument in its type, with the sign, prefix, digits and field that the flags ask
for; the bytes of a wide character decode to it. Where the code differs from C it is
followed: a blank flag also acts on unsigned conversions, and widths and precisions
of wide strings count characters.

## 9. Proved, only model-checked, not modelled

Proved for every value of the constants: all safety properties of `Buddy` and that it
implements `PageAllocator` (section 2); the invariants of `Sched`, `SchedPic` and
`SchedShare` and the refinement between the first two (section 3); all properties of
`E820` (section 4); `ReadsInPartition` and `LoadedIsFile` of `Fat` (section 7);
all properties of `Console` (section 8).

Only model-checked:

* `NoStarvation` and `BootEnds`: liveness under fairness.
* The properties of `BootMemory` and `UserSpace`. One action is a whole call that builds
  tables at four levels, written as iterated functions on the record `m` with an
  operator as parameter (`Vmm!Repeat`); what such an iteration keeps is not something
  the installed provers can be told once and for all.
* `ConversionsExact`: reading digits back is an induction over the value in a variable
  base; its run takes ten arguments, around zero and the limits of the four small types.

Not modelled:

* the encodings of descriptors (GDT, IDT, TSS), the command words of PIC and PIT, the
  set-up of the UART, and the assembly stubs: no control flow and no state that a
  later step reads; what they establish (gate kinds, one kernel stack, a periodic
  timer, masks) is where `Sched` and `SchedPic` start;
* the two static page tables of `boot/vmm.c` (whose only check is of a constant address),
  `kernel_entry.asm` and the copy of the firmware's map in `boot/main.c` (which trusts the
  firmware for at most 256 entries): straight-line code, between `read` and
  `kernel64_entry` of `Fat`;
* string functions and the kernel's static stacks: loops over bytes without state;
* `pic_mask`, `is_pt_mapped`: never called.
