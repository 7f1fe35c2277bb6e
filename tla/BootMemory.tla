---------------------------- MODULE BootMemory ----------------------------
(***************************************************************************)
(* How the kernel takes over physical memory (kernel/entry.c): the calls   *)
(* of entry() from vmm_init to vmm_use_alloc_pages, in their order, with   *)
(* interrupts off.  The page pool, the page tables it pays for, the HHDM,  *)
(* the struct page array and the release of what is left to the buddy      *)
(* allocator are composed here.  The sanitized memory map is what E820     *)
(* guarantees; where E820 panics, entry() gets no further.                 *)
(***************************************************************************)
EXTENDS Vmm

CONSTANTS
  SanitizedMaps,   \* the maps e820_init may leave
  STRUCT_PAGE      \* sizeof(struct page)

ASSUME SanitizedMapsAssumption ==
  \A map \in SanitizedMaps : WellFormed(map) /\ \E i \in DOMAIN map : map[i].type = E820_TYPE_RAM

VARIABLES
  pc,             \* the next call of entry()
  m,              \* memory: see PageTables, Bootmem and Vmm
  fb,             \* early_vga.c's buffer: the virtual address of the framebuffer
  vga_failed,     \* bytes of the framebuffer that vmm_map_hhdm did not map
  mem_nr_pages,
  expected_pages  \* the pages buddy_init counts as it releases them

vars == <<pc, m, fb, vga_failed, mem_nr_pages, expected_pages>>

EmptyTable(n) == [i \in 0 .. n - 1 |-> Absent]

Init ==
  /\ pc = "vmm_init"
  /\ \E map \in SanitizedMaps :
       m = [map |-> map, pool |-> DisabledPool, ret |-> NULL, segments |-> <<>>,
            halted |-> "no", vmm |-> "EARLY", at |-> NULL, failed |-> 0,
            ram |-> {}, held |-> {},
            tab |-> [t \in {kern_pml4} |-> EmptyTable(PML4_ENTRIES)]
                    @@ [t \in {pdpt_low, pd_low, pdpt_kern, pd_kern} |-> EmptyTable(ENTRIES)]]
  /\ fb = VGA /\ vga_failed = 0
  /\ mem_nr_pages = 0 /\ expected_pages = 0

\* entry() makes the call that is next, with result m2, and goes on to the next.
Call(name, m2, next) ==
  /\ pc = name /\ m.halted = "no"
  /\ m' = m2
  /\ pc' = next

\* printk to the VGA sink, at the end of a call: it writes to the framebuffer.
Printed(m2) == IF Translate(m2.tab, kern_pml4, fb).access = "rw" THEN m2 ELSE fault(m2)

Index(span, virt) == IF span = PdptSpan THEN virt \div span ELSE (virt \div span) % ENTRIES

\* map_low_identity and map_kernel, in the tables of the kernel image.
vmm_init ==
  /\ Call("vmm_init", Printed(
       [m EXCEPT !.vmm = "IDENTITY",
                 !.tab[kern_pml4] =
                   [@ EXCEPT ![0] = Entry(pdpt_low, FALSE, "rw"),
                             ![Index(PdptSpan, KERNEL_VMA)] = Entry(pdpt_kern, FALSE, "rw")],
                 !.tab[pdpt_low][0] = Entry(pd_low, FALSE, "rw"),
                 !.tab[pd_low] =
                   [i \in 0 .. ENTRIES - 1 |-> Entry(i * LARGE_PAGE_SIZE, TRUE, "rw")],
                 !.tab[pdpt_kern][Index(PdSpan, KERNEL_VMA)] = Entry(pd_kern, FALSE, "rw"),
                 !.tab[pd_kern][Index(LARGE_PAGE_SIZE, KERNEL_VMA)] =
                   Entry(KERNEL_PHYS, TRUE, "rw")]),
       "bootmem_init")
  /\ UNCHANGED <<fb, vga_failed, mem_nr_pages, expected_pages>>

bootmem_init_call ==
  /\ Call("bootmem_init", Printed(bootmem_init(m)), "vmm_map_hhdm")
  /\ UNCHANGED <<fb, vga_failed, mem_nr_pages, expected_pages>>

\* The access each type of memory gets in the HHDM.
HhdmAccess(type) ==
  CASE type = E820_TYPE_RAM -> "rw"
    [] type \in {E820_TYPE_NVS, E820_TYPE_ACPI} -> "ro"
    [] OTHER -> "none"

\* Every entry of the map, then the VGA memory.  A failure is logged; entry() goes on.
vmm_map_hhdm ==
  LET step(r, k) ==
        LET e == m.map[k + 1]
        IN  set_range(r, kern_pml4, HHDM_BASE + e.addr, e.addr, e.size, HhdmAccess(e.type))
      mapped == Repeat([m EXCEPT !.failed = 0], Len(m.map), step)
      vga == set_range(mapped, kern_pml4, HHDM_BASE + VGA, VGA, VGA_SIZE, "rw")
  IN  /\ Call("vmm_map_hhdm", Printed([vga EXCEPT !.vmm = "TRANSITION"]), "early_vga_init")
      /\ vga_failed' = vga.failed - mapped.failed
      /\ UNCHANGED <<fb, mem_nr_pages, expected_pages>>

\* Mutant: the framebuffer pointer keeps its identity-mapped address.
early_vga_init_stay ==
  /\ Call("early_vga_init", m, "vmm_unmap_low_identity")
  /\ UNCHANGED <<fb, vga_failed, mem_nr_pages, expected_pages>>

early_vga_init ==
  /\ Call("early_vga_init", m, "vmm_unmap_low_identity")
  /\ fb' = HHDM_BASE + VGA
  /\ UNCHANGED <<vga_failed, mem_nr_pages, expected_pages>>

vmm_unmap_low_identity ==
  /\ Call("vmm_unmap_low_identity",
          Printed([m EXCEPT !.tab[kern_pml4][0] = Absent, !.vmm = "VIRTUAL_ONLY"]),
          "mem_init")
  /\ UNCHANGED <<fb, vga_failed, mem_nr_pages, expected_pages>>

\* Mutant: the pieces are mapped as if they were contiguous.
bootmem_alloc_mapped_contiguous(m0, virt, bytes) ==
  LET size == ROUND_UP(bytes, PAGE_SIZE)
      a == alloc(m0, size)
  IN  IF a.segments = <<>> THEN [a EXCEPT !.ret = NULL]
      ELSE [vmm_map(a, kern_pml4, virt, a.segments[1].start, size, "rw") EXCEPT !.ret = virt]

\* bootmem_alloc_mapped(virt, bytes): m.ret is virt or NULL.  vmm_map takes its
\* page tables from the pool behind the segments it maps; failed is overwritten by
\* each call.
bootmem_alloc_mapped(m0, virt, bytes) ==
  LET a == alloc(m0, ROUND_UP(bytes, PAGE_SIZE))
      mapped[k \in 0 .. Len(a.segments)] ==
        IF k = 0 THEN [m |-> a, offset |-> 0]
        ELSE LET s == a.segments[k]
                 r == mapped[k - 1]
             IN  [m |-> vmm_map(r.m, kern_pml4, virt + r.offset, s.start, s.size, "rw"),
                  offset |-> r.offset + s.size]
      returned(r) == IF r.failed # 0 THEN panic(r) ELSE [r EXCEPT !.ret = virt]
  IN  IF m0.pool.state # "ENABLED" \/ bytes = 0
           \/ vmm_virt_range_has_mapping(m0.tab, kern_pml4, virt, ROUND_UP(bytes, PAGE_SIZE))
      THEN [m0 EXCEPT !.ret = NULL]
      ELSE IF a.segments = <<>> THEN [a EXCEPT !.ret = NULL]
      ELSE returned(mapped[Len(a.segments)].m)

\* mem_init up to the allocation of mem_map; without it, it panics.
mem_init_alloc ==
  LET last_ram == Max(Ram(m))
      nr == End(m.map[last_ram]) \div PAGE_SIZE
      or_panic(a) == IF a.ret = NULL THEN panic(a) ELSE a
  IN  /\ Call("mem_init", or_panic(bootmem_alloc_mapped(m, MEM_MAP_ADDR, nr * STRUCT_PAGE)),
              "memset")
      /\ mem_nr_pages' = nr
      /\ UNCHANGED <<fb, vga_failed, expected_pages>>

MemMapPages == {i * PAGE_SIZE : i \in 0 .. DIV_UP(mem_nr_pages * STRUCT_PAGE, PAGE_SIZE) - 1}
MemMapEntry(a) == Translate(m.tab, kern_pml4, MEM_MAP_ADDR + a)

\* The rest of mem_init writes every struct page: all are PG_RESERVED.
mem_init_memset ==
  /\ Call("memset",
          IF \A a \in MemMapPages : MemMapEntry(a).access = "rw" THEN Printed(m) ELSE fault(m),
          "buddy_init")
  /\ UNCHANGED <<fb, vga_failed, mem_nr_pages, expected_pages>>

\* set_first_order_buddy_for_range on pages r[1] .. r[2] - 1, as the set of pages
\* released; it returns their number.
Clamped(r) == {p * PAGE_SIZE : p \in r[1] .. Smaller(r[2], mem_nr_pages) - 1}

\* Mutant: an entry that begins below the reserved pages is released to its end.
RangesOfThrough(e, rs, re) ==
  LET s == DIV_UP(e.addr, PAGE_SIZE)
      n == End(e) \div PAGE_SIZE
      start == IF s >= rs /\ s < re THEN re ELSE s
      end == IF n > rs /\ n <= re THEN rs ELSE n
  IN  {<<start, end>>}

\* The ranges of RAM entry e that buddy_init releases, with pages rs .. re - 1
\* reserved: cut off at the start, at the end, or in the middle.
RangesOf(e, rs, re) ==
  LET s == DIV_UP(e.addr, PAGE_SIZE)
      n == End(e) \div PAGE_SIZE
      start == IF s >= rs /\ s < re THEN re ELSE s
      end == IF n > rs /\ n <= re THEN rs ELSE n
  IN  IF start >= end THEN {}
      ELSE IF start < rs /\ end > re THEN {<<start, rs>>, <<re, end>>}
      ELSE {<<start, end>>}

\* buddy_init locks the pool, releases RAM outside the kernel and the pool, and adds
\* up what it releases.  (Its grouping into blocks is Buddy's.)
buddy_init ==
  LET ranges(i) == RangesOf(m.map[i], KERNEL_PHYS \div PAGE_SIZE,
                            DIV_UP(m.pool.end, PAGE_SIZE))
      count(r) == Cardinality(Clamped(r))
      counted(i) == MapThenSumSet(count, ranges(i))
  IN  /\ Call("buddy_init",
              Printed([bootmem_lock(m) EXCEPT
                !.ram = UNION {Clamped(r) : r \in UNION {ranges(i) : i \in Ram(m)}}]),
              "vmm_use_alloc_pages")
      /\ expected_pages' = MapThenSumSet(counted, Ram(m))
      /\ UNCHANGED <<fb, vga_failed, mem_nr_pages>>

vmm_use_alloc_pages ==
  /\ Call("vmm_use_alloc_pages", [m EXCEPT !.vmm = "READY"], "booted")
  /\ UNCHANGED <<fb, vga_failed, mem_nr_pages, expected_pages>>

\* The rest of entry(), or vpanic's loop.
Stopped == (pc = "booted" \/ m.halted # "no") /\ UNCHANGED vars

Next ==
  \/ vmm_init \/ bootmem_init_call \/ vmm_map_hhdm \/ early_vga_init
  \/ vmm_unmap_low_identity \/ mem_init_alloc \/ mem_init_memset
  \/ buddy_init \/ vmm_use_alloc_pages \/ Stopped

Spec == Init /\ [][Next]_vars

(***************************************************************************)
(* Properties.                                                             *)
(***************************************************************************)

Pages == {p * PAGE_SIZE : p \in 0 .. (End(m.map[Len(m.map)]) \div PAGE_SIZE)}

\* The page lies wholly in one entry of a type in T.
Within(a, T) ==
  \E i \in DOMAIN m.map : /\ m.map[i].type \in T
                          /\ m.map[i].addr <= a /\ a + PAGE_SIZE <= End(m.map[i])

\* The pages taken from the pool: tables outside the kernel image, and mem_map.
TablePages == {t \in DOMAIN m.tab : t >= 0}
SegmentPages ==
  UNION {{s.start + i * PAGE_SIZE : i \in 0 .. (s.size \div PAGE_SIZE) - 1} :
         s \in {m.segments[k] : k \in DOMAIN m.segments}}

\* The tables and entries that the walk of pml4 can reach, level by level.
Present(tables) ==
  UNION {{m.tab[t][i] : i \in DOMAIN m.tab[t]} : t \in tables \cap DOMAIN m.tab} \ {Absent}
Targets(tables) == {e.to : e \in {f \in Present(tables) : ~f.pse}}

\* Types; and a walk never leaves the tables, nor meets a large page in a PDPT.
TypeOK ==
  /\ m.halted \in {"no", "panic", "fault"}
  /\ m.vmm \in {"EARLY", "IDENTITY", "TRANSITION", "VIRTUAL_ONLY", "READY"}
  /\ m.pool.state \in {"DISABLED", "ENABLED", "LOCKED"}
  /\ fb \in {VGA, HHDM_BASE + VGA}
  /\ vga_failed \in 0 .. VGA_SIZE
  /\ mem_nr_pages \in Nat /\ expected_pages \in Nat
  /\ LET pdpts == Targets({kern_pml4})
         pds == Targets(pdpts)
     IN  /\ pdpts \cup pds \cup Targets(pds) \subseteq DOMAIN m.tab
         /\ \A e \in Present({kern_pml4}) \cup Present(pdpts) : ~e.pse
         /\ \A e \in Present(DOMAIN m.tab) : e.access \in {"ro", "rw"}

\* What the pool has handed out is whole pages of RAM outside the kernel image
\* and inside what buddy_init will reserve; and bootmem's "state corrupted" panics
\* are never reached.
PoolTakesRam ==
  /\ \A a \in TablePages \cup SegmentPages :
       /\ Within(a, {E820_TYPE_RAM})
       /\ a >= KERNEL_END /\ a + PAGE_SIZE <= m.pool.end
  /\ m.pool.state = "ENABLED" => /\ m.pool.entry \in DOMAIN m.map
                                 /\ m.map[m.pool.entry].addr <= m.pool.end

\* No page has two uses: pool_bytes counts every page handed out once.
PoolAccounts ==
  m.halted = "no" =>
    PAGE_SIZE * Cardinality(TablePages \cup SegmentPages) = m.pool.bytes

\* From vmm_map_hhdm on (if the pool did not run dry, which mem_init notices), the
\* HHDM maps the whole pages of RAM read-write, those of ACPI memory read-only,
\* the VGA memory, each at its place, and nothing else.
HhdmExact ==
  pc \in {"memset", "buddy_init", "vmm_use_alloc_pages", "booted"} /\ m.halted = "no" =>
    \A a \in Pages :
      Translate(m.tab, kern_pml4, HHDM_BASE + a) =
        Entry(a, FALSE,
              IF Within(a, {E820_TYPE_RAM}) \/ a \in VGA .. VGA + VGA_SIZE - 1 THEN "rw"
              ELSE IF Within(a, {E820_TYPE_ACPI, E820_TYPE_NVS}) THEN "ro" ELSE "none")

\* When mem_init has returned, mem_map is mapped page by page to the pages it took,
\* in order.
MemMapMapped ==
  pc \in {"buddy_init", "vmm_use_alloc_pages", "booted"} /\ m.halted = "no" =>
    /\ {MemMapEntry(a).to : a \in MemMapPages} = SegmentPages
    /\ \A a, b \in MemMapPages : a < b => MemMapEntry(a).to < MemMapEntry(b).to

\* The buddy allocator gets all of RAM but the kernel and the pool, nothing else,
\* and can reach every page of it and its struct page.  No page is counted twice:
\* what buddy_init expects its blocks to hold (or panics) is the pages released.
ReleasedExactly ==
  pc \in {"vmm_use_alloc_pages", "booted"} =>
    /\ m.ram = {a \in Pages : Within(a, {E820_TYPE_RAM})
                              /\ (a < KERNEL_PHYS \/ a >= m.pool.end)}
    /\ \A a \in m.ram : Reachable(m, a) /\ a \div PAGE_SIZE < mem_nr_pages
    /\ expected_pages = Cardinality(m.ram)

\* The console can be written to after every call: its framebuffer moves to the
\* HHDM before the identity mapping goes.  The one exception is a framebuffer that
\* vmm_map_hhdm could not map, out of pages for tables; it only logs that, and the
\* pointer moves all the same.  Then the print of vmm_unmap_low_identity faults, and
\* mem_init is not reached.
ConsoleMapped ==
  m.vmm # "EARLY" /\ Translate(m.tab, kern_pml4, fb).access # "rw" =>
    /\ vga_failed > 0
    /\ pc = "vmm_unmap_low_identity" \/ (pc = "mem_init" /\ m.halted = "fault")
=============================================================================
