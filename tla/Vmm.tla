-------------------------------- MODULE Vmm --------------------------------
(***************************************************************************)
(* Building page tables (arch/x86/vmm.c), as functions on the memory       *)
(* record m of Bootmem with these fields more:                             *)
(*   at       the table a walk has reached; NULL when it failed            *)
(*   failed   bytes the running operation could not map                    *)
(*   ram      pages released to the buddy allocator                        *)
(*   held     <<address, order>> of the blocks alloc_pages has handed out  *)
(* Page table flags are reduced to the access they grant: "rw", "ro", or   *)
(* "none" when PT_PRESENT is not set.  vmm.c never passes overwrite.       *)
(***************************************************************************)
EXTENDS Bootmem, TLC

CONSTANTS MEM_MAP_ADDR, KERNEL_VMA, VGA, VGA_SIZE

(***************************************************************************)
(* The buddy allocator as its callers see it (specified by PageAllocator,  *)
(* implemented by Buddy); the lowest free block stands for whichever one   *)
(* it picks.                                                               *)
(***************************************************************************)

BlockSize(k) == PAGE_SIZE * 2 ^ k
Block(b) == {b[1] + i * PAGE_SIZE : i \in 0 .. 2 ^ b[2] - 1}
HeldPages(m) == UNION {Block(b) : b \in m.held}

alloc_pages(m, k) ==
  LET free == {a \in m.ram : a % BlockSize(k) = 0
                             /\ Block(<<a, k>>) \subseteq m.ram \ HeldPages(m)}
  IN  IF free = {} THEN [m EXCEPT !.ret = NULL]
      ELSE [m EXCEPT !.ret = Min(free), !.held = @ \cup {<<Min(free), k>>}]

\* free_pages on each of the pages at the given addresses: a page that is not the
\* first of a block handed out is left alone.
free_pages(m, addresses) == [m EXCEPT !.held = {b \in @ : b[1] \notin addresses}]

(***************************************************************************)
(* Tables.                                                                 *)
(***************************************************************************)

\* __alloc_table.  Out of pages, the pool yields NULL, but alloc_pages' NULL is
\* turned into a wild address that the caller's memset faults on.
OrFault(m) == IF m.ret = NULL THEN fault(m) ELSE m

alloc_table(m) ==
  IF m.vmm = "READY" THEN OrFault(alloc_pages(m, 0)) ELSE bootmem_alloc_page_phys(m)

\* Mutant: a new table is not cleared, and the page's old contents are taken for
\* entries.
memset_table_not(m, n) ==
  [m EXCEPT !.tab = (m.ret :> [i \in 0 .. n - 1 |-> Entry(0, FALSE, "rw")]) @@ @]

\* Clear a new table at m.ret, if there is one.
memset_table(m, n) ==
  IF m.ret = NULL THEN m
  ELSE IF ~Reachable(m, m.ret) THEN fault(m)
  ELSE [m EXCEPT !.tab = (m.ret :> [i \in 0 .. n - 1 |-> Absent]) @@ @]

\* Enter the new table, if there is one, in the table reached, and go on to it.
Linked(m, idx) ==
  IF m.ret = NULL \/ m.halted # "no" THEN [m EXCEPT !.at = NULL]
  ELSE [m EXCEPT !.tab[m.at][idx] = Entry(m.ret, FALSE, "rw"), !.at = m.ret]

\* get_or_create_table(m.at, idx).
get_or_create_table(m, idx) ==
  LET entry == m.tab[m.at][idx]
  IN  IF m.at = NULL THEN m
      ELSE IF ~Reachable(m, m.at) THEN fault([m EXCEPT !.at = NULL])
      ELSE IF entry # Absent THEN [m EXCEPT !.at = IF entry.pse THEN NULL ELSE entry.to]
      ELSE Linked(memset_table(alloc_table(m), ENTRIES), idx)

get_or_create_pd(m, pml4, virt) ==
  get_or_create_table(
    get_or_create_table([m EXCEPT !.at = pml4], virt \div PdptSpan),
    (virt \div PdSpan) % ENTRIES)

get_or_create_pt(m, pml4, virt) ==
  get_or_create_table(get_or_create_pd(m, pml4, virt), (virt \div LARGE_PAGE_SIZE) % ENTRIES)

\* Write a leaf entry of the table reached, unless something is mapped there.
SetLeaf(m, idx, entry, size) ==
  IF m.at = NULL THEN [m EXCEPT !.failed = @ + size]
  ELSE IF ~Reachable(m, m.at) THEN fault(m)
  ELSE IF m.tab[m.at][idx] # Absent THEN [m EXCEPT !.failed = @ + size]
  ELSE [m EXCEPT !.tab[m.at][idx] = entry]

set_page(m, pml4, virt, phys, access) ==
  SetLeaf(get_or_create_pt(m, pml4, virt), (virt \div PAGE_SIZE) % ENTRIES,
          Entry(phys, FALSE, access), PAGE_SIZE)

set_large_page(m, pml4, virt, phys, access) ==
  SetLeaf(get_or_create_pd(m, pml4, virt), (virt \div LARGE_PAGE_SIZE) % ENTRIES,
          Entry(phys, TRUE, access), LARGE_PAGE_SIZE)

\* n steps, each applied to the result of the one before it, until one of
\* them halts the machine.
Repeat(m, n, step(_, _)) ==
  LET done[k \in 0 .. n] ==
        IF k = 0 THEN m
        ELSE LET r == done[k - 1] IN IF r.halted # "no" THEN r ELSE step(r, k - 1)
  IN  done[n]

\* set_pages and set_large_pages; their callers pass aligned ranges.
set_pages(m, pml4, virt, phys, size, access) ==
  LET step(r, k) == set_page(r, pml4, virt + k * PAGE_SIZE, phys + k * PAGE_SIZE, access)
  IN  Repeat(m, size \div PAGE_SIZE, step)

set_large_pages(m, pml4, virt, phys, size, access) ==
  LET step(r, k) == set_large_page(r, pml4, virt + k * LARGE_PAGE_SIZE,
                                   phys + k * LARGE_PAGE_SIZE, access)
  IN  Repeat(m, size \div LARGE_PAGE_SIZE, step)

\* Mutant: small pages go up to the next large page boundary even when the range
\* ends before it.
set_range_to_boundary(m, pml4, virt, phys, size, access) ==
  LET v == ROUND_UP(virt, PAGE_SIZE)
      p == ROUND_UP(phys, PAGE_SIZE)
      end == ROUND_DOWN(virt + size, PAGE_SIZE)
      large == ROUND_UP(v, LARGE_PAGE_SIZE)
      large_end == Larger(ROUND_DOWN(end, LARGE_PAGE_SIZE), large)
      pre == set_pages([m EXCEPT !.failed = @ + (v - virt) + (virt + size - end)],
                       pml4, v, p, large - v, access)
      mid == set_large_pages(pre, pml4, large, p + (large - v), large_end - large, access)
  IN  IF v >= end THEN [m EXCEPT !.failed = @ + size]
      ELSE IF end <= large_end THEN mid
      ELSE set_pages(mid, pml4, large_end, p + (large_end - v), end - large_end, access)

\* set_range: pages that are not wholly in the range are left out and count as
\* failed; large pages in the middle, small ones on both sides.
set_range(m, pml4, virt, phys, size, access) ==
  LET v == ROUND_UP(virt, PAGE_SIZE)
      p == ROUND_UP(phys, PAGE_SIZE)
      end == ROUND_DOWN(virt + size, PAGE_SIZE)
      large == Smaller(ROUND_UP(v, LARGE_PAGE_SIZE), end)
      large_end == Larger(ROUND_DOWN(end, LARGE_PAGE_SIZE), large)
      pre == set_pages([m EXCEPT !.failed = @ + (v - virt) + (virt + size - end)],
                       pml4, v, p, large - v, access)
      mid == set_large_pages(pre, pml4, large, p + (large - v), large_end - large, access)
  IN  IF virt % LARGE_PAGE_SIZE # phys % LARGE_PAGE_SIZE \/ v >= end
      THEN [m EXCEPT !.failed = @ + size]
      ELSE set_pages(mid, pml4, large_end, p + (large_end - v), end - large_end, access)

\* vmm_map: m.failed is what it returns.  Where virtual and physical addresses
\* disagree within a large page, only small pages are used.
vmm_map(m, pml4, virt, phys, size, access) ==
  LET v == ROUND_UP(virt, PAGE_SIZE)
      p == ROUND_UP(phys, PAGE_SIZE)
      end == ROUND_DOWN(virt + size, PAGE_SIZE)
      m0 == [m EXCEPT !.failed = 0]
  IN  IF virt % LARGE_PAGE_SIZE = phys % LARGE_PAGE_SIZE
      THEN set_range(m0, pml4, virt, phys, size, access)
      ELSE IF virt % PAGE_SIZE # phys % PAGE_SIZE \/ v >= end
      THEN [m0 EXCEPT !.failed = size]
      ELSE set_pages([m0 EXCEPT !.failed = (v - virt) + (virt + size - end)],
                     pml4, v, p, end - v, access)
=============================================================================
