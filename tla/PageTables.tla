----------------------------- MODULE PageTables -----------------------------
(***************************************************************************)
(* Reading page tables (arch/x86/vmm.c): the four-level walk, and who can  *)
(* reach physical memory at which stage of the boot.  Functions on a       *)
(* memory record m; fields used here:                                      *)
(*   vmm       vmm.c's state                                               *)
(*   tab       the page tables: address of a table -> index -> entry       *)
(*   halted    "no", "panic", or "fault" (an access to unmapped memory)    *)
(* An entry that is not present is Absent whatever its other bits: nothing *)
(* ever reads them.  Addresses are natural numbers; tables inside the      *)
(* kernel image have negative ones.                                        *)
(***************************************************************************)
EXTENDS Integers

CONSTANTS
  PAGE_SIZE,
  ENTRIES,        \* entries of a PDPT, PD or PT
  PML4_ENTRIES,   \* entries of a PML4; the upper half is the kernel's
  HHDM_BASE,      \* where physical memory is mapped
  LOW_MAP_END     \* end of the boot-time identity mapping

ASSUME PageTablesAssumption ==
  /\ PAGE_SIZE \in Nat \ {0} /\ ENTRIES \in Nat \ {0} /\ PML4_ENTRIES \in Nat \ {0}
  /\ HHDM_BASE \in Nat /\ LOW_MAP_END \in Nat

NULL == 0
kern_pml4 == -1
pdpt_low == -2
pd_low == -3
pdpt_kern == -4
pd_kern == -5

ROUND_DOWN(a, b) == (a \div b) * b
ROUND_UP(a, b) == ((a + b - 1) \div b) * b
DIV_UP(a, b) == (a + b - 1) \div b
Larger(a, b) == IF a < b THEN b ELSE a
Smaller(a, b) == IF a < b THEN a ELSE b

panic(m) == [m EXCEPT !.halted = IF @ = "no" THEN "panic" ELSE @]
fault(m) == [m EXCEPT !.halted = IF @ = "no" THEN "fault" ELSE @]

\* What one entry of a PT, PD, PDPT or PML4 spans.
LARGE_PAGE_SIZE == PAGE_SIZE * ENTRIES
PdSpan == LARGE_PAGE_SIZE * ENTRIES
PdptSpan == PdSpan * ENTRIES

Absent == [to |-> NULL, pse |-> FALSE, access |-> "none"]
Entry(to, pse, access) ==
  IF access = "none" THEN Absent ELSE [to |-> to, pse |-> pse, access |-> access]

\* The entry for virt of a table whose entries span the given size.
EntryFor(tab, table, span, virt) ==
  tab[table][IF span = PdptSpan THEN virt \div span ELSE (virt \div span) % ENTRIES]

\* The processor's walk: the physical address behind virt and the access allowed.
\* (The kernel maps no page of the size of a PdSpan.)
Translate(tab, pml4, virt) ==
  LET e4 == EntryFor(tab, pml4, PdptSpan, virt)
      e3 == EntryFor(tab, e4.to, PdSpan, virt)
      e2 == EntryFor(tab, e3.to, LARGE_PAGE_SIZE, virt)
      e1 == EntryFor(tab, e2.to, PAGE_SIZE, virt)
  IN  IF e4 = Absent \/ e3 = Absent \/ e2 = Absent THEN Absent
      ELSE IF e2.pse THEN Entry(e2.to + (virt % LARGE_PAGE_SIZE), FALSE, e2.access)
      ELSE IF e1 = Absent THEN Absent
      ELSE Entry(e1.to + (virt % PAGE_SIZE), FALSE, e1.access)

\* Mutant: the scan moves on by a whole span from where it is.
PastUnrounded(v, span) == v + span

\* The end of what the entry for v spans.
Past(v, span) == ROUND_DOWN(v, span) + span

\* vmm_virt_range_has_mapping: is anything present in [virt, virt + size)?  The
\* loop skips what an absent entry spans.
vmm_virt_range_has_mapping(tab, pml4, virt, size) ==
  LET scan[v \in Nat] ==
        LET e4 == EntryFor(tab, pml4, PdptSpan, v)
            e3 == EntryFor(tab, e4.to, PdSpan, v)
            e2 == EntryFor(tab, e3.to, LARGE_PAGE_SIZE, v)
            e1 == EntryFor(tab, e2.to, PAGE_SIZE, v)
        IN  IF v >= virt + size THEN FALSE
            ELSE IF e4 = Absent THEN scan[Past(v, PdptSpan)]
            ELSE IF e3 = Absent THEN scan[Past(v, PdSpan)]
            ELSE IF e2 = Absent THEN scan[Past(v, LARGE_PAGE_SIZE)]
            ELSE IF e2.pse THEN TRUE
            ELSE IF e1 = Absent THEN scan[v + PAGE_SIZE]
            ELSE TRUE
  IN  scan[virt]

\* phys_to_virt: can the kernel touch physical memory at phys?  Through the
\* identity mapping at first, through the HHDM from VMM_TRANSITION on.
Reachable(m, phys) ==
  \/ phys < 0
  \/ m.vmm = "IDENTITY" /\ phys < LOW_MAP_END
  \/ /\ m.vmm \in {"TRANSITION", "VIRTUAL_ONLY", "READY"}
     /\ Translate(m.tab, kern_pml4, HHDM_BASE + phys).access = "rw"
=============================================================================
