----------------------------- MODULE UserSpace -----------------------------
(***************************************************************************)
(* User address spaces (arch/x86/vmm.c after vmm_use_alloc_pages): making  *)
(* one, putting blocks of pages into it, switching to it, and giving all   *)
(* of it back.  Callers behave as make_task (kernel/entry.c) and           *)
(* bootmem_alloc_mapped do: they map a block from alloc_pages, as a whole, *)
(* where vmm_virt_range_has_mapping finds nothing.  vmm_destroy_user_pml4  *)
(* has no caller yet.  Out of memory, __alloc_table faults.                *)
(***************************************************************************)
EXTENDS Vmm

CONSTANTS
  RamPages,     \* what buddy_init released
  Places,       \* user addresses that callers map blocks at
  Orders,       \* orders of the blocks
  MaxSpaces     \* bound on the spaces alive at a time

ASSUME UserSpaceAssumption ==
  /\ RamPages \subseteq {i * PAGE_SIZE : i \in 1 .. ENTRIES * ENTRIES - 1}
  /\ MaxSpaces \in Nat /\ PML4_ENTRIES % 2 = 0 /\ HHDM_BASE = (PML4_ENTRIES \div 2) * PdptSpan
  /\ \A v \in Places : v % PAGE_SIZE = 0 /\ v < HHDM_BASE - PdSpan

VARIABLES
  m,         \* memory, as in Vmm
  cr3,
  spaces     \* ghost: PML4 of a live space -> the <<address, block>> in it

vars == <<m, cr3, spaces>>

Low == 0 .. PML4_ENTRIES \div 2 - 1
High == PML4_ENTRIES \div 2 .. PML4_ENTRIES - 1

\* What the boot leaves, reduced to the HHDM: large pages, in two tables.
Init ==
  /\ m = [ret |-> NULL, halted |-> "no", vmm |-> "READY", at |-> NULL, failed |-> 0,
          ram |-> RamPages, held |-> {},
          tab |-> (kern_pml4 :> [i \in 0 .. PML4_ENTRIES - 1 |->
                      IF i = PML4_ENTRIES \div 2 THEN Entry(pdpt_low, FALSE, "rw") ELSE Absent])
               @@ (pdpt_low :> [i \in 0 .. ENTRIES - 1 |->
                      IF i = 0 THEN Entry(pd_low, FALSE, "rw") ELSE Absent])
               @@ (pd_low :> [i \in 0 .. ENTRIES - 1 |->
                      Entry(i * LARGE_PAGE_SIZE, TRUE, "rw")])]
  /\ cr3 = kern_pml4
  /\ spaces = << >>

Alive == m.halted = "no"

\* A call is over: its results are forgotten.
Settled(a) == [a EXCEPT !.ret = NULL, !.at = NULL, !.failed = 0]

Copied(a) ==
  [a EXCEPT !.tab[a.ret] = [i \in Low \cup High |->
                              IF i \in High THEN a.tab[kern_pml4][i] ELSE Absent]]

vmm_create_user_pml4 ==
  LET a == alloc_table(m)
      c == memset_table(a, PML4_ENTRIES)
  IN  /\ Alive /\ Cardinality(DOMAIN spaces) < MaxSpaces
      /\ m' = Settled(IF a.halted # "no" THEN a ELSE Copied(c))
      /\ spaces' = IF a.halted # "no" THEN spaces ELSE (a.ret :> {}) @@ spaces
      /\ UNCHANGED cr3

vmm_set_table ==
  /\ Alive
  /\ cr3' \in DOMAIN spaces
  /\ UNCHANGED <<m, spaces>>

\* A block for user memory, as in make_task: alloc_pages, then vmm_map.  That nothing
\* is mapped there yet is assumed of the caller (vmm_map passes over pages that are
\* mapped, and make_task ignores how many); make_task meets it, because its space is
\* new.  The assumption is stated by what vmm_virt_range_has_mapping answers.
map_block ==
  \E pml4 \in DOMAIN spaces, v \in Places, k \in Orders :
    LET a == alloc_pages(m, k)
        mapped == vmm_map(a, pml4, v, a.ret, BlockSize(k), "rw")
    IN  /\ Alive /\ a.ret # NULL
        /\ ~vmm_virt_range_has_mapping(m.tab, pml4, v, BlockSize(k))
        /\ m' = Settled(mapped)
        /\ spaces' = [spaces EXCEPT ![pml4] = @ \cup {<<v, <<a.ret, k>>>>}]
        /\ UNCHANGED cr3

\* The present entries at the given indices of the given tables.
EntriesOf(tables, indices) ==
  {m.tab[t][i] : t \in tables, i \in indices} \ {Absent}
Targets(entries) == {e.to : e \in entries}

\* What vmm_destroy_user_pml4 walks.
Pdpts(pml4) == Targets(EntriesOf({pml4}, Low))
Pds(pml4) == Targets(EntriesOf(Pdpts(pml4), 0 .. ENTRIES - 1))
PdEntries(pml4) == EntriesOf(Pds(pml4), 0 .. ENTRIES - 1)
LargePages(pml4) == Targets({e \in PdEntries(pml4) : e.pse})
Pts(pml4) == Targets({e \in PdEntries(pml4) : ~e.pse})
SmallPages(pml4) == Targets(EntriesOf(Pts(pml4), 0 .. ENTRIES - 1))
Tables(pml4) == {pml4} \cup Pdpts(pml4) \cup Pds(pml4) \cup Pts(pml4)

\* Mutant: large pages are forgotten.
FreedButLarge(pml4) == SmallPages(pml4) \cup Tables(pml4)

\* The pages free_pages is called on.
Freed(pml4) == SmallPages(pml4) \cup LargePages(pml4) \cup Tables(pml4)

\* Mutant: the processor stays on a table that is given back.
SwitchedNot(pml4) == cr3

\* cr3 after vmm_destroy_user_pml4(pml4).
Switched(pml4) == IF cr3 = pml4 THEN kern_pml4 ELSE cr3

vmm_destroy_user_pml4 ==
  \E pml4 \in DOMAIN spaces :
    /\ Alive
    /\ cr3' = Switched(pml4)
    /\ spaces' = [p \in DOMAIN spaces \ {pml4} |-> spaces[p]]
    /\ m' = IF \E a \in LargePages(pml4) : a % LARGE_PAGE_SIZE # 0 THEN panic(m)
            ELSE [free_pages(m, Freed(pml4)) EXCEPT
                    !.tab = [t \in DOMAIN @ \ Tables(pml4) |-> @[t]]]

Halted == ~Alive /\ UNCHANGED vars

Next ==
  \/ vmm_create_user_pml4 \/ vmm_set_table \/ map_block \/ vmm_destroy_user_pml4
  \/ Halted

Spec == Init /\ [][Next]_vars

(***************************************************************************)
(* Properties.                                                             *)
(***************************************************************************)

\* Every block that is handed out belongs to exactly one live space, as a table or
\* as memory mapped there: vmm_destroy_user_pml4 gives back all of a space, once,
\* and nothing of another, whatever the kinds of pages it is mapped with.
OwnershipExact ==
  Alive =>
    /\ m.held = UNION {{<<t, 0>> : t \in Tables(p)} \cup {x[2] : x \in spaces[p]} :
                       p \in DOMAIN spaces}
    /\ \A p, q \in DOMAIN spaces : p # q => Freed(p) \cap Freed(q) = {}

\* Each space translates exactly the addresses of its blocks, to their pages in
\* order: what vmm_virt_range_has_mapping reports free can be mapped in full, no
\* mapping disturbs another, and no space sees what belongs to another.
MappingsExact ==
  Alive =>
    \A p \in DOMAIN spaces :
      \A v \in {i * PAGE_SIZE : i \in 0 .. (HHDM_BASE \div PAGE_SIZE) - 1} :
        LET here == {x \in spaces[p] : v >= x[1] /\ v < x[1] + BlockSize(x[2][2])}
        IN  Translate(m.tab, p, v) =
              IF here = {} THEN Absent
              ELSE LET x == CHOOSE y \in here : TRUE
                   IN  Entry(x[2][1] + (v - x[1]), FALSE, "rw")

\* The processor never runs on a page table that was given back, and the kernel's
\* half of the one in use is the kernel's: an interrupt finds the kernel.
TableInUseLive ==
  Alive =>
    /\ cr3 \in DOMAIN spaces \cup {kern_pml4}
    /\ \A i \in High : m.tab[cr3][i] = m.tab[kern_pml4][i]
=============================================================================
