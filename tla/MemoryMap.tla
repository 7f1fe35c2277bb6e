----------------------------- MODULE MemoryMap -----------------------------
(***************************************************************************)
(* Memory maps (arch/x86/e820.h): sequences of typed address ranges, and   *)
(* what the sanitized map promises to the boot stages that read it.        *)
(***************************************************************************)
EXTENDS Integers, Sequences

E820_TYPE_RAM == 1
E820_TYPE_RESERVED == 2
E820_TYPE_ACPI == 3
E820_TYPE_NVS == 4

End(e) == e.addr + e.size

\* The entry covers address a.
Covers(e, a) == e.addr <= a /\ a < End(e)

\* Sorted, disjoint, not empty, and no entry continues the one before it.
WellFormed(map) ==
  /\ \A m \in DOMAIN map : map[m].size > 0 /\ map[m].type # 0
  /\ \A m, l \in DOMAIN map : m < l =>
       \/ End(map[m]) < map[l].addr
       \/ End(map[m]) = map[l].addr /\ (l = m + 1 => map[m].type # map[l].type)
=============================================================================
