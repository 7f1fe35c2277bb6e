-------------------------------- MODULE E820 --------------------------------
(***************************************************************************)
(* e820_init (arch/x86/e820.c): the firmware's memory map, whose entries   *)
(* may overlap and come in any order, becomes the sorted, disjoint map     *)
(* that the rest of the boot works from.  One action per iteration of      *)
(* e820_sanitize's three loops: collect the change points, insertion-sort  *)
(* them, sweep over them.  Indices start at 1.                             *)
(***************************************************************************)
EXTENDS MemoryMap

CONSTANTS
  E820_MAX_ENTRIES,
  AddrMod,           \* 2^64: addresses and sizes are uint64_t
  FirmwareMaps       \* the tables the boot loader may pass

Entries == [addr : 0 .. AddrMod - 1, size : 0 .. AddrMod - 1, type : Nat]

ASSUME MaxEntriesAssumption == E820_MAX_ENTRIES \in Nat \ {0}
ASSUME AddrModAssumption == AddrMod \in Nat \ {0}
ASSUME FirmwareMapsAssumption == FirmwareMaps \subseteq Seq(Entries)

VARIABLES
  raw,                   \* the table passed to e820_init
  status,                \* "sanitize", "ready", or "panic"
  collected,             \* entries of raw whose change points are collected
  change_points,
  sorted,                \* length of the sorted prefix of change_points
  swept,                 \* change points processed
  overlap_list,          \* indices of the entries that cover the swept address
  last_type, last_addr,  \* type and start of the entry being built, if any
  new_entries,           \* the new table without the entry being built
  last_ram_addr

vars == <<raw, status, collected, change_points, sorted, swept, overlap_list,
          last_type, last_addr, new_entries, last_ram_addr>>

Point(a, e) == [addr |-> a, entry |-> e]

Init ==
  /\ raw \in FirmwareMaps
  /\ status = "sanitize"
  /\ collected = 0 /\ change_points = <<>>
  /\ sorted = 1 /\ swept = 0
  /\ overlap_list = <<>>
  /\ last_type = 0 /\ last_addr = 0
  /\ new_entries = <<>>
  /\ last_ram_addr = 0

Sanitizing == status = "sanitize" /\ Len(raw) \in 2 .. E820_MAX_ENTRIES

\* More entries than e820_sanitize has room for, or an entry that ends beyond the
\* last address: it returns -1 and e820_init panics.
e820_sanitize_fails ==
  /\ status = "sanitize"
  /\ \/ Len(raw) > E820_MAX_ENTRIES
     \/ /\ Sanitizing /\ collected < Len(raw)
        /\ LET e == raw[collected + 1] IN End(e) % AddrMod < e.addr
  /\ status' = "panic"
  /\ UNCHANGED <<raw, collected, change_points, sorted, swept, overlap_list,
                 last_type, last_addr, new_entries, last_ram_addr>>

collect ==
  /\ Sanitizing /\ collected < Len(raw)
  /\ LET e == raw[collected + 1] IN
       /\ End(e) % AddrMod >= e.addr
       /\ change_points' =
            IF e.size = 0 THEN change_points
            ELSE change_points \o <<Point(e.addr, collected + 1),
                                    Point(End(e), collected + 1)>>
  /\ collected' = collected + 1
  /\ UNCHANGED <<raw, status, sorted, swept, overlap_list,
                 last_type, last_addr, new_entries, last_ram_addr>>

IsStart(p) == p.addr = raw[p.entry].addr

\* Mutant: ends are sorted before starts.
EndsFirst(a, b) ==
  \/ a.addr < b.addr
  \/ a.addr = b.addr /\ ~IsStart(a) /\ IsStart(b)

\* change_point_cmp(a, b) < 0: by address, a start before an end.
Precedes(a, b) ==
  \/ a.addr < b.addr
  \/ a.addr = b.addr /\ IsStart(a) /\ ~IsStart(b)

\* One round of the insertion sort.  The inner loop stops at an element that
\* strictly precedes the inserted one, so equal elements change places.
insert ==
  /\ Sanitizing /\ collected = Len(raw) /\ sorted < Len(change_points)
  /\ LET temp == change_points[sorted + 1] IN
     \E k \in 1 .. sorted + 1 :
       /\ k > 1 => Precedes(change_points[k - 1], temp)
       /\ \A j \in k .. sorted : ~Precedes(change_points[j], temp)
       /\ change_points' = [m \in 1 .. Len(change_points) |->
            IF m < k \/ m > sorted + 1 THEN change_points[m]
            ELSE IF m = k THEN temp ELSE change_points[m - 1]]
  /\ sorted' = sorted + 1
  /\ UNCHANGED <<raw, status, collected, swept, overlap_list,
                 last_type, last_addr, new_entries, last_ram_addr>>

\* overlap_list after change point p: a start is appended, an end is overwritten
\* by the last element.
Overlap(p) ==
  LET n == Len(overlap_list) IN
  IF IsStart(p) THEN Append(overlap_list, p.entry)
  ELSE [m \in 1 .. n - 1 |->
          IF overlap_list[m] = p.entry THEN overlap_list[n] ELSE overlap_list[m]]

\* Mutant: the first entry of the list decides.
FirstType(list, t) == t = IF list = <<>> THEN 0 ELSE raw[list[1]].type

\* t is current_type: the largest type of the overlapping entries.
IsCurrentType(list, t) ==
  /\ t # 0 => \E m \in DOMAIN list : raw[list[m]].type = t
  /\ \A m \in DOMAIN list : raw[list[m]].type <= t

\* The new table once the type changes to t at p: empty entries are dropped.
Emitted(p, t) ==
  IF last_type = 0 \/ p.addr = last_addr THEN new_entries
  ELSE Append(new_entries, [addr |-> last_addr, size |-> p.addr - last_addr,
                            type |-> last_type])

\* Mutant: the sweep goes on when the new table is full.
SweepingOn ==
  /\ Sanitizing /\ collected = Len(raw) /\ sorted >= Len(change_points)
  /\ swept < Len(change_points)

Sweeping ==
  /\ Sanitizing /\ collected = Len(raw) /\ sorted >= Len(change_points)
  /\ swept < Len(change_points) /\ Len(new_entries) < E820_MAX_ENTRIES

\* The sweep ends early when the new table is full.
sweep ==
  /\ Sweeping
  /\ LET p == change_points[swept + 1] IN
     /\ overlap_list' = Overlap(p)
     /\ \E t \in {0} \cup {raw[e].type : e \in DOMAIN raw} :
          /\ IsCurrentType(Overlap(p), t)
          /\ IF t = last_type THEN UNCHANGED <<new_entries, last_type, last_addr>>
             ELSE /\ new_entries' = Emitted(p, t)
                  /\ IF Len(Emitted(p, t)) = E820_MAX_ENTRIES
                     THEN UNCHANGED <<last_type, last_addr>>
                     ELSE /\ last_type' = t
                          /\ last_addr' = IF t = 0 THEN last_addr ELSE p.addr
  /\ swept' = swept + 1
  /\ UNCHANGED <<raw, status, collected, change_points, sorted, last_ram_addr>>

Sanitized ==
  /\ status = "sanitize"
  /\ \/ Len(raw) < 2
     \/ /\ Sanitizing /\ collected = Len(raw) /\ sorted >= Len(change_points)
        /\ ~Sweeping

IsRam(m) == new_entries[m].type = E820_TYPE_RAM

\* Mutant: the first RAM entry is taken for the last.
EndOfFirstRam(a) ==
  IF \A m \in DOMAIN new_entries : ~IsRam(m) THEN a = 0
  ELSE \E m \in DOMAIN new_entries :
         IsRam(m) /\ a = End(new_entries[m]) /\ \A l \in 1 .. m - 1 : ~IsRam(l)

\* a is what e820_init's loop from the last entry down leaves in last_ram_addr.
EndOfLastRam(a) ==
  IF \A m \in DOMAIN new_entries : ~IsRam(m) THEN a = 0
  ELSE \E m \in DOMAIN new_entries :
         /\ IsRam(m) /\ a = End(new_entries[m])
         /\ \A l \in m + 1 .. Len(new_entries) : ~IsRam(l)

find_last_ram ==
  /\ Sanitized
  /\ \E a \in 0 .. AddrMod - 1 :
       /\ EndOfLastRam(a)
       /\ last_ram_addr' = a
       /\ status' = IF a = 0 THEN "panic" ELSE "ready"
  /\ UNCHANGED <<raw, collected, change_points, sorted, swept, overlap_list,
                 last_type, last_addr, new_entries>>

Returned == status # "sanitize" /\ UNCHANGED vars

Next == e820_sanitize_fails \/ collect \/ insert \/ sweep \/ find_last_ram \/ Returned

Spec == Init /\ [][Next]_vars

(***************************************************************************)
(* Properties.                                                             *)
(***************************************************************************)

\* Every index stays inside its array, the slot being written included.
TypeOK ==
  /\ raw \in Seq(Entries)
  /\ status \in {"sanitize", "ready", "panic"}
  /\ collected \in 0 .. Len(raw)
  /\ change_points \in Seq([addr : 0 .. AddrMod - 1, entry : 1 .. Len(raw)])
  /\ Len(change_points) <= 2 * collected
  /\ sorted \in Nat /\ swept \in 0 .. Len(change_points)
  /\ overlap_list \in Seq(1 .. Len(raw)) /\ Len(overlap_list) <= E820_MAX_ENTRIES
  /\ last_type \in Nat /\ last_addr \in 0 .. AddrMod - 1
  /\ new_entries \in Seq(Entries) /\ Len(new_entries) <= E820_MAX_ENTRIES
  /\ last_ram_addr \in 0 .. AddrMod - 1

\* t is the largest type among the entries of map that cover a; 0 if none does.
IsTypeAt(map, a, t) ==
  /\ t # 0 => \E m \in DOMAIN map : Covers(map[m], a) /\ map[m].type = t
  /\ \A m \in DOMAIN map : Covers(map[m], a) => map[m].type <= t

\* The new table speaks about address a: it is complete, or it was full and a
\* lies below its end.
Described(a) ==
  swept = Len(change_points) \/ a < End(new_entries[Len(new_entries)])

\* "Larger value takes precedence" (e820.c:88): every address has, in the new
\* table, the largest type of the firmware entries that cover it.
LargestTypeWins ==
  status = "ready" =>
    \A a \in 0 .. AddrMod - 1 : Described(a) =>
      \A t \in {0} \cup {raw[m].type : m \in DOMAIN raw} :
        IsTypeAt(raw, a, t) => IsTypeAt(new_entries, a, t)

\* At every moment of the sweep the new table is sorted and disjoint, and
\* adjoining entries have been merged.
SanitizedWellFormed == WellFormed(new_entries)

\* last_ram_addr is where the firmware's RAM ends: RAM just below it, none above.
LastRamIsTop ==
  status = "ready" =>
    /\ IsTypeAt(raw, last_ram_addr - 1, E820_TYPE_RAM)
    /\ \A a \in last_ram_addr .. AddrMod - 1 :
         Described(a) => ~IsTypeAt(raw, a, E820_TYPE_RAM)
=============================================================================
