------------------------------ MODULE Bootmem ------------------------------
(***************************************************************************)
(* The boot-time page pool (arch/x86/bootmem.c) as functions on a memory   *)
(* record m.  The pool hands out RAM above the kernel, lowest first, and   *)
(* takes nothing back.  Fields of m used here:                             *)
(*   map        the sanitized memory map                                   *)
(*   pool       the statics of bootmem.c                                   *)
(*   ret        the value returned: an address, NULL for none              *)
(*   segments   the list built by __alloc                                  *)
(***************************************************************************)
EXTENDS MemoryMap, PageTables, FiniteSetsExt

CONSTANTS KERNEL_PHYS, KERNEL_END  \* the kernel image is [KERNEL_PHYS, KERNEL_END)

ASSUME BootmemAssumption ==
  /\ KERNEL_PHYS \in Nat \ {0} /\ KERNEL_PHYS % PAGE_SIZE = 0
  /\ KERNEL_END \in Nat /\ KERNEL_END > KERNEL_PHYS

Ram(m) == {i \in DOMAIN m.map : m.map[i].type = E820_TYPE_RAM}

DisabledPool == [state |-> "DISABLED", start |-> 0, end |-> 0, entry |-> 1, bytes |-> 0]

\* Mutant: the pool starts at the RAM entry, over the kernel.
bootmem_init_over_kernel(m) ==
  LET above == {i \in Ram(m) : End(m.map[i]) > KERNEL_END}
      start == m.map[Min(above)].addr
  IN  IF above = {} \/ start > LOW_MAP_END THEN panic(m)
      ELSE [m EXCEPT !.pool = [state |-> "ENABLED", entry |-> Min(above), bytes |-> 0,
              start |-> ROUND_UP(start, PAGE_SIZE), end |-> ROUND_UP(start, PAGE_SIZE)]]

bootmem_init(m) ==
  LET above == {i \in Ram(m) : End(m.map[i]) > KERNEL_END}
      start == Larger(m.map[Min(above)].addr, KERNEL_END)
  IN  IF m.pool.state # "DISABLED" THEN m
      ELSE IF above = {} \/ start > LOW_MAP_END THEN panic(m)
      ELSE [m EXCEPT !.pool = [state |-> "ENABLED", entry |-> Min(above), bytes |-> 0,
              start |-> ROUND_UP(start, PAGE_SIZE), end |-> ROUND_UP(start, PAGE_SIZE)]]

\* The first whole page of entry i that is not below the end of the pool.
FirstPage(m, i) == ROUND_UP(Larger(m.pool.end, m.map[i].addr), PAGE_SIZE)

\* The entries, from the current one on, with room for a page.
Roomy(m) ==
  {i \in Ram(m) : i >= m.pool.entry /\ FirstPage(m, i) + PAGE_SIZE <= End(m.map[i])}

bootmem_alloc_page_phys(m) ==
  LET i == Min(Roomy(m)) IN
  IF m.pool.state # "ENABLED" THEN [m EXCEPT !.ret = NULL]
  ELSE IF m.pool.entry \notin DOMAIN m.map \/ m.map[m.pool.entry].addr > m.pool.end
       THEN panic([m EXCEPT !.ret = NULL])
  ELSE IF Roomy(m) = {} THEN [m EXCEPT !.ret = NULL]
  ELSE [m EXCEPT !.ret = FirstPage(m, i),
                 !.pool.end = FirstPage(m, i) + PAGE_SIZE,
                 !.pool.entry = i,
                 !.pool.bytes = @ + PAGE_SIZE]

\* Mutant: the pool is not advanced past what __alloc took.
alloc_uncommitted(m, bytes) ==
  LET first == FirstPage(m, m.pool.entry)
      end == ROUND_DOWN(End(m.map[m.pool.entry]), PAGE_SIZE)
  IN  IF first + bytes > end THEN [m EXCEPT !.segments = <<>>]
      ELSE [m EXCEPT !.segments = <<[start |-> first, size |-> bytes]>>,
                     !.pool.bytes = @ + bytes]

\* __alloc: whole pages from entry after entry until there are enough bytes.  A
\* header is written to every piece; only a complete list is committed.
alloc(m, bytes) ==
  LET taken[i \in 0 .. Len(m.map)] ==
        IF i < m.pool.entry THEN [list |-> <<>>, left |-> bytes, entry |-> 0]
        ELSE LET t == taken[i - 1]
                 start == FirstPage(m, i)
                 end == ROUND_DOWN(End(m.map[i]), PAGE_SIZE)
                 size == Smaller(end - start, t.left)
             IN  IF i \notin Ram(m) \/ t.left = 0 \/ start >= end THEN t
                 ELSE [list |-> Append(t.list, [start |-> start, size |-> size]),
                       left |-> t.left - size, entry |-> i]
      t == taken[Len(m.map)]
      last == t.list[Len(t.list)]
  IN  IF m.pool.state # "ENABLED" \/ bytes = 0 THEN [m EXCEPT !.segments = <<>>]
      ELSE IF \E k \in DOMAIN t.list : ~Reachable(m, t.list[k].start) THEN fault(m)
      ELSE IF t.left > 0 THEN [m EXCEPT !.segments = <<>>]
      ELSE [m EXCEPT !.segments = t.list,
                     !.pool.end = last.start + last.size,
                     !.pool.entry = t.entry,
                     !.pool.bytes = @ + bytes]

bootmem_lock(m) == [m EXCEPT !.pool.state = "LOCKED"]
=============================================================================
