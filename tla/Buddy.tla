------------------------------- MODULE Buddy -------------------------------
(***************************************************************************)
(* The page allocator of devOS (mm/buddy.c): buddy_init's grouping loop,   *)
(* alloc_pages and free_pages, over the struct page array mem_map and the  *)
(* free lists free_matrix.                                                 *)
(*                                                                         *)
(* The kernel is single-CPU and calls the allocator with interrupts off:   *)
(* no two calls overlap.  A call is cut into one step per loop iteration,  *)
(* so the state between two iterations is visible.  struct page pointers   *)
(* are page frame numbers, NULL is -1, and the linked lists are kept as    *)
(* the prev/next pointers of the code.                                     *)
(***************************************************************************)
EXTENDS Integers, FiniteSets, FiniteSetsExt

CONSTANTS
  NrPages,   \* mem_nr_pages
  MaxOrder,  \* PAGE_MAX_ORDER
  Size,      \* Size[k] is 1ULL << k, the pages of a block of order k
  RamSets    \* the sets of pages buddy_init may find free in the E820 map

Pages == 0 .. NrPages - 1
Orders == 0 .. MaxOrder
NULL == -1

ASSUME NrPagesAssumption == NrPages \in Nat \ {0}
ASSUME MaxOrderAssumption == MaxOrder \in Nat
ASSUME SizeAssumption ==
  /\ Size \in [Orders -> Nat \ {0}]
  /\ Size[0] = 1
  /\ \A k \in Orders : k < MaxOrder => Size[k + 1] = 2 * Size[k]
ASSUME RamSetsAssumption == RamSets \subseteq SUBSET Pages

PG_RESERVED == 0
PG_BUDDY == 1
PG_ALLOCATED == 2
PG_TAIL == 3

VARIABLES
  state, order, prev, next,  \* the fields of mem_map[pfn]
  free_matrix,               \* list heads, one per order
  pc,          \* where the running call is; "idle" between calls
  ram,         \* the pages the E820 scan of buddy_init released
  page,        \* the call's local variable page (grouping: the cursor i)
  want,        \* alloc_pages' argument order
  accounted,   \* buddy_init's accounted_pages
  held,        \* ghost: <<page, order>> of the allocations callers hold
  left_merged  \* ghost: free_pages has merged into a left buddy before

links == <<prev, next, free_matrix>>
ghosts == <<ram, held, left_merged>>
vars == <<state, order, prev, next, free_matrix, pc, page, want, accounted,
          ram, held, left_merged>>

Block(p, k) == p .. p + Size[k] - 1

(***************************************************************************)
(* List helpers.                                                           *)
(***************************************************************************)

\* insert_free(p) where p->order is k.
insert_free(p, k) ==
  /\ next' = [next EXCEPT ![p] = free_matrix[k]]
  /\ prev' = [q \in Pages |-> IF q = free_matrix[k] THEN p
                              ELSE IF q = p THEN NULL ELSE prev[q]]
  /\ free_matrix' = [free_matrix EXCEPT ![k] = p]

\* Mutant: without the look at free_matrix, the only page of a list seems
\* unlinked.
NotLinkedNoHeadCheck(p) ==
  state[p] # PG_BUDDY \/ (prev[p] = NULL /\ next[p] = NULL)

\* The early returns of remove_free: p is not a free head, or seems unlinked.
NotLinked(p) ==
  \/ state[p] # PG_BUDDY
  \/ prev[p] = NULL /\ next[p] = NULL /\ free_matrix[order[p]] # p

remove_free(p) ==
  \/ NotLinked(p) /\ UNCHANGED links
  \/ /\ ~NotLinked(p)
     /\ next' = [q \in Pages |-> IF q = p THEN NULL
                                 ELSE IF q = prev[p] THEN next[p] ELSE next[q]]
     /\ prev' = [q \in Pages |-> IF q = p THEN NULL
                                 ELSE IF q = next[p] THEN prev[p] ELSE prev[q]]
     /\ free_matrix' = IF prev[p] = NULL
                       THEN [free_matrix EXCEPT ![order[p]] = next[p]]
                       ELSE free_matrix

\* Mutant: the list head is not advanced.
pop_free_stays(p, k) ==
  /\ prev' = [q \in Pages |-> IF q = p \/ q = next[p] THEN NULL ELSE prev[q]]
  /\ next' = [next EXCEPT ![p] = NULL]
  /\ UNCHANGED free_matrix

\* pop_free(k) of a nonempty list: p is its first page.
pop_free(p, k) ==
  /\ free_matrix' = [free_matrix EXCEPT ![k] = next[p]]
  /\ prev' = [q \in Pages |-> IF q = p \/ q = next[p] THEN NULL ELSE prev[q]]
  /\ next' = [next EXCEPT ![p] = NULL]

alignment_order(pfn) == Max({k \in Orders : pfn % Size[k] = 0})

\* Mutant: the logarithm is rounded up.
IsLengthOrderUp(k, length) ==
  Size[k] >= length /\ (k > 0 => length > Size[k - 1])

\* length_order(length) = k, for a nonzero length of at most one largest block.
IsLengthOrder(k, length) ==
  Size[k] <= length /\ (k < MaxOrder => length < Size[k + 1])

(***************************************************************************)
(* buddy_init, from the grouping loop on: the pages the E820 scan released *)
(* are PG_BUDDY of order 0, every other page is as mem_init left it.       *)
(***************************************************************************)
Init ==
  /\ ram \in RamSets
  /\ state = [p \in Pages |-> IF p \in ram THEN PG_BUDDY ELSE PG_RESERVED]
  /\ order = [p \in Pages |-> 0]
  /\ prev = [p \in Pages |-> NULL]
  /\ next = [p \in Pages |-> NULL]
  /\ free_matrix = [k \in Orders |-> NULL]
  /\ pc = "group"
  /\ page = 0
  /\ want = 0
  /\ accounted = 0
  /\ held = {}
  /\ left_merged = FALSE

GroupSkip ==
  /\ pc = "group" /\ page < NrPages
  /\ state[page] # PG_BUDDY
  /\ page' = page + 1
  /\ UNCHANGED <<state, order, links, pc, want, accounted, ghosts>>

\* e is where the inner loop stops: after the PG_BUDDY pages from i on, at most
\* one aligned block of them.
IsRunEnd(i, e) ==
  /\ e - i <= Size[alignment_order(i)]
  /\ \A j \in i .. e - 1 : state[j] = PG_BUDDY
  /\ e < NrPages /\ e - i < Size[alignment_order(i)] => state[e] # PG_BUDDY

GroupBlock ==
  /\ pc = "group" /\ page < NrPages
  /\ state[page] = PG_BUDDY
  /\ \E e \in page + 1 .. NrPages, k \in Orders :
       /\ IsRunEnd(page, e) /\ IsLengthOrder(k, e - page)
       /\ order' = [order EXCEPT ![page] = k]
       /\ state' = [q \in Pages |-> IF q \in Block(page, k) \ {page}
                                    THEN PG_TAIL ELSE state[q]]
       /\ insert_free(page, k)
       /\ accounted' = accounted + Size[k]
       /\ page' = page + Size[k]
  /\ UNCHANGED <<pc, want, ghosts>>

\* expected_pages, which the scan adds up, is the number of pages it released
\* (ReleasedExactly in BootMemory, where the scan is).
GroupDone ==
  /\ pc = "group" /\ page >= NrPages
  /\ pc' = IF accounted = Cardinality(ram) THEN "idle" ELSE "panic_group"
  /\ page' = NULL
  /\ UNCHANGED <<state, order, links, want, accounted, ghosts>>

(***************************************************************************)
(* alloc_pages(o)                                                          *)
(***************************************************************************)

alloc_pages_bad_order(o) ==
  /\ pc = "idle" /\ o > MaxOrder
  /\ pc' = "panic_order"
  /\ UNCHANGED <<state, order, links, page, want, accounted, ghosts>>

\* No list of order o or more has a page: alloc_pages returns NULL.
alloc_pages_none(o) ==
  /\ pc = "idle" /\ o <= MaxOrder
  /\ \A k \in o .. MaxOrder : free_matrix[k] = NULL
  /\ UNCHANGED vars

\* The search loop: the first page of the smallest nonempty list.
alloc_pages(o) ==
  /\ pc = "idle" /\ o <= MaxOrder
  /\ \E k \in o .. MaxOrder :
       /\ free_matrix[k] # NULL
       /\ \A j \in o .. k - 1 : free_matrix[j] = NULL
       /\ page' = free_matrix[k]
       /\ pop_free(free_matrix[k], k)
  /\ pc' = "split"
  /\ want' = o
  /\ UNCHANGED <<state, order, accounted, ghosts>>

\* One iteration of the split loop: the upper half becomes a free block.
AllocSplit ==
  /\ pc = "split" /\ order[page] > want
  /\ LET k == order[page] - 1
         buddy == page + Size[k]
     IN  IF state[buddy] # PG_TAIL
         THEN /\ order' = [order EXCEPT ![page] = k]
              /\ pc' = "panic_tail"
              /\ UNCHANGED <<state, links>>
         ELSE /\ order' = [order EXCEPT ![page] = k, ![buddy] = k]
              /\ insert_free(buddy, k)
              /\ state' = [state EXCEPT ![buddy] = PG_BUDDY]
              /\ UNCHANGED pc
  /\ UNCHANGED <<page, want, accounted, ghosts>>

AllocReturn ==
  /\ pc = "split" /\ order[page] <= want
  /\ state' = [state EXCEPT ![page] = PG_ALLOCATED]
  /\ held' = held \cup {<<page, want>>}
  /\ pc' = "idle"
  /\ page' = NULL
  /\ UNCHANGED <<order, links, want, accounted, ram, left_merged>>

(***************************************************************************)
(* free_pages(p), called by the holder of <<p, o>>.                        *)
(***************************************************************************)

free_pages(p, o) ==
  /\ pc = "idle" /\ <<p, o>> \in held
  /\ held' = held \ {<<p, o>>}
  /\ IF state[p] # PG_ALLOCATED
     THEN UNCHANGED <<state, links, pc, page>>
     ELSE /\ state' = [state EXCEPT ![p] = PG_BUDDY]
          /\ prev' = [prev EXCEPT ![p] = NULL]
          /\ next' = [next EXCEPT ![p] = NULL]
          /\ pc' = "merge"
          /\ page' = p
          /\ UNCHANGED free_matrix
  /\ UNCHANGED <<order, want, accounted, ram, left_merged>>

\* The potential buddy of the block being freed is the block after it, or the
\* one before it; the merge loop breaks unless that is a free block of the same
\* order inside mem_map.
BuddyIsRight == alignment_order(page) > order[page]
PotentialBuddy ==
  IF BuddyIsRight THEN page + Size[order[page]] ELSE page - Size[order[page]]

\* Mutant: blocks grow past PAGE_MAX_ORDER.
CanMergeNoCap ==
  /\ PotentialBuddy \in Pages
  /\ state[PotentialBuddy] = PG_BUDDY
  /\ order[PotentialBuddy] = order[page]

\* Mutant: merging stops one order early.
CanMergeEarlyCap ==
  /\ order[page] + 1 < MaxOrder
  /\ PotentialBuddy \in Pages
  /\ state[PotentialBuddy] = PG_BUDDY
  /\ order[PotentialBuddy] = order[page]

CanMerge ==
  /\ order[page] < MaxOrder
  /\ PotentialBuddy \in Pages
  /\ state[PotentialBuddy] = PG_BUDDY
  /\ order[PotentialBuddy] = order[page]

\* Mutant: the absorbed buddy stays marked as a head.
MergeRightKeepsHead ==
  /\ pc = "merge" /\ CanMerge /\ BuddyIsRight
  /\ remove_free(PotentialBuddy)
  /\ order' = [order EXCEPT ![page] = @ + 1]
  /\ UNCHANGED <<state, pc, page, want, accounted, ghosts>>

MergeRight ==
  /\ pc = "merge" /\ CanMerge /\ BuddyIsRight
  /\ remove_free(PotentialBuddy)
  /\ state' = [state EXCEPT ![PotentialBuddy] = PG_TAIL]
  /\ order' = [order EXCEPT ![page] = @ + 1]
  /\ UNCHANGED <<pc, page, want, accounted, ghosts>>

MergeLeft ==
  /\ pc = "merge" /\ CanMerge /\ ~BuddyIsRight
  /\ remove_free(page)
  /\ state' = [state EXCEPT ![page] = PG_TAIL]
  /\ order' = [order EXCEPT ![PotentialBuddy] = @ + 1]
  /\ page' = PotentialBuddy
  /\ left_merged' = TRUE
  /\ UNCHANGED <<pc, want, accounted, ram, held>>

FreeInsert ==
  /\ pc = "merge" /\ ~CanMerge
  /\ insert_free(page, order[page])
  /\ state' = [state EXCEPT ![page] = PG_BUDDY]
  /\ pc' = "idle"
  /\ page' = NULL
  /\ UNCHANGED <<order, want, accounted, ghosts>>

\* panic never returns.
Panicked == {"panic_group", "panic_order", "panic_tail"}
Halted == pc \in Panicked /\ UNCHANGED vars

Next ==
  \/ GroupSkip \/ GroupBlock \/ GroupDone
  \/ \E o \in 0 .. MaxOrder + 1 :
       alloc_pages_bad_order(o) \/ alloc_pages_none(o) \/ alloc_pages(o)
  \/ AllocSplit \/ AllocReturn
  \/ \E p \in Pages, o \in Orders : free_pages(p, o)
  \/ MergeRight \/ MergeLeft \/ FreeInsert
  \/ Halted

Spec == Init /\ [][Next]_vars

(***************************************************************************)
(* Properties.                                                             *)
(*                                                                         *)
(* free_pages' merge into the left buddy does not take that buddy off the  *)
(* free list it is on, so most of what follows is claimed up to the first  *)
(* such merge; UpperHalfIsTail and ListedIsFree are lost after it.         *)
(***************************************************************************)

TypeOK ==
  /\ state \in [Pages -> {PG_RESERVED, PG_BUDDY, PG_ALLOCATED, PG_TAIL}]
  /\ order \in [Pages -> Orders]
  /\ prev \in [Pages -> Pages \cup {NULL}]
  /\ next \in [Pages -> Pages \cup {NULL}]
  /\ free_matrix \in [Orders -> Pages \cup {NULL}]
  /\ pc \in {"group", "idle", "split", "merge"} \cup Panicked
  /\ page \in Nat \cup {NULL}
  /\ pc = "group" => page \in Nat
  /\ pc \in {"split", "merge"} => page \in Pages
  /\ want \in Orders
  /\ accounted \in Nat
  /\ ram \subseteq Pages
  /\ held \subseteq Pages \X Orders
  /\ left_merged \in BOOLEAN

Heads == {p \in Pages : state[p] \in {PG_BUDDY, PG_ALLOCATED}}
BlockOf(h) == Block(h, order[h])

\* The allocator never touches a page that buddy_init did not release to it
\* (the kernel image, the bootmem pool, holes): such pages stay PG_RESERVED and
\* every block lies inside RAM, so no split or merge indexes mem_map out of
\* bounds either.  This holds for ever, left merges included.
OnlyRam ==
  /\ \A p \in Pages : p \in ram <=> state[p] # PG_RESERVED
  /\ \A p \in ram : BlockOf(p) \subseteq ram

\* The blocks cut up the RAM given to buddy_init: a RAM page is in the block of
\* exactly one head, a page that is not RAM is in none, and the blocks callers
\* hold are the allocated ones.  So no page is lost and none is handed out twice.
Partition ==
  ~left_merged =>
    /\ \A p \in Pages : p \in ram <=> \E h \in Heads : p \in BlockOf(h)
    /\ \A g, h \in Heads : g # h => BlockOf(g) \cap BlockOf(h) = {}
    /\ held = {<<h, order[h]>> : h \in {p \in Heads : state[p] = PG_ALLOCATED}}

\* The n-th page of the free list of order k, NULL past its end.
Walk(k) ==
  LET w[n \in 0 .. NrPages] ==
        IF n = 0 THEN free_matrix[k]
        ELSE IF w[n - 1] = NULL THEN NULL ELSE next[w[n - 1]]
  IN  w

\* Free heads that belong on a list: not the block a call has in hand, and not
\* the pages the grouping loop has yet to reach.
Listable(p) ==
  /\ state[p] = PG_BUDDY
  /\ pc \in {"split", "merge"} => p # page
  /\ pc = "group" => p < page

\* Following next from free_matrix[k] ends, and meets exactly the free blocks of
\* order k: none is missing (a leak) and none is stale (a double allocation).
FreeListsExact ==
  ~left_merged =>
    \A k \in Orders :
      /\ Walk(k)[NrPages] = NULL
      /\ Range(Walk(k)) \ {NULL} = {p \in Pages : Listable(p) /\ order[p] = k}

\* Between calls no two free blocks are halves of one aligned block: free_pages
\* has merged "as much as possible", and buddy_init groups as much as possible.
Coalesced ==
  ~left_merged /\ pc = "idle" =>
    \A p \in Heads : 
      /\ p % Size[order[p]] = 0
      /\ order[p] < MaxOrder /\ p % Size[order[p] + 1] = 0 =>
           LET b == p + Size[order[p]]
           IN  ~ (b \in Heads /\ state[p] = PG_BUDDY /\ state[b] = PG_BUDDY
                  /\ order[b] = order[p])

\* alloc_pages never meets its panic on the state of the upper half of a block
\* it splits.
SplitFindsTail == ~left_merged => pc # "panic_tail"

\* buddy_init's check that the grouping loop accounted for every page holds.
GroupingAccounts == pc # "panic_group"

\* As SplitFindsTail, for every behaviour of the code: the assertion in the split
\* loop ("expected %u(PG_TAIL)") states it, and it does not hold.
UpperHalfIsTail == pc # "panic_tail"

\* The first page of a free list is the head of a free block: page.h says that
\* PG_BUDDY marks those, and PG_ALLOCATED the head of an allocation.  It does not
\* hold after a left merge.
ListedIsFree ==
  pc = "idle" =>
    \A k \in Orders :
      free_matrix[k] # NULL => state[free_matrix[k]] = PG_BUDDY

\* The allocator keeps the contract of PageAllocator up to its first left merge.
Contract == INSTANCE PageAllocator WITH broken <- left_merged
KeepsContract == Contract!Spec

=============================================================================
