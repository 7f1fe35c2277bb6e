----------------------------- MODULE BuddyProofs ----------------------------
(***************************************************************************)
(* Proofs about Buddy, for every number of pages and every PAGE_MAX_ORDER. *)
(* First what holds for ever: types are kept and the allocator stays inside*)
(* the RAM it was given, left merges included.  OnlyRam alone is not       *)
(* inductive: the pages the lists lead to, and the page a call has in      *)
(* hand, must be RAM as well (RamInv).  Then what the list helpers do to   *)
(* well-linked free lists, and what buddy_init does to the blocks.  Last,  *)
(* up to the first left merge: the blocks partition RAM, splitting never   *)
(* panics, and the contract of PageAllocator is kept (BlocksCorrect,       *)
(* SplitsCorrect, ContractKept; BuddyInv is the inductive invariant).      *)
(***************************************************************************)
EXTENDS Buddy, TLAPS

LEMMA SizeFacts ==
  /\ \A k \in Orders : Size[k] \in Nat /\ Size[k] > 0
  /\ Size[0] = 1 /\ 0 \in Orders
  /\ \A k \in Orders : k < MaxOrder => k + 1 \in Orders /\ Size[k + 1] = 2 * Size[k]
  /\ \A k \in Orders : k > 0 => k - 1 \in Orders /\ Size[k] = 2 * Size[k - 1]
BY SizeAssumption, MaxOrderAssumption DEF Orders

ListsInRam ==
  /\ \A k \in Orders : free_matrix[k] # NULL => free_matrix[k] \in ram
  /\ \A p \in Pages : next[p] # NULL => next[p] \in ram

InHandInRam == pc \in {"split", "merge"} => page \in ram

RamInv == TypeOK /\ OnlyRam /\ ListsInRam /\ InHandInRam

LEMMA InitRam == Init => RamInv
<1> SUFFICES ASSUME Init PROVE RamInv
  OBVIOUS
<1> USE DEF Init
<1>1. TypeOK
  BY NrPagesAssumption, RamSetsAssumption, SizeFacts, Zenon DEF TypeOK, NULL
<1>2. OnlyRam
  <2>1. ram \subseteq Pages
    BY RamSetsAssumption
  <2>2. \A p \in ram : BlockOf(p) = {p}
    BY <2>1, SizeFacts, NrPagesAssumption DEF BlockOf, Block, Pages
  <2> QED BY <2>1, <2>2 DEF OnlyRam, PG_RESERVED, PG_BUDDY
<1>3. ListsInRam /\ InHandInRam
  BY DEF ListsInRam, InHandInRam
<1> QED BY <1>1, <1>2, <1>3 DEF RamInv

\* The list helpers keep the pointers well-typed and inside RAM.
LEMMA InsertRam ==
  ASSUME RamInv, NEW p \in ram, NEW k \in Orders, insert_free(p, k), ram' = ram
  PROVE  /\ prev' \in [Pages -> Pages \cup {NULL}]
         /\ next' \in [Pages -> Pages \cup {NULL}]
         /\ free_matrix' \in [Orders -> Pages \cup {NULL}]
         /\ ListsInRam'
BY DEF RamInv, TypeOK, ListsInRam, insert_free, NULL, Pages

LEMMA RemoveRam ==
  ASSUME RamInv, NEW p \in Pages, remove_free(p), ram' = ram
  PROVE  /\ prev' \in [Pages -> Pages \cup {NULL}]
         /\ next' \in [Pages -> Pages \cup {NULL}]
         /\ free_matrix' \in [Orders -> Pages \cup {NULL}]
         /\ ListsInRam'
<1>1. CASE UNCHANGED links
  BY <1>1 DEF RamInv, TypeOK, ListsInRam, links
<1>2. CASE ~UNCHANGED links
  <2>1. order[p] \in Orders
    BY DEF RamInv, TypeOK
  <2>2. next' \in [Pages -> Pages \cup {NULL}] /\ prev' \in [Pages -> Pages \cup {NULL}]
    BY <1>2 DEF RamInv, TypeOK, remove_free
  <2>3. free_matrix' \in [Orders -> Pages \cup {NULL}]
    BY <1>2, <2>1 DEF RamInv, TypeOK, remove_free
  <2>4. ListsInRam'
    BY <1>2, <2>1 DEF RamInv, TypeOK, ListsInRam, remove_free
  <2> QED BY <2>2, <2>3, <2>4
<1> QED BY <1>1, <1>2

LEMMA PopRam ==
  ASSUME RamInv, NEW k \in Orders, free_matrix[k] # NULL,
         pop_free(free_matrix[k], k), ram' = ram
  PROVE  /\ prev' \in [Pages -> Pages \cup {NULL}]
         /\ next' \in [Pages -> Pages \cup {NULL}]
         /\ free_matrix' \in [Orders -> Pages \cup {NULL}]
         /\ ListsInRam'
BY DEF RamInv, TypeOK, ListsInRam, pop_free, NULL, Pages

\* alloc_pages and free_pages find a page's potential buddy, and the merged or
\* split blocks, inside RAM.
LEMMA SplitRam ==
  ASSUME RamInv, NEW k \in Orders, pc = "split", order[page] > want, k = order[page] - 1
  PROVE  /\ k + 1 \in Orders
         /\ page + Size[k] \in ram
         /\ page + Size[k] # page
         /\ Block(page, k) \subseteq ram
         /\ Block(page + Size[k], k) \subseteq ram
<1>1. /\ page \in ram /\ page \in Int /\ k + 1 \in Orders /\ order[page] = k + 1
      /\ k < MaxOrder
  BY MaxOrderAssumption DEF RamInv, TypeOK, OnlyRam, InHandInRam, Pages, Orders
<1>2. Size[k] \in Nat /\ Size[k] > 0 /\ Size[k + 1] = 2 * Size[k]
  BY <1>1, SizeFacts
<1>3. Block(page, k + 1) \subseteq ram
  BY <1>1, Zenon DEF RamInv, OnlyRam, BlockOf
<1>4. /\ page + Size[k] \in Block(page, k + 1)
      /\ Block(page, k) \subseteq Block(page, k + 1)
      /\ Block(page + Size[k], k) \subseteq Block(page, k + 1)
  BY <1>1, <1>2 DEF Block
<1> QED BY <1>1, <1>2, <1>3, <1>4

LEMMA MergeRam ==
  ASSUME RamInv, pc = "merge", CanMerge
  PROVE  /\ page \in ram /\ PotentialBuddy \in ram
         /\ order[page] + 1 \in Orders
         /\ order[PotentialBuddy] = order[page]
         /\ BuddyIsRight => /\ PotentialBuddy = page + Size[order[page]]
                            /\ Block(page, order[page] + 1) \subseteq ram
         /\ ~BuddyIsRight => /\ PotentialBuddy = page - Size[order[page]]
                             /\ Block(PotentialBuddy, order[page] + 1) \subseteq ram
<1> DEFINE k == order[page]
           b == PotentialBuddy
<1>1. /\ page \in ram /\ b \in ram /\ k \in Orders /\ order[b] = k
      /\ k + 1 \in Orders /\ Size[k + 1] = 2 * Size[k] /\ Size[k] \in Nat
      /\ page \in Int /\ b \in Int
  BY SizeFacts DEF RamInv, TypeOK, OnlyRam, InHandInRam, CanMerge, Pages, PG_BUDDY, PG_RESERVED
<1>2. Block(page, k) \subseteq ram /\ Block(b, k) \subseteq ram
  BY <1>1 DEF RamInv, OnlyRam, BlockOf
<1>3. CASE BuddyIsRight
  <2>1. b = page + Size[k]
    BY <1>3 DEF PotentialBuddy
  <2>2. Block(page, k + 1) \subseteq Block(page, k) \cup Block(b, k)
    BY <1>1, <2>1 DEF Block
  <2> QED BY <1>1, <1>2, <1>3, <2>1, <2>2
<1>4. CASE ~BuddyIsRight
  <2>1. b = page - Size[k]
    BY <1>4 DEF PotentialBuddy
  <2>2. Block(b, k + 1) \subseteq Block(b, k) \cup Block(page, k)
    BY <1>1, <2>1 DEF Block
  <2> QED BY <1>1, <1>2, <1>4, <2>1, <2>2
<1> QED BY <1>3, <1>4

LEMMA NextRam == RamInv /\ [Next]_vars => RamInv'
<1> SUFFICES ASSUME RamInv, [Next]_vars PROVE RamInv'
  OBVIOUS
<1> USE DEF RamInv
<1>0. CASE UNCHANGED vars
  BY <1>0 DEF vars, TypeOK, OnlyRam, ListsInRam, InHandInRam, BlockOf, Panicked
<1>1. CASE GroupSkip
  <2>1. TypeOK'
    BY <1>1 DEF GroupSkip, TypeOK, links, ghosts
  <2> QED
    BY <1>1, <2>1 DEF GroupSkip, OnlyRam, ListsInRam, InHandInRam, BlockOf, links, ghosts
<1>2. CASE GroupBlock
  <2>1. PICK e \in page + 1 .. NrPages, k \in Orders :
          /\ IsRunEnd(page, e) /\ IsLengthOrder(k, e - page)
          /\ order' = [order EXCEPT ![page] = k]
          /\ state' = [q \in Pages |-> IF q \in Block(page, k) \ {page}
                                       THEN PG_TAIL ELSE state[q]]
          /\ insert_free(page, k)
          /\ accounted' = accounted + Size[k]
          /\ page' = page + Size[k]
    BY <1>2, Zenon DEF GroupBlock
  <2>2. page \in Pages /\ Size[k] \in Nat /\ pc = "group" /\ state[page] = PG_BUDDY
        /\ UNCHANGED <<pc, want, ram, held, left_merged>>
    BY <1>2, NrPagesAssumption, SizeFacts DEF GroupBlock, TypeOK, Pages, ghosts
  <2>3. Block(page, k) \subseteq page .. e - 1
    BY <2>1, <2>2, NrPagesAssumption DEF IsLengthOrder, Block, Pages
  <2>4. page .. e - 1 \subseteq Pages
    BY <2>2, NrPagesAssumption DEF Pages
  <2>5. \A q \in Block(page, k) : q \in ram
    BY <2>1, <2>3, <2>4 DEF IsRunEnd, OnlyRam, PG_BUDDY, PG_RESERVED
  <2>6. page \in ram
    BY <2>2 DEF OnlyRam, PG_BUDDY, PG_RESERVED
  <2>7. TypeOK'
    <3>1. page' \in Nat /\ accounted' \in Nat
      BY <2>1, <2>2 DEF TypeOK
    <3>2. /\ state' \in [Pages -> {PG_RESERVED, PG_BUDDY, PG_ALLOCATED, PG_TAIL}]
          /\ order' \in [Pages -> Orders]
      BY <2>1, Zenon DEF TypeOK
    <3> QED
      BY <2>1, <2>2, <2>6, <3>1, <3>2, InsertRam DEF TypeOK
  <2>8. OnlyRam'
    BY <2>1, <2>2, <2>5 DEF OnlyRam, BlockOf, Block, TypeOK, PG_TAIL, PG_RESERVED
  <2>9. ListsInRam' /\ InHandInRam'
    BY <2>1, <2>2, <2>6, InsertRam DEF InHandInRam
  <2> QED BY <2>7, <2>8, <2>9
<1>3. CASE GroupDone
  <2>1. TypeOK'
    BY <1>3 DEF GroupDone, TypeOK, links, ghosts, Panicked
  <2> QED
    BY <1>3, <2>1 DEF GroupDone, OnlyRam, ListsInRam, InHandInRam, BlockOf, links, ghosts
<1>4. ASSUME NEW o \in 0 .. MaxOrder + 1, alloc_pages_bad_order(o) PROVE RamInv'
  <2>1. TypeOK'
    BY <1>4 DEF alloc_pages_bad_order, TypeOK, links, ghosts, Panicked
  <2> QED
    BY <1>4, <2>1 DEF alloc_pages_bad_order, OnlyRam, ListsInRam, InHandInRam,
                      BlockOf, links, ghosts
<1>5. ASSUME NEW o \in 0 .. MaxOrder + 1, alloc_pages(o) PROVE RamInv'
  <2>1. PICK k \in o .. MaxOrder : /\ free_matrix[k] # NULL
                                   /\ page' = free_matrix[k]
                                   /\ pop_free(free_matrix[k], k)
    BY <1>5 DEF alloc_pages
  <2>2. k \in Orders /\ o \in Orders
    BY <1>5, MaxOrderAssumption DEF Orders, alloc_pages
  <2>3. pc' = "split" /\ want' = o
        /\ UNCHANGED <<state, order, accounted, ram, held, left_merged>>
    BY <1>5 DEF alloc_pages, ghosts
  <2>4. page' \in ram /\ page' \in Pages
    BY <2>1, <2>2 DEF ListsInRam, TypeOK
  <2>5. TypeOK'
    BY <2>1, <2>2, <2>3, <2>4, PopRam DEF TypeOK, Pages
  <2> QED
    BY <2>1, <2>2, <2>3, <2>4, <2>5, PopRam DEF OnlyRam, InHandInRam, BlockOf
<1>6. CASE AllocSplit
  <2> DEFINE k == order[page] - 1
             b == page + Size[k]
  <2>1. pc = "split" /\ order[page] > want /\ page \in Pages /\ page \in ram
        /\ UNCHANGED <<page, want, accounted, ram, held, left_merged>>
    BY <1>6 DEF AllocSplit, TypeOK, InHandInRam, ghosts
  <2>2. k \in Orders
    BY <2>1, MaxOrderAssumption DEF TypeOK, Orders
  <2> HIDE DEF k
  <2>3. /\ b \in ram /\ b # page /\ Block(page, k) \subseteq ram
        /\ Block(b, k) \subseteq ram
    BY <2>1, <2>2, SplitRam DEF k
  <2>4. CASE state[b] # PG_TAIL
    <3>1. /\ order' = [order EXCEPT ![page] = k] /\ pc' = "panic_tail"
          /\ UNCHANGED <<state, prev, next, free_matrix>>
      BY <1>6, <2>4 DEF AllocSplit, k, links
    <3>2. TypeOK'
      BY <2>1, <2>2, <3>1 DEF TypeOK, Panicked
    <3> QED
      BY <2>1, <2>2, <2>3, <3>1, <3>2
      DEF OnlyRam, ListsInRam, InHandInRam, BlockOf, Block, TypeOK
  <2>5. CASE state[b] = PG_TAIL
    <3>1. /\ order' = [order EXCEPT ![page] = k, ![b] = k] /\ pc' = pc
          /\ state' = [state EXCEPT ![b] = PG_BUDDY]
          /\ insert_free(b, k)
      BY <1>6, <2>5 DEF AllocSplit, k
    <3>2. TypeOK'
      BY <2>1, <2>2, <2>3, <3>1, InsertRam, Zenon DEF TypeOK
    <3>3. OnlyRam'
      BY <2>1, <2>2, <2>3, <3>1 DEF OnlyRam, BlockOf, Block, TypeOK, PG_BUDDY, PG_RESERVED
    <3> QED
      BY <2>1, <2>2, <2>3, <3>1, <3>2, <3>3, InsertRam DEF InHandInRam
  <2> QED BY <2>4, <2>5
<1>7. CASE AllocReturn
  <2>1. TypeOK'
    BY <1>7 DEF AllocReturn, TypeOK, links
  <2>2. OnlyRam'
    BY <1>7 DEF AllocReturn, OnlyRam, InHandInRam, BlockOf, TypeOK, PG_ALLOCATED, PG_RESERVED
  <2> QED
    BY <1>7, <2>1, <2>2 DEF AllocReturn, ListsInRam, InHandInRam, links
<1>8. ASSUME NEW p \in Pages, NEW o \in Orders, free_pages(p, o) PROVE RamInv'
  <2>1. pc = "idle" /\ held' \subseteq held
        /\ UNCHANGED <<order, want, accounted, ram, left_merged, free_matrix>>
    BY <1>8 DEF free_pages, links
  <2>2. CASE state[p] # PG_ALLOCATED
    <3>1. TypeOK'
      BY <1>8, <2>1, <2>2 DEF free_pages, TypeOK, links
    <3> QED
      BY <1>8, <2>1, <2>2, <3>1
      DEF free_pages, OnlyRam, ListsInRam, InHandInRam, BlockOf, links
  <2>3. CASE state[p] = PG_ALLOCATED
    <3>1. /\ state' = [state EXCEPT ![p] = PG_BUDDY] /\ prev' = [prev EXCEPT ![p] = NULL]
          /\ next' = [next EXCEPT ![p] = NULL] /\ pc' = "merge" /\ page' = p
      BY <1>8, <2>3 DEF free_pages
    <3>2. p \in ram
      BY <2>3 DEF OnlyRam, PG_ALLOCATED, PG_RESERVED
    <3>3. TypeOK'
      BY <2>1, <3>1 DEF TypeOK, Pages
    <3>4. OnlyRam'
      BY <2>1, <3>1, <3>2 DEF OnlyRam, BlockOf, TypeOK, PG_BUDDY, PG_RESERVED
    <3> QED
      BY <2>1, <3>1, <3>2, <3>3, <3>4 DEF ListsInRam, InHandInRam, TypeOK
  <2> QED BY <2>2, <2>3
<1>9. CASE MergeRight
  <2> DEFINE b == PotentialBuddy
  <2>1. /\ pc = "merge" /\ CanMerge /\ BuddyIsRight /\ remove_free(b)
        /\ state' = [state EXCEPT ![b] = PG_TAIL]
        /\ order' = [order EXCEPT ![page] = order[page] + 1]
        /\ UNCHANGED <<pc, page, want, accounted, ram, held, left_merged>>
    BY <1>9 DEF MergeRight, ghosts
  <2>2. /\ page \in ram /\ b \in ram /\ order[page] + 1 \in Orders
        /\ Block(page, order[page] + 1) \subseteq ram
    BY <2>1, MergeRam
  <2> HIDE DEF b
  <2>3. page \in Pages /\ b \in Pages
    BY <2>2 DEF TypeOK
  <2>4. TypeOK'
    BY <2>1, <2>2, <2>3, RemoveRam DEF TypeOK
  <2>5. OnlyRam'
    BY <2>1, <2>2, <2>3 DEF OnlyRam, BlockOf, Block, TypeOK, PG_TAIL, PG_RESERVED
  <2> QED
    BY <2>1, <2>2, <2>3, <2>4, <2>5, RemoveRam DEF InHandInRam
<1>10. CASE MergeLeft
  <2> DEFINE b == PotentialBuddy
  <2>1. /\ pc = "merge" /\ CanMerge /\ ~BuddyIsRight /\ remove_free(page)
        /\ state' = [state EXCEPT ![page] = PG_TAIL]
        /\ order' = [order EXCEPT ![b] = order[b] + 1]
        /\ page' = b /\ left_merged' = TRUE
        /\ UNCHANGED <<pc, want, accounted, ram, held>>
    BY <1>10 DEF MergeLeft
  <2>2. /\ page \in ram /\ b \in ram /\ order[b] + 1 \in Orders
        /\ Block(b, order[b] + 1) \subseteq ram
    BY <2>1, MergeRam
  <2> HIDE DEF b
  <2>3. page \in Pages /\ b \in Pages
    BY <2>2 DEF TypeOK
  <2>4. TypeOK'
    BY <2>1, <2>2, <2>3, RemoveRam DEF TypeOK, Pages
  <2>5. OnlyRam'
    BY <2>1, <2>2, <2>3 DEF OnlyRam, BlockOf, Block, TypeOK, PG_TAIL, PG_RESERVED
  <2> QED
    BY <2>1, <2>2, <2>3, <2>4, <2>5, RemoveRam DEF InHandInRam
<1>11. CASE FreeInsert
  <2>1. /\ pc = "merge" /\ insert_free(page, order[page]) /\ pc' = "idle" /\ page' = NULL
        /\ state' = [state EXCEPT ![page] = PG_BUDDY]
        /\ UNCHANGED <<order, want, accounted, ram, held, left_merged>>
    BY <1>11 DEF FreeInsert, ghosts
  <2>2. page \in ram /\ page \in Pages /\ order[page] \in Orders
    BY <2>1 DEF InHandInRam, TypeOK
  <2>3. TypeOK'
    BY <2>1, <2>2, InsertRam DEF TypeOK
  <2>4. OnlyRam'
    BY <2>1, <2>2 DEF OnlyRam, BlockOf, TypeOK, PG_BUDDY, PG_RESERVED
  <2> QED
    BY <2>1, <2>2, <2>3, <2>4, InsertRam DEF InHandInRam
<1> QED
  BY <1>0, <1>1, <1>2, <1>3, <1>4, <1>5, <1>6, <1>7, <1>8, <1>9, <1>10, <1>11
  DEF Next, Halted, alloc_pages_none

\* alloc_pages, free_pages and buddy_init keep every variable well-typed and
\* never touch or hand out a page that was not released to them, whatever the
\* sequence of calls, left merges included.
THEOREM RamCorrect == Spec => [](TypeOK /\ OnlyRam)
<1>1. RamInv => TypeOK /\ OnlyRam
  BY DEF RamInv
<1> QED
  BY <1>1, InitRam, NextRam, PTL DEF Spec

\* Page states, orders, pointers and list heads keep their types: no merge goes
\* beyond the largest order and no pointer leaves mem_map.
THEOREM TypesCorrect == Spec => []TypeOK
  BY RamCorrect, PTL

(***************************************************************************)
(* The free lists, described by local facts about the pointers of one      *)
(* page, which a step of the code can only disturb at the pages it         *)
(* touches.                                                                *)
(***************************************************************************)

\* p is on no free list.
Unlinked(p) ==
  prev[p] = NULL /\ next[p] = NULL /\ \A k \in Orders : free_matrix[k] # p

LinksOK ==
  /\ \A k \in Orders : free_matrix[k] # NULL =>
       /\ state[free_matrix[k]] = PG_BUDDY
       /\ order[free_matrix[k]] = k
       /\ prev[free_matrix[k]] = NULL
  /\ \A p \in Pages : next[p] # NULL =>
       /\ state[p] = PG_BUDDY /\ state[next[p]] = PG_BUDDY
       /\ order[next[p]] = order[p]
       /\ prev[next[p]] = p
  /\ \A p \in Pages : prev[p] # NULL => next[prev[p]] = p
  /\ \A p \in Pages : prev[p] = NULL /\ next[p] # NULL => free_matrix[order[p]] = p

\* What a list helper may assume of the assignments around it: they change the
\* state and order of no page on a list, except that of p itself.
LinkedUnchangedBut(p) ==
  \A q \in Pages : q # p /\ ~Unlinked(q) => state'[q] = state[q] /\ order'[q] = order[q]

LEMMA LinkedIsFree ==
  ASSUME TypeOK, LinksOK, NEW p \in Pages, ~Unlinked(p)
  PROVE  state[p] = PG_BUDDY
BY DEF TypeOK, LinksOK, Unlinked, Pages, NULL

LEMMA KeepLinks ==
  ASSUME TypeOK, LinksOK, UNCHANGED links,
         \A q \in Pages : ~Unlinked(q) => state'[q] = state[q] /\ order'[q] = order[q]
  PROVE  LinksOK' /\ \A q \in Pages : Unlinked(q)' <=> Unlinked(q)
<1>1. \A q \in Pages : Unlinked(q)' <=> Unlinked(q)
  BY DEF links, Unlinked
<1>2. \A k \in Orders : free_matrix[k] # NULL => ~Unlinked(free_matrix[k])
  BY DEF Unlinked
<1>3. \A q \in Pages : next[q] # NULL => ~Unlinked(q) /\ ~Unlinked(next[q]) /\ next[q] \in Pages
  BY DEF Unlinked, LinksOK, TypeOK, Pages, NULL
<1> QED
  BY <1>1, <1>2, <1>3 DEF links, LinksOK, TypeOK

\* insert_free(p) puts p, and only p, on a list.
LEMMA InsertLinks ==
  ASSUME TypeOK, LinksOK, NEW p \in Pages, NEW k \in Orders, Unlinked(p),
         insert_free(p, k), LinkedUnchangedBut(p),
         state'[p] = PG_BUDDY, order'[p] = k
  PROVE  /\ LinksOK'
         /\ ~Unlinked(p)'
         /\ \A q \in Pages : q # p => (Unlinked(q)' <=> Unlinked(q))
<1> DEFINE f == free_matrix[k]
<1>1. p # NULL /\ f # p
  BY DEF Pages, NULL, Unlinked
<1>2. f # NULL => f \in Pages /\ ~Unlinked(f) /\ state'[f] = PG_BUDDY /\ order'[f] = k
                  /\ prev[f] = NULL
  BY <1>1 DEF TypeOK, LinksOK, Unlinked, LinkedUnchangedBut
<1>3. /\ \A q \in Pages : next'[q] = IF q = p THEN f ELSE next[q]
      /\ \A q \in Pages : prev'[q] = IF q = f THEN p ELSE IF q = p THEN NULL ELSE prev[q]
      /\ \A j \in Orders : free_matrix'[j] = IF j = k THEN p ELSE free_matrix[j]
  BY DEF insert_free, TypeOK
<1>4. \A q \in Pages : next[q] # NULL /\ q # p =>
        /\ next[q] \in Pages /\ next[q] # p /\ next[q] # f
        /\ ~Unlinked(q) /\ ~Unlinked(next[q])
  <2> SUFFICES ASSUME NEW q \in Pages, next[q] # NULL, q # p
               PROVE  /\ next[q] \in Pages /\ next[q] # p /\ next[q] # f
                      /\ ~Unlinked(q) /\ ~Unlinked(next[q])
    OBVIOUS
  <2>1. next[q] \in Pages /\ prev[next[q]] = q /\ q # NULL
    BY DEF TypeOK, LinksOK, Pages, NULL
  <2>2. next[q] # p /\ next[q] # f
    BY <1>1, <1>2, <2>1 DEF Unlinked
  <2> QED BY <2>1, <2>2 DEF Unlinked
<1>5. \A q \in Pages : prev[q] # NULL => prev[q] \in Pages /\ prev[q] # p /\ q # p
  BY <1>1 DEF TypeOK, LinksOK, Unlinked, Pages, NULL
<1> HIDE DEF f
<1>6. \A j \in Orders : free_matrix'[j] # NULL =>
        /\ state'[free_matrix'[j]] = PG_BUDDY
        /\ order'[free_matrix'[j]] = j
        /\ prev'[free_matrix'[j]] = NULL
  <2> SUFFICES ASSUME NEW j \in Orders, free_matrix'[j] # NULL
               PROVE  /\ state'[free_matrix'[j]] = PG_BUDDY
                      /\ order'[free_matrix'[j]] = j
                      /\ prev'[free_matrix'[j]] = NULL
    OBVIOUS
  <2>1. CASE j = k
    BY <1>1, <1>3, <2>1
  <2>2. CASE j # k
    <3>1. /\ free_matrix[j] \in Pages /\ ~Unlinked(free_matrix[j]) /\ free_matrix[j] # p
          /\ state[free_matrix[j]] = PG_BUDDY /\ order[free_matrix[j]] = j
          /\ prev[free_matrix[j]] = NULL
      <4>1. free_matrix[j] # NULL /\ free_matrix[j] \in Pages
        BY <1>3, <2>2 DEF TypeOK
      <4>2. ~Unlinked(free_matrix[j]) /\ free_matrix[j] # p
        BY <4>1 DEF Unlinked
      <4> QED BY <4>1, <4>2 DEF LinksOK
    <3>2. free_matrix[j] # f
      <4>1. CASE f = NULL
        BY <3>1, <4>1 DEF Pages, NULL
      <4>2. CASE f # NULL
        BY <2>2, <3>1, <4>2 DEF LinksOK, f
      <4> QED BY <4>1, <4>2
    <3> QED BY <1>3, <2>2, <3>1, <3>2 DEF LinkedUnchangedBut
  <2> QED BY <2>1, <2>2
<1>7. \A q \in Pages : next'[q] # NULL =>
        /\ state'[q] = PG_BUDDY /\ state'[next'[q]] = PG_BUDDY
        /\ order'[next'[q]] = order'[q]
        /\ prev'[next'[q]] = q
  BY <1>1, <1>2, <1>3, <1>4 DEF LinksOK, LinkedUnchangedBut
<1>8. \A q \in Pages : prev'[q] # NULL => next'[prev'[q]] = q
  BY <1>1, <1>2, <1>3, <1>5 DEF LinksOK
<1>9. \A q \in Pages : prev'[q] = NULL /\ next'[q] # NULL => free_matrix'[order'[q]] = q
  BY <1>1, <1>2, <1>3, <1>4 DEF LinksOK, LinkedUnchangedBut, TypeOK, f
<1>10. ~Unlinked(p)'
  BY <1>3 DEF Unlinked
<1>11. \A q \in Pages : q # p => (Unlinked(q)' <=> Unlinked(q))
  BY <1>1, <1>2, <1>3 DEF Unlinked, f
<1> QED BY <1>6, <1>7, <1>8, <1>9, <1>10, <1>11 DEF LinksOK

\* remove_free(p) of a free head takes p, and only p, off its list.
LEMMA RemoveLinks ==
  ASSUME TypeOK, LinksOK, NEW p \in Pages, state[p] = PG_BUDDY,
         remove_free(p), LinkedUnchangedBut(p)
  PROVE  /\ LinksOK'
         /\ Unlinked(p)'
         /\ \A q \in Pages : q # p => (Unlinked(q)' <=> Unlinked(q))
<1> DEFINE m == prev[p]
           n == next[p]
           k == order[p]
<1>0. k \in Orders /\ m \in Pages \cup {NULL} /\ n \in Pages \cup {NULL} /\ NULL \notin Pages
  BY DEF TypeOK, Pages, NULL
<1>1. CASE NotLinked(p)
  <2>1. UNCHANGED links /\ m = NULL /\ n = NULL /\ free_matrix[k] # p
    BY <1>1, SMTT(30) DEF remove_free, NotLinked
  <2>2. Unlinked(p)
    BY <1>0, <2>1 DEF LinksOK, Unlinked
  <2>3. \A q \in Pages : ~Unlinked(q) => state'[q] = state[q] /\ order'[q] = order[q]
    BY <2>2 DEF LinkedUnchangedBut
  <2> QED BY <2>1, <2>2, <2>3, KeepLinks
<1>2. CASE ~NotLinked(p)
  <2>1. /\ \A q \in Pages : next'[q] = IF q = p THEN NULL ELSE IF q = m THEN n ELSE next[q]
        /\ \A q \in Pages : prev'[q] = IF q = p THEN NULL ELSE IF q = n THEN m ELSE prev[q]
        /\ \A j \in Orders : free_matrix'[j] =
             IF m = NULL /\ j = k THEN n ELSE free_matrix[j]
    BY <1>0, <1>2, SMTT(30) DEF remove_free, TypeOK, NotLinked, links
  <2>2. /\ m = NULL => free_matrix[k] = p
        /\ m # NULL => next[m] = p /\ state[m] = PG_BUDDY /\ order[m] = k
        /\ n # NULL => prev[n] = p /\ state[n] = PG_BUDDY /\ order[n] = k
    BY <1>0, <1>2 DEF LinksOK, NotLinked
  <2>3. \A j \in Orders : free_matrix[j] = p => j = k /\ m = NULL
    BY <1>0 DEF LinksOK
  <2>4. \A q \in Pages : next[q] # NULL =>
          /\ next[q] \in Pages /\ prev[next[q]] = q
          /\ ~Unlinked(q) /\ ~Unlinked(next[q])
          /\ next[q] = p => q = m
          /\ next[q] = n => q = p
    BY <1>0, <2>2 DEF TypeOK, LinksOK, Unlinked
  <2>5. \A q \in Pages : prev[q] # NULL =>
          /\ prev[q] \in Pages /\ next[prev[q]] = q
          /\ ~Unlinked(q) /\ ~Unlinked(prev[q])
          /\ prev[q] = p => q = n
          /\ prev[q] = m => q = p
    BY <1>0, <2>2, SMTT(30) DEF TypeOK, LinksOK, Unlinked
  <2>6. (m # NULL => ~Unlinked(m)) /\ (n # NULL => ~Unlinked(n))
    BY <1>0, <2>4, <2>5
  <2> HIDE DEF m, n, k
  <2>7. \A j \in Orders : free_matrix'[j] # NULL =>
          /\ state'[free_matrix'[j]] = PG_BUDDY
          /\ order'[free_matrix'[j]] = j
          /\ prev'[free_matrix'[j]] = NULL
    <3> SUFFICES ASSUME NEW j \in Orders, free_matrix'[j] # NULL
                 PROVE  /\ state'[free_matrix'[j]] = PG_BUDDY
                        /\ order'[free_matrix'[j]] = j
                        /\ prev'[free_matrix'[j]] = NULL
      OBVIOUS
    <3>1. CASE m = NULL /\ j = k
      <4>1. free_matrix'[j] = n /\ n # NULL /\ n \in Pages /\ n # p
        BY <1>0, <2>1, <2>2, <3>1, SMTT(30) DEF m, n
      <4> QED BY <2>1, <2>2, <2>6, <3>1, <4>1, SMTT(30) DEF LinkedUnchangedBut
    <3>2. CASE ~(m = NULL /\ j = k)
      <4> DEFINE f == free_matrix[j]
      <4>1. free_matrix'[j] = f /\ f # NULL /\ f \in Pages /\ f # p
        BY <1>0, <2>1, <2>3, <3>2, SMTT(30) DEF TypeOK
      <4>2. ~Unlinked(f) /\ state[f] = PG_BUDDY /\ order[f] = j /\ prev[f] = NULL
        BY <4>1, SMTT(30) DEF LinksOK, Unlinked
      <4>3. f # n
        BY <1>0, <2>2, <4>1, <4>2
      <4> QED BY <2>1, <4>1, <4>2, <4>3 DEF LinkedUnchangedBut
    <3> QED BY <3>1, <3>2
  <2>8. \A q \in Pages : next'[q] # NULL =>
          /\ state'[q] = PG_BUDDY /\ state'[next'[q]] = PG_BUDDY
          /\ order'[next'[q]] = order'[q]
          /\ prev'[next'[q]] = q
    <3> SUFFICES ASSUME NEW q \in Pages, next'[q] # NULL
                 PROVE  /\ state'[q] = PG_BUDDY /\ state'[next'[q]] = PG_BUDDY
                        /\ order'[next'[q]] = order'[q]
                        /\ prev'[next'[q]] = q
      OBVIOUS
    <3>1. q # p
      BY <2>1
    <3>2. CASE q = m
      <4>1. next'[q] = n /\ n # NULL /\ n \in Pages /\ n # p
        BY <1>0, <2>1, <2>2, <3>1, <3>2 DEF m, n
      <4> QED BY <1>0, <2>1, <2>2, <2>6, <3>1, <3>2, <4>1, SMTT(30) DEF LinkedUnchangedBut
    <3>3. CASE q # m
      <4>1. next'[q] = next[q] /\ next[q] \in Pages /\ next[q] # p /\ next[q] # n
        BY <2>1, <2>4, <3>1, <3>3
      <4> QED BY <2>1, <2>4, <3>1, <4>1, SMTT(30) DEF LinkedUnchangedBut, LinksOK
    <3> QED BY <3>2, <3>3
  <2>9. \A q \in Pages : prev'[q] # NULL => next'[prev'[q]] = q
    <3> SUFFICES ASSUME NEW q \in Pages, prev'[q] # NULL PROVE next'[prev'[q]] = q
      OBVIOUS
    <3>1. q # p
      BY <2>1
    <3>2. CASE q = n
      <4>1. prev'[q] = m /\ m \in Pages /\ m # p
        BY <1>0, <2>1, <2>2, <3>1, <3>2 DEF m, n
      <4> QED BY <2>1, <3>2, <4>1
    <3>3. CASE q # n
      <4>1. prev'[q] = prev[q] /\ prev[q] \in Pages /\ prev[q] # p /\ prev[q] # m
        BY <2>1, <2>5, <3>1, <3>3
      <4> QED BY <2>1, <2>5, <3>1, <4>1
    <3> QED BY <3>2, <3>3
  <2>10. \A q \in Pages : prev'[q] = NULL /\ next'[q] # NULL => free_matrix'[order'[q]] = q
    <3> SUFFICES ASSUME NEW q \in Pages, prev'[q] = NULL, next'[q] # NULL
                 PROVE  free_matrix'[order'[q]] = q
      OBVIOUS
    <3>1. q # p
      BY <2>1
    <3>2. CASE q = n
      <4>1. m = NULL /\ order'[q] = k
        BY <2>1, <2>2, <2>6, <3>1, <3>2, <1>0, SMTT(30) DEF LinkedUnchangedBut
      <4> QED BY <1>0, <2>1, <3>2, <4>1
    <3>3. CASE q # n
      <4>1. prev[q] = NULL /\ next[q] # NULL
        BY <1>0, <2>1, <2>2, <3>1, <3>3, Zenon
      <4>2. ~Unlinked(q) /\ free_matrix[order[q]] = q /\ order'[q] = order[q] /\ order[q] \in Orders
        BY <2>4, <3>1, <4>1, SMTT(30) DEF LinksOK, LinkedUnchangedBut, TypeOK
      <4>3. ~(m = NULL /\ order[q] = k)
        BY <2>2, <3>1, <4>2, Zenon
      <4> QED BY <2>1, <4>2, <4>3, Zenon
    <3> QED BY <3>2, <3>3
  <2>11. Unlinked(p)'
    BY <1>0, <2>1, <2>2, <2>3 DEF Unlinked, m, n
  <2>12. \A q \in Pages : q # p => (Unlinked(q)' <=> Unlinked(q))
    <3> SUFFICES ASSUME NEW q \in Pages, q # p PROVE Unlinked(q)' <=> Unlinked(q)
      OBVIOUS
    <3>1. CASE q = n
      <4>1. ~Unlinked(q)
        BY <1>0, <2>6, <3>1
      <4>2. ~Unlinked(q)'
        BY <1>0, <2>1, <3>1 DEF Unlinked
      <4> QED BY <4>1, <4>2
    <3>2. CASE q = m /\ q # n
      <4>1. ~Unlinked(q)
        BY <1>0, <2>6, <3>2
      <4>2. prev[q] = NULL => free_matrix[order[q]] = q /\ order[q] \in Orders
        BY <1>0, <2>2, <3>2 DEF LinksOK, TypeOK
      <4>3. ~Unlinked(q)'
        BY <1>0, <2>1, <3>2, <4>2 DEF Unlinked
      <4> QED BY <4>1, <4>3
    <3>3. CASE q # m /\ q # n
      BY <1>0, <2>1, <2>2, <3>3 DEF Unlinked
    <3> QED BY <3>1, <3>2, <3>3
  <2> QED BY <2>7, <2>8, <2>9, <2>10, <2>11, <2>12 DEF LinksOK
<1> QED BY <1>1, <1>2

\* pop_free takes the first page of a list, and only it, off the list.
LEMMA PopLinks ==
  ASSUME TypeOK, LinksOK, NEW p \in Pages, NEW k \in Orders, free_matrix[k] = p,
         pop_free(p, k), UNCHANGED <<state, order>>
  PROVE  /\ LinksOK'
         /\ Unlinked(p)'
         /\ \A q \in Pages : q # p => (Unlinked(q)' <=> Unlinked(q))
<1>0. NULL \notin Pages
  BY DEF Pages, NULL
<1>1. state[p] = PG_BUDDY /\ order[p] = k /\ prev[p] = NULL
  BY <1>0 DEF LinksOK
<1>2. /\ next' = [q \in Pages |-> IF q = p THEN NULL ELSE IF q = prev[p] THEN next[p] ELSE next[q]]
      /\ prev' = [q \in Pages |-> IF q = p THEN NULL ELSE IF q = next[p] THEN prev[p] ELSE prev[q]]
  <2>1. next' = [q \in Pages |-> IF q = p THEN NULL ELSE next[q]]
    BY Zenon DEF pop_free, TypeOK
  <2>2. prev' = [q \in Pages |-> IF q = p THEN NULL ELSE IF q = next[p] THEN NULL ELSE prev[q]]
    BY DEF pop_free
  <2>3. \A q \in Pages : q # prev[p]
    BY <1>0, <1>1
  <2> QED BY <1>1, <2>1, <2>2, <2>3
<1>3. ~NotLinked(p)
  BY <1>1 DEF NotLinked
<1>4. remove_free(p)
  <2>1. free_matrix' = [free_matrix EXCEPT ![order[p]] = next[p]]
    BY <1>1 DEF pop_free
  <2> QED BY <1>1, <1>2, <1>3, <2>1 DEF remove_free
<1>5. LinkedUnchangedBut(p)
  BY DEF LinkedUnchangedBut
<1> QED BY <1>1, <1>4, <1>5, RemoveLinks

(***************************************************************************)
(* Blocks.  They are disjoint because the pages of a block other than its  *)
(* head are PG_TAIL, hence no heads themselves.                            *)
(***************************************************************************)

TailsOK == \A h \in Heads : \A q \in BlockOf(h) : q # h => state[q] = PG_TAIL

Covered == \A q \in Pages : state[q] = PG_TAIL => \E h \in Heads : q \in BlockOf(h)

HeldOK ==
  /\ \A b \in held : state[b[1]] = PG_ALLOCATED /\ order[b[1]] = b[2]
  /\ \A p \in Pages : state[p] = PG_ALLOCATED => <<p, order[p]>> \in held

InHandOK ==
  /\ pc \in {"split", "merge"} => state[page] = PG_BUDDY /\ Unlinked(page)
  /\ pc = "split" => order[page] >= want

Complete == \A p \in Pages : Listable(p) => ~Unlinked(p)

Ungrouped ==
  pc = "group" => \A p \in Pages : p >= page =>
                     state[p] \in {PG_RESERVED, PG_BUDDY} /\ order[p] = 0 /\ Unlinked(p)

ListInv == LinksOK /\ InHandOK /\ Complete
BlockInv == TailsOK /\ Covered /\ HeldOK

BuddyInv ==
  /\ RamInv
  /\ ~left_merged => ListInv /\ BlockInv /\ Ungrouped /\ pc # "panic_tail"

LEMMA HeadsInPages ==
  ASSUME RamInv
  PROVE  \A h \in Heads : h \in ram /\ BlockOf(h) \subseteq ram /\ BlockOf(h) \subseteq Pages
BY DEF RamInv, OnlyRam, TypeOK, Heads, PG_RESERVED, PG_BUDDY, PG_ALLOCATED

LEMMA DisjointBlocks ==
  ASSUME TypeOK, TailsOK, NEW g \in Heads, NEW h \in Heads, g # h
  PROVE  BlockOf(g) \cap BlockOf(h) = {}
<1>1. /\ g \in Int /\ h \in Int /\ Size[order[g]] \in Nat /\ Size[order[h]] \in Nat
      /\ state[g] # PG_TAIL /\ state[h] # PG_TAIL
  BY SizeFacts DEF TypeOK, Heads, Pages, PG_TAIL, PG_BUDDY, PG_ALLOCATED
<1>2. ~ \E q \in BlockOf(g) : q \in BlockOf(h)
  <2> SUFFICES ASSUME NEW q \in BlockOf(g), q \in BlockOf(h) PROVE FALSE
    OBVIOUS
  <2>1. h \in BlockOf(g) \/ g \in BlockOf(h)
    BY <1>1 DEF BlockOf, Block
  <2> QED BY <1>1, <2>1 DEF TailsOK
<1> QED BY <1>2

LEMMA InitBuddy == Init => BuddyInv
<1> SUFFICES ASSUME Init PROVE BuddyInv
  OBVIOUS
<1>1. RamInv
  BY InitRam
<1> USE DEF Init
<1>2. ListInv
  BY <1>1 DEF ListInv, LinksOK, InHandOK, Complete, Listable, RamInv, TypeOK, Pages
<1>3. BlockInv
  <2>1. \A h \in Heads : BlockOf(h) = {h}
    BY SizeFacts DEF Heads, BlockOf, Block, Pages
  <2>2. \A p \in Pages : state[p] \in {PG_RESERVED, PG_BUDDY}
    OBVIOUS
  <2> QED
    BY <2>1, <2>2 DEF BlockInv, TailsOK, Covered, HeldOK, PG_RESERVED, PG_BUDDY,
                      PG_ALLOCATED, PG_TAIL
<1>4. Ungrouped
  BY DEF Ungrouped, Unlinked, NULL, Pages
<1> QED BY <1>1, <1>2, <1>3, <1>4 DEF BuddyInv

(***************************************************************************)
(* One lemma per step of the code: up to the first left merge it keeps the *)
(* lists and the blocks.                                                   *)
(***************************************************************************)

GoodInv == RamInv /\ ListInv /\ BlockInv /\ Ungrouped

LEMMA GroupSkipKeeps ==
  ASSUME GoodInv, GroupSkip
  PROVE  ListInv' /\ BlockInv' /\ Ungrouped'
<1>1. /\ pc = "group" /\ pc' = "group" /\ state[page] # PG_BUDDY /\ page' = page + 1
      /\ UNCHANGED <<state, order, prev, next, free_matrix, held>>
      /\ page \in Nat /\ Pages \subseteq Int
  BY DEF GroupSkip, links, ghosts, GoodInv, RamInv, TypeOK, Pages
<1>2. \A q \in Pages : Unlinked(q)' <=> Unlinked(q)
  BY <1>1 DEF Unlinked
<1>3. ListInv'
  <2>1. \A q \in Pages : Listable(q)' => Listable(q)
    BY <1>1 DEF Listable
  <2> QED
    BY <1>1, <1>2, <2>1 DEF GoodInv, ListInv, LinksOK, InHandOK, Complete
<1>4. BlockInv'
  BY <1>1 DEF GoodInv, BlockInv, TailsOK, Covered, HeldOK, Heads, BlockOf
<1>5. Ungrouped'
  BY <1>1, <1>2 DEF GoodInv, Ungrouped
<1> QED BY <1>3, <1>4, <1>5

LEMMA GroupBlockKeeps ==
  ASSUME GoodInv, GroupBlock
  PROVE  ListInv' /\ BlockInv' /\ Ungrouped'
<1>1. PICK e \in page + 1 .. NrPages, k \in Orders :
        /\ IsRunEnd(page, e) /\ IsLengthOrder(k, e - page)
        /\ order' = [order EXCEPT ![page] = k]
        /\ state' = [q \in Pages |-> IF q \in Block(page, k) \ {page}
                                     THEN PG_TAIL ELSE state[q]]
        /\ insert_free(page, k)
        /\ page' = page + Size[k]
  BY Zenon DEF GroupBlock
<1>2. /\ page \in Pages /\ page \in Nat /\ Size[k] \in Nat /\ Size[k] > 0
      /\ pc = "group" /\ pc' = "group" /\ state[page] = PG_BUDDY /\ held' = held
      /\ Pages \subseteq Int
  BY NrPagesAssumption, SizeFacts DEF GroupBlock, GoodInv, RamInv, TypeOK, Pages, ghosts
<1>0. PICK p \in Pages : p = page
  BY <1>2
<1>3. /\ Block(p, k) \subseteq Pages
      /\ \A q \in Block(p, k) : state[q] = PG_BUDDY /\ q >= p /\ q < p + Size[k]
      /\ p \in Block(p, k)
  BY <1>0, <1>1, <1>2, NrPagesAssumption DEF IsLengthOrder, IsRunEnd, Block, Pages
<1>4. \A q \in Pages : q >= p => /\ state[q] \in {PG_RESERVED, PG_BUDDY}
                                    /\ order[q] = 0 /\ Unlinked(q)
  BY <1>0, <1>2 DEF GoodInv, Ungrouped
<1>5. /\ \A q \in Pages : order'[q] = IF q = p THEN k ELSE order[q]
      /\ \A q \in Pages : state'[q] = IF q \in Block(p, k) /\ q # p
                                      THEN PG_TAIL ELSE state[q]
  BY <1>0, <1>1, <1>2 DEF GoodInv, RamInv, TypeOK
<1>6. LinkedUnchangedBut(p) /\ Unlinked(p) /\ state'[p] = PG_BUDDY /\ order'[p] = k
  BY <1>0, <1>2, <1>3, <1>4, <1>5 DEF LinkedUnchangedBut
<1>7. /\ LinksOK' /\ ~Unlinked(p)'
      /\ \A q \in Pages : q # p => (Unlinked(q)' <=> Unlinked(q))
  BY <1>0, <1>1, <1>2, <1>6, InsertLinks DEF GoodInv, RamInv, ListInv
<1>8. ListInv'
  <2>1. InHandOK'
    BY <1>0, <1>2 DEF InHandOK
  <2>2. Complete'
    <3> SUFFICES ASSUME NEW q \in Pages, Listable(q)', q # p PROVE ~Unlinked(q)'
      BY <1>7 DEF Complete
    <3>1. state'[q] = PG_BUDDY /\ q < p + Size[k]
      BY <1>0, <1>1, <1>2 DEF Listable
    <3>2. q \notin Block(p, k)
      BY <1>5, <3>1 DEF PG_TAIL, PG_BUDDY
    <3>3. q < p
      BY <1>0, <1>2, <3>1, <3>2 DEF Block
    <3>4. Listable(q)
      BY <1>0, <1>2, <1>5, <3>1, <3>2, <3>3 DEF Listable
    <3> QED BY <1>7, <3>4 DEF GoodInv, ListInv, Complete
  <2> QED BY <1>7, <2>1, <2>2 DEF ListInv
<1>9. TailsOK'
  <2> SUFFICES ASSUME NEW h \in Pages, h \in Heads', NEW q \in BlockOf(h)', q # h
               PROVE  state'[q] = PG_TAIL
    BY DEF TailsOK, Heads
  <2>1. CASE h = p
    BY <1>0, <1>2, <1>3, <1>5, <2>1 DEF BlockOf
  <2>2. CASE h # p
    <3>1. h \in Heads /\ q \in BlockOf(h)
      BY <1>5, <2>2 DEF Heads, BlockOf, PG_TAIL, PG_BUDDY, PG_ALLOCATED
    <3>2. state[q] = PG_TAIL
      BY <3>1 DEF GoodInv, BlockInv, TailsOK
    <3>3. q \in Pages
      BY <3>1 DEF GoodInv, RamInv, OnlyRam, TypeOK, Heads, PG_RESERVED, PG_BUDDY, PG_ALLOCATED
    <3> QED BY <1>5, <3>2, <3>3
  <2> QED BY <2>1, <2>2
<1>10. Covered'
  <2> SUFFICES ASSUME NEW q \in Pages, state'[q] = PG_TAIL
               PROVE  \E h \in Heads' : q \in BlockOf(h)'
    BY DEF Covered
  <2>1. p \in Heads' /\ BlockOf(p)' = Block(p, k)
    BY <1>0, <1>2, <1>5, <1>6 DEF Heads, BlockOf, Block
  <2>2. CASE q \in Block(p, k)
    BY <2>1, <2>2
  <2>3. CASE q \notin Block(p, k)
    <3>1. state[q] = PG_TAIL
      BY <1>5, <2>3
    <3>2. PICK h \in Heads : q \in BlockOf(h)
      BY <3>1 DEF GoodInv, BlockInv, Covered
    <3>3. q < p
      BY <1>0, <1>2, <1>4, <3>1 DEF PG_TAIL, PG_RESERVED, PG_BUDDY
    <3>4. h \in Pages /\ h <= q
      BY <1>0, <1>2, <3>2 DEF Heads, BlockOf, Block
    <3>5. h # p /\ h \notin Block(p, k)
      BY <1>0, <1>2, <1>3, <3>3, <3>4
    <3> QED BY <1>5, <3>2, <3>4, <3>5 DEF Heads, BlockOf, Block
  <2> QED BY <2>2, <2>3
<1>11. HeldOK'
  <2>1. \A q \in Pages : state[q] = PG_ALLOCATED =>
          q \notin Block(p, k) /\ state'[q] = PG_ALLOCATED /\ order'[q] = order[q]
    BY <1>0, <1>2, <1>3, <1>5 DEF PG_ALLOCATED, PG_BUDDY
  <2>2. \A q \in Pages : state'[q] = PG_ALLOCATED => state[q] = PG_ALLOCATED
    BY <1>5 DEF PG_TAIL, PG_ALLOCATED
  <2>3. \A b \in held : b[1] \in Pages
    BY DEF GoodInv, RamInv, TypeOK
  <2> QED BY <1>0, <1>2, <2>1, <2>2, <2>3 DEF GoodInv, BlockInv, HeldOK
<1>12. Ungrouped'
  <2> SUFFICES ASSUME NEW q \in Pages, q >= p + Size[k]
               PROVE  /\ state'[q] \in {PG_RESERVED, PG_BUDDY}
                      /\ order'[q] = 0 /\ Unlinked(q)'
    BY <1>0, <1>1 DEF Ungrouped
  <2>1. q # p /\ q >= p /\ q \notin Block(p, k)
    BY <1>0, <1>2, <1>3
  <2> QED BY <1>4, <1>5, <1>7, <2>1
<1> QED BY <1>8, <1>9, <1>10, <1>11, <1>12 DEF BlockInv

\* Steps that leave mem_map, the lists and the held blocks alone.
LEMMA StutterKeeps ==
  ASSUME GoodInv, UNCHANGED <<state, order, prev, next, free_matrix, held>>,
         pc' # "group", pc' \notin {"split", "merge"},
         pc \in {"split", "merge"} => pc' = pc,
         \A q \in Pages : Listable(q)' => Listable(q)
  PROVE  ListInv' /\ BlockInv' /\ Ungrouped'
<1>1. \A q \in Pages : Unlinked(q)' <=> Unlinked(q)
  BY DEF Unlinked
<1>2. ListInv'
  BY <1>1 DEF GoodInv, ListInv, LinksOK, InHandOK, Complete
<1>3. BlockInv'
  BY DEF GoodInv, BlockInv, TailsOK, Covered, HeldOK, Heads, BlockOf
<1>4. Ungrouped'
  BY DEF Ungrouped
<1> QED BY <1>2, <1>3, <1>4

-----------------------------------------------------------------------------

LEMMA AllocPagesKeeps ==
  ASSUME GoodInv, NEW o \in 0 .. MaxOrder + 1, alloc_pages(o)
  PROVE  ListInv' /\ BlockInv' /\ Ungrouped'
<1>1. PICK k \in o .. MaxOrder : /\ free_matrix[k] # NULL
                                 /\ page' = free_matrix[k]
                                 /\ pop_free(free_matrix[k], k)
  BY DEF alloc_pages
<1>2. /\ pc = "idle" /\ pc' = "split" /\ want' = o
      /\ UNCHANGED <<state, order, held>>
      /\ k \in Orders /\ k >= o
  BY MaxOrderAssumption DEF alloc_pages, ghosts, Orders
<1>3. PICK p \in Pages : p = free_matrix[k]
  BY <1>1, <1>2 DEF GoodInv, RamInv, TypeOK
<1>4. /\ LinksOK' /\ Unlinked(p)'
      /\ \A q \in Pages : q # p => (Unlinked(q)' <=> Unlinked(q))
  BY <1>1, <1>2, <1>3, PopLinks DEF GoodInv, RamInv, ListInv
<1>5. state[p] = PG_BUDDY /\ order[p] = k
  BY <1>1, <1>2, <1>3 DEF GoodInv, ListInv, LinksOK
<1>6. InHandOK'
  <2>1. page' = p
    BY <1>1, <1>3
  <2>2. Unlinked(page)'
    BY <1>4, <2>1 DEF Unlinked
  <2> QED BY <1>2, <1>5, <2>1, <2>2 DEF InHandOK
<1>7. Complete'
  <2> SUFFICES ASSUME NEW q \in Pages, Listable(q)' PROVE ~Unlinked(q)'
    BY DEF Complete
  <2>1. Listable(q) /\ q # p
    BY <1>1, <1>2, <1>3 DEF Listable
  <2> QED BY <1>4, <2>1 DEF GoodInv, ListInv, Complete
<1>8. BlockInv'
  BY <1>2 DEF GoodInv, BlockInv, TailsOK, Covered, HeldOK, Heads, BlockOf
<1>9. Ungrouped'
  BY <1>2 DEF Ungrouped
<1> QED BY <1>4, <1>6, <1>7, <1>8, <1>9 DEF ListInv

\* The upper half of the block in hand starts with a PG_TAIL page, so the split
\* does not panic.
LEMMA AllocSplitKeeps ==
  ASSUME GoodInv, AllocSplit
  PROVE  ListInv' /\ BlockInv' /\ Ungrouped' /\ pc' = "split"
<1>1. /\ pc = "split" /\ order[page] > want /\ page \in Pages /\ page' = page
      /\ want' = want /\ held' = held /\ state[page] = PG_BUDDY /\ Unlinked(page)
  BY DEF AllocSplit, ghosts, GoodInv, RamInv, TypeOK, ListInv, InHandOK
<1>2. PICK p \in Pages : p = page
  BY <1>1
<1>3. PICK k \in Orders : k = order[page] - 1
  BY <1>1, MaxOrderAssumption DEF GoodInv, RamInv, TypeOK, Orders
<1>4. /\ k + 1 \in Orders /\ order[p] = k + 1 /\ Size[k + 1] = 2 * Size[k]
      /\ Size[k] \in Nat /\ Size[k] > 0 /\ p \in Int /\ Pages \subseteq Int
  <2>1. k + 1 \in Orders /\ order[p] = k + 1 /\ k < MaxOrder
    BY <1>1, <1>2, <1>3, MaxOrderAssumption DEF GoodInv, RamInv, TypeOK, Orders
  <2> QED BY <2>1, SizeFacts DEF Pages
<1>5. PICK b \in Pages : b = p + Size[k]
  BY <1>1, <1>2, <1>3, SplitRam, Zenon DEF GoodInv, RamInv, TypeOK
<1>6. /\ BlockOf(p) = Block(p, k) \cup Block(b, k)
      /\ b # p /\ b \notin Block(p, k) /\ p \notin Block(b, k)
      /\ b \in Block(b, k) /\ p \in Block(p, k)
  <2>1. Block(p, k + 1) = Block(p, k) \cup Block(b, k)
    BY <1>4, <1>5 DEF Block
  <2> QED BY <1>4, <1>5, <2>1 DEF BlockOf, Block
<1>7. p \in Heads /\ state[b] = PG_TAIL
  BY <1>1, <1>2, <1>6 DEF Heads, GoodInv, BlockInv, TailsOK
<1>8. /\ order' = [order EXCEPT ![p] = k, ![b] = k]
      /\ insert_free(b, k)
      /\ state' = [state EXCEPT ![b] = PG_BUDDY]
      /\ pc' = "split"
  <2>1. page + Size[order[page] - 1] = b /\ state[b] = PG_TAIL
    BY <1>2, <1>3, <1>5, <1>7
  <2> QED BY <1>1, <1>2, <1>3, <2>1 DEF AllocSplit
<1>9. /\ \A q \in Pages : state'[q] = IF q = b THEN PG_BUDDY ELSE state[q]
      /\ \A q \in Pages : order'[q] = IF q = p \/ q = b THEN k ELSE order[q]
  BY <1>8 DEF GoodInv, RamInv, TypeOK
<1>10. Unlinked(p) /\ Unlinked(b)
  BY <1>1, <1>2, <1>7, LinkedIsFree DEF GoodInv, RamInv, ListInv, PG_TAIL, PG_BUDDY
<1>11. LinkedUnchangedBut(b)
  BY <1>9, <1>10, Zenon DEF LinkedUnchangedBut
<1>12. /\ LinksOK' /\ ~Unlinked(b)'
       /\ \A q \in Pages : q # b => (Unlinked(q)' <=> Unlinked(q))
  BY <1>8, <1>9, <1>10, <1>11, InsertLinks, Zenon DEF GoodInv, RamInv, ListInv
<1>13. ListInv'
  <2>1. InHandOK'
    <3>1. page' = p
      BY <1>1, <1>2, Zenon
    <3>2. Unlinked(page)'
      BY <1>6, <1>10, <1>12, <3>1, Zenon DEF Unlinked
    <3>3. state'[p] = PG_BUDDY /\ order'[p] = k
      BY <1>1, <1>2, <1>6, <1>9
    <3>4. k >= want
      BY <1>1, <1>3 DEF GoodInv, RamInv, TypeOK, Orders
    <3> QED BY <1>1, <1>8, <3>1, <3>2, <3>3, <3>4 DEF InHandOK
  <2>2. Complete'
    <3> SUFFICES ASSUME NEW q \in Pages, Listable(q)', q # b PROVE ~Unlinked(q)'
      BY <1>12 DEF Complete
    <3>1. Listable(q)
      BY <1>1, <1>8, <1>9 DEF Listable
    <3> QED BY <1>12, <3>1 DEF GoodInv, ListInv, Complete
  <2> QED BY <1>12, <2>1, <2>2 DEF ListInv
<1>14. /\ Heads' = Heads \cup {b}
       /\ BlockOf(p)' = Block(p, k) /\ BlockOf(b)' = Block(b, k)
       /\ \A h \in Heads : h # p => BlockOf(h)' = BlockOf(h) /\ h # b
  BY <1>6, <1>7, <1>9 DEF Heads, BlockOf, Block, PG_TAIL, PG_BUDDY, PG_ALLOCATED
<1>15. \A h \in Heads : BlockOf(h) \subseteq Pages
  BY HeadsInPages DEF GoodInv
<1>16. TailsOK'
  <2> SUFFICES ASSUME NEW h \in Heads', NEW q \in BlockOf(h)', q # h
               PROVE  state'[q] = PG_TAIL
    BY DEF TailsOK
  <2>1. CASE h = p \/ h = b
    <3>1. q \in BlockOf(p) /\ q # p /\ q # b
      BY <1>6, <1>14, <2>1
    <3> QED BY <1>7, <1>9, <1>15, <3>1 DEF GoodInv, BlockInv, TailsOK
  <2>2. CASE h # p /\ h # b
    <3>1. h \in Heads /\ q \in BlockOf(h)
      BY <1>14, <2>2
    <3>2. q # b
      BY <1>6, <1>7, <2>2, <3>1, DisjointBlocks DEF GoodInv, RamInv, BlockInv
    <3> QED BY <1>9, <1>15, <3>1, <3>2 DEF GoodInv, BlockInv, TailsOK
  <2> QED BY <2>1, <2>2
<1>17. Covered'
  <2> SUFFICES ASSUME NEW q \in Pages, state'[q] = PG_TAIL
               PROVE  \E h \in Heads' : q \in BlockOf(h)'
    BY DEF Covered
  <2>1. state[q] = PG_TAIL
    BY <1>9 DEF PG_TAIL, PG_BUDDY
  <2>2. PICK h \in Heads : q \in BlockOf(h)
    BY <2>1 DEF GoodInv, BlockInv, Covered
  <2> QED BY <1>6, <1>7, <1>14, <2>2
<1>18. HeldOK'
  <2>1. \A q \in Pages : state[q] = PG_ALLOCATED => q # p /\ q # b
    BY <1>1, <1>2, <1>7 DEF PG_ALLOCATED, PG_BUDDY, PG_TAIL
  <2>2. \A c \in held : c[1] \in Pages
    BY DEF GoodInv, RamInv, TypeOK
  <2>3. \A q \in Pages : state'[q] = PG_ALLOCATED => state[q] = PG_ALLOCATED
    BY <1>9 DEF PG_BUDDY, PG_ALLOCATED
  <2> QED BY <1>1, <1>9, <2>1, <2>2, <2>3 DEF GoodInv, BlockInv, HeldOK
<1>19. Ungrouped'
  BY <1>8 DEF Ungrouped
<1> QED BY <1>8, <1>13, <1>16, <1>17, <1>18, <1>19 DEF BlockInv

\* The block handed out has the order that was asked for.
LEMMA AllocReturnKeeps ==
  ASSUME GoodInv, AllocReturn
  PROVE  ListInv' /\ BlockInv' /\ Ungrouped' /\ order[page] = want
<1>1. /\ pc = "split" /\ pc' = "idle" /\ page \in Pages /\ order[page] = want
      /\ state' = [state EXCEPT ![page] = PG_ALLOCATED]
      /\ held' = held \cup {<<page, want>>}
      /\ UNCHANGED order /\ UNCHANGED links
      /\ state[page] = PG_BUDDY /\ Unlinked(page)
  BY MaxOrderAssumption
  DEF AllocReturn, GoodInv, RamInv, TypeOK, ListInv, InHandOK, Orders
<1>2. PICK p \in Pages : p = page
  BY <1>1
<1>3. \A q \in Pages : state'[q] = IF q = p THEN PG_ALLOCATED ELSE state[q]
  BY <1>1, <1>2 DEF GoodInv, RamInv, TypeOK
<1>4. LinksOK' /\ \A q \in Pages : Unlinked(q)' <=> Unlinked(q)
  BY <1>1, <1>2, <1>3, KeepLinks DEF GoodInv, RamInv, ListInv
<1>5. ListInv'
  <2>1. \A q \in Pages : Listable(q)' => Listable(q)
    BY <1>1, <1>2, <1>3 DEF Listable, PG_BUDDY, PG_ALLOCATED
  <2> QED BY <1>1, <1>4, <2>1 DEF GoodInv, ListInv, InHandOK, Complete
<1>6. Heads' = Heads /\ \A h \in Heads : BlockOf(h)' = BlockOf(h) /\ BlockOf(h) \subseteq Pages
  <2>1. Heads' = Heads
    BY <1>1, <1>2, <1>3 DEF Heads, PG_BUDDY, PG_ALLOCATED
  <2>2. \A h \in Heads : BlockOf(h)' = BlockOf(h)
    BY <1>1 DEF BlockOf, Block
  <2> QED BY <2>1, <2>2, HeadsInPages DEF GoodInv
<1>7. TailsOK' /\ Covered'
  BY <1>1, <1>2, <1>3, <1>6
  DEF GoodInv, BlockInv, TailsOK, Covered, PG_TAIL, PG_BUDDY, PG_ALLOCATED
<1>8. HeldOK'
  <2>1. \A c \in held : c[1] \in Pages /\ c[1] # p
    BY <1>1, <1>2 DEF GoodInv, RamInv, TypeOK, BlockInv, HeldOK, PG_BUDDY, PG_ALLOCATED
  <2> QED BY <1>1, <1>2, <1>3, <2>1 DEF GoodInv, BlockInv, HeldOK
<1>9. Ungrouped'
  BY <1>1 DEF Ungrouped
<1> QED BY <1>1, <1>5, <1>7, <1>8, <1>9 DEF BlockInv

LEMMA FreePagesKeeps ==
  ASSUME GoodInv, NEW p \in Pages, NEW o \in Orders, free_pages(p, o)
  PROVE  ListInv' /\ BlockInv' /\ Ungrouped' /\ pc' = "merge"
<1>1. <<p, o>> \in held /\ state[p] = PG_ALLOCATED /\ order[p] = o
  BY Zenon DEF free_pages, GoodInv, BlockInv, HeldOK
<1>2. Unlinked(p)
  <2>1. TypeOK /\ LinksOK
    BY Zenon DEF GoodInv, RamInv, ListInv
  <2>2. state[p] # PG_BUDDY
    BY <1>1 DEF PG_BUDDY, PG_ALLOCATED
  <2> QED BY <2>1, <2>2, LinkedIsFree, Zenon
<1>3. /\ pc = "idle" /\ pc' = "merge" /\ page' = p
      /\ held' = held \ {<<p, o>>}
      /\ state' = [state EXCEPT ![p] = PG_BUDDY]
      /\ UNCHANGED order /\ UNCHANGED links
  <2>1. /\ pc = "idle" /\ pc' = "merge" /\ page' = p
        /\ held' = held \ {<<p, o>>}
        /\ state' = [state EXCEPT ![p] = PG_BUDDY]
        /\ prev' = [prev EXCEPT ![p] = NULL] /\ next' = [next EXCEPT ![p] = NULL]
        /\ UNCHANGED <<order, free_matrix>>
    BY <1>1 DEF free_pages
  <2>2. prev' = prev /\ next' = next
    BY <1>2, <2>1 DEF Unlinked, GoodInv, RamInv, TypeOK
  <2> QED BY <2>1, <2>2 DEF links
<1>4. \A q \in Pages : state'[q] = IF q = p THEN PG_BUDDY ELSE state[q]
  BY <1>3 DEF GoodInv, RamInv, TypeOK
<1>5. LinksOK' /\ \A q \in Pages : Unlinked(q)' <=> Unlinked(q)
  BY <1>2, <1>3, <1>4, KeepLinks DEF GoodInv, RamInv, ListInv
<1>6. ListInv'
  <2>1. \A q \in Pages : Listable(q)' => Listable(q)
    BY <1>3, <1>4 DEF Listable
  <2>2. InHandOK'
    BY <1>2, <1>3, <1>4, <1>5 DEF InHandOK, Unlinked
  <2> QED BY <1>5, <2>1, <2>2 DEF GoodInv, ListInv, Complete
<1>7. Heads' = Heads /\ \A h \in Heads : BlockOf(h)' = BlockOf(h) /\ BlockOf(h) \subseteq Pages
  <2>1. Heads' = Heads
    BY <1>1, <1>4 DEF Heads, PG_BUDDY, PG_ALLOCATED
  <2>2. \A h \in Heads : BlockOf(h)' = BlockOf(h)
    BY <1>3 DEF BlockOf, Block
  <2> QED BY <2>1, <2>2, HeadsInPages DEF GoodInv
<1>8. TailsOK' /\ Covered'
  BY <1>1, <1>4, <1>7
  DEF GoodInv, BlockInv, TailsOK, Covered, PG_TAIL, PG_BUDDY, PG_ALLOCATED
<1>9. HeldOK'
  <2>1. \A c \in held' : c \in held /\ c[1] \in Pages /\ c = <<c[1], c[2]>> /\ c # <<p, o>>
    BY <1>3 DEF GoodInv, RamInv, TypeOK
  <2>2. \A c \in held' : state[c[1]] = PG_ALLOCATED /\ order[c[1]] = c[2]
    BY <2>1 DEF GoodInv, BlockInv, HeldOK
  <2>3. \A c \in held' : c[1] # p
    BY <1>1, <2>1, <2>2
  <2>4. \A q \in Pages : state'[q] = PG_ALLOCATED => q # p /\ <<q, order[q]>> \in held
    BY <1>4 DEF GoodInv, BlockInv, HeldOK, PG_BUDDY, PG_ALLOCATED
  <2> QED BY <1>3, <1>4, <2>1, <2>2, <2>3, <2>4 DEF HeldOK
<1>10. Ungrouped'
  BY <1>3 DEF Ungrouped
<1> QED BY <1>3, <1>6, <1>8, <1>9, <1>10 DEF BlockInv

LEMMA MergeRightKeeps ==
  ASSUME GoodInv, MergeRight
  PROVE  ListInv' /\ BlockInv' /\ Ungrouped' /\ pc' = "merge"
<1>1. /\ pc = "merge" /\ pc' = "merge" /\ page' = page /\ held' = held
      /\ CanMerge /\ BuddyIsRight
      /\ remove_free(PotentialBuddy)
      /\ state' = [state EXCEPT ![PotentialBuddy] = PG_TAIL]
      /\ order' = [order EXCEPT ![page] = order[page] + 1]
      /\ page \in Pages /\ PotentialBuddy \in Pages
      /\ state[page] = PG_BUDDY /\ Unlinked(page)
  BY DEF MergeRight, CanMerge, ghosts, GoodInv, RamInv, TypeOK, ListInv, InHandOK
<1>2. PICK p \in Pages, b \in Pages : p = page /\ b = PotentialBuddy
  BY <1>1
<1>3. PICK k \in Orders : k = order[p]
  BY DEF GoodInv, RamInv, TypeOK
<1>4. /\ k + 1 \in Orders /\ b = p + Size[k] /\ order[b] = k /\ state[b] = PG_BUDDY
  BY <1>1, <1>2, <1>3, MergeRam DEF GoodInv, CanMerge
<1>5. /\ Size[k + 1] = 2 * Size[k] /\ Size[k] \in Nat /\ Size[k] > 0 /\ p \in Int
  BY <1>4, SizeFacts, MaxOrderAssumption DEF Orders, Pages
<1>6. /\ Block(p, k + 1) = BlockOf(p) \cup BlockOf(b)
      /\ b # p /\ b \in BlockOf(b) /\ p \in BlockOf(p)
  BY <1>3, <1>4, <1>5 DEF BlockOf, Block
<1>7. /\ \A q \in Pages : state'[q] = IF q = b THEN PG_TAIL ELSE state[q]
      /\ \A q \in Pages : order'[q] = IF q = p THEN k + 1 ELSE order[q]
  BY <1>1, <1>2, <1>3 DEF GoodInv, RamInv, TypeOK
<1>8. LinkedUnchangedBut(b)
  BY <1>1, <1>2, <1>7 DEF LinkedUnchangedBut
<1>9. /\ LinksOK' /\ Unlinked(b)'
      /\ \A q \in Pages : q # b => (Unlinked(q)' <=> Unlinked(q))
  BY <1>1, <1>2, <1>4, <1>8, RemoveLinks DEF GoodInv, RamInv, ListInv
<1>10. ListInv'
  <2>1. InHandOK'
    <3>1. page' = p /\ state'[p] = PG_BUDDY
      BY <1>1, <1>2, <1>6, <1>7
    <3>2. Unlinked(page)'
      <4>1. Unlinked(p)'
        BY <1>1, <1>2, <1>6, <1>9, Zenon
      <4> QED BY <3>1, <4>1, Zenon DEF Unlinked
    <3> QED BY <1>1, <3>1, <3>2 DEF InHandOK
  <2>2. Complete'
    <3> SUFFICES ASSUME NEW q \in Pages, Listable(q)' PROVE ~Unlinked(q)'
      BY DEF Complete
    <3>1. Listable(q) /\ q # b
      BY <1>1, <1>7 DEF Listable, PG_BUDDY, PG_TAIL
    <3> QED BY <1>9, <3>1 DEF GoodInv, ListInv, Complete
  <2> QED BY <1>9, <2>1, <2>2 DEF ListInv
<1>11. p \in Heads /\ b \in Heads
  BY <1>1, <1>2, <1>4 DEF Heads
<1>12. /\ Heads' = Heads \ {b}
       /\ BlockOf(p)' = BlockOf(p) \cup BlockOf(b)
       /\ \A h \in Heads : h # p => BlockOf(h)' = BlockOf(h)
  <2>1. Heads' = Heads \ {b}
    <3>1. \A q \in Pages : state'[q] \in {PG_BUDDY, PG_ALLOCATED}
                           <=> q # b /\ state[q] \in {PG_BUDDY, PG_ALLOCATED}
      <4>1. PG_TAIL \notin {PG_BUDDY, PG_ALLOCATED}
        BY DEF PG_TAIL, PG_BUDDY, PG_ALLOCATED
      <4> QED BY <1>7, <4>1, Zenon
    <3> QED BY <3>1, Zenon DEF Heads
  <2>2. BlockOf(p)' = Block(p, k + 1)
    BY <1>7 DEF BlockOf, Block
  <2> QED BY <1>6, <1>7, <2>1, <2>2, Zenon DEF Heads, BlockOf, Block
<1>13. \A h \in Heads : BlockOf(h) \subseteq Pages
  BY HeadsInPages DEF GoodInv
<1>14. TailsOK'
  <2> SUFFICES ASSUME NEW h \in Heads', NEW q \in BlockOf(h)', q # h
               PROVE  state'[q] = PG_TAIL
    BY DEF TailsOK
  <2>1. PICK g \in Heads : q \in BlockOf(g) /\ (q = g => q = b)
    BY <1>11, <1>12
  <2>2. q = b \/ state[q] = PG_TAIL
    BY <2>1 DEF GoodInv, BlockInv, TailsOK
  <2> QED BY <1>7, <1>13, <2>1, <2>2
<1>15. Covered'
  <2> SUFFICES ASSUME NEW q \in Pages, state'[q] = PG_TAIL
               PROVE  \E h \in Heads' : q \in BlockOf(h)'
    BY DEF Covered
  <2>1. PICK g \in Heads : q \in BlockOf(g)
    BY <1>6, <1>7, <1>11 DEF GoodInv, BlockInv, Covered
  <2> QED BY <1>6, <1>11, <1>12, <2>1
<1>16. HeldOK'
  <2>1. \A q \in Pages : state[q] = PG_ALLOCATED => q # p /\ q # b
    BY <1>1, <1>2, <1>4 DEF PG_ALLOCATED, PG_BUDDY
  <2>2. \A c \in held : c[1] \in Pages
    BY DEF GoodInv, RamInv, TypeOK
  <2>3. \A q \in Pages : state'[q] = PG_ALLOCATED => state[q] = PG_ALLOCATED
    BY <1>7 DEF PG_TAIL, PG_ALLOCATED
  <2> QED BY <1>1, <1>7, <2>1, <2>2, <2>3 DEF GoodInv, BlockInv, HeldOK
<1>17. Ungrouped'
  BY <1>1 DEF Ungrouped
<1> QED BY <1>1, <1>10, <1>14, <1>15, <1>16, <1>17 DEF BlockInv

LEMMA FreeInsertKeeps ==
  ASSUME GoodInv, FreeInsert
  PROVE  ListInv' /\ BlockInv' /\ Ungrouped'
<1>1. /\ pc = "merge" /\ pc' = "idle" /\ page \in Pages /\ order[page] \in Orders
      /\ insert_free(page, order[page])
      /\ state' = [state EXCEPT ![page] = PG_BUDDY]
      /\ UNCHANGED <<order, held>>
      /\ state[page] = PG_BUDDY /\ Unlinked(page)
  BY DEF FreeInsert, ghosts, GoodInv, RamInv, TypeOK, ListInv, InHandOK
<1>2. PICK p \in Pages : p = page
  BY <1>1
<1>3. state' = state
  BY <1>1 DEF GoodInv, RamInv, TypeOK
<1>4. /\ LinksOK' /\ ~Unlinked(p)'
      /\ \A q \in Pages : q # p => (Unlinked(q)' <=> Unlinked(q))
  <2>1. LinkedUnchangedBut(p)
    BY <1>1, <1>3 DEF LinkedUnchangedBut
  <2> QED BY <1>1, <1>2, <1>3, <2>1, InsertLinks DEF GoodInv, RamInv, ListInv
<1>5. ListInv'
  <2>1. \A q \in Pages : Listable(q)' /\ q # p => Listable(q)
    BY <1>1, <1>2, <1>3 DEF Listable
  <2> QED BY <1>1, <1>4, <2>1, Zenon DEF GoodInv, ListInv, InHandOK, Complete
<1>6. BlockInv'
  BY <1>1, <1>3, Zenon DEF GoodInv, BlockInv, TailsOK, Covered, HeldOK, Heads, BlockOf
<1>7. Ungrouped'
  BY <1>1 DEF Ungrouped
<1> QED BY <1>5, <1>6, <1>7

\* left_merged is never reset, and the caller's blocks change only when
\* alloc_pages returns one and when free_pages is called.
LEMMA GhostSteps ==
  ASSUME TypeOK, [Next]_vars, ~left_merged'
  PROVE  /\ ~left_merged /\ ~MergeLeft
         /\ AllocReturn \/ (\E p \in Pages, o \in Orders : free_pages(p, o)) \/ UNCHANGED ghosts
<1>0. ~MergeLeft
  BY DEF MergeLeft
<1>1. CASE UNCHANGED vars
  BY <1>0, <1>1 DEF vars, ghosts
<1>2. CASE GroupSkip \/ GroupBlock \/ GroupDone
  BY <1>0, <1>2 DEF GroupSkip, GroupBlock, GroupDone, ghosts
<1>3. CASE AllocSplit
  BY <1>0, <1>3 DEF AllocSplit, ghosts
<1>4. CASE MergeRight \/ FreeInsert
  BY <1>0, <1>4 DEF MergeRight, FreeInsert, ghosts
<1>5. CASE \E o \in 0 .. MaxOrder + 1 :
             alloc_pages_bad_order(o) \/ alloc_pages_none(o) \/ alloc_pages(o)
  BY <1>0, <1>5 DEF alloc_pages_bad_order, alloc_pages_none, alloc_pages, vars, ghosts
<1>6. CASE AllocReturn
  BY <1>0, <1>6 DEF AllocReturn
<1>7. CASE \E p \in Pages, o \in Orders : free_pages(p, o)
  BY <1>0, <1>7 DEF free_pages
<1> QED BY <1>0, <1>1, <1>2, <1>3, <1>4, <1>5, <1>6, <1>7 DEF Next, Halted

LEMMA NextBuddy == BuddyInv /\ [Next]_vars => BuddyInv'
<1> SUFFICES ASSUME BuddyInv, [Next]_vars PROVE BuddyInv'
  OBVIOUS
<1>1. RamInv'
  BY NextRam DEF BuddyInv
<1>2. SUFFICES ASSUME ~left_merged'
               PROVE  (ListInv /\ BlockInv /\ Ungrouped)' /\ pc' # "panic_tail"
  BY <1>1 DEF BuddyInv
<1>3. ~left_merged /\ ~MergeLeft
  BY <1>2, GhostSteps DEF BuddyInv, RamInv
<1>4. GoodInv /\ pc # "panic_tail"
  BY <1>3 DEF BuddyInv, GoodInv
<1>5. CASE UNCHANGED vars
  <2>1. \A q \in Pages : /\ Unlinked(q)' <=> Unlinked(q)
                         /\ Listable(q)' <=> Listable(q)
    BY <1>5 DEF vars, Unlinked, Listable
  <2>2. ListInv'
    <3>1. Unlinked(page)' <=> Unlinked(page)
      BY <1>5 DEF vars, Unlinked
    <3> QED
      BY <1>4, <1>5, <2>1, <3>1, Zenon DEF vars, GoodInv, ListInv, LinksOK, InHandOK, Complete
  <2>3. BlockInv'
    BY <1>4, <1>5, Zenon DEF vars, GoodInv, BlockInv, TailsOK, Covered, HeldOK, Heads, BlockOf
  <2>4. Ungrouped'
    BY <1>4, <1>5, <2>1 DEF vars, GoodInv, Ungrouped
  <2> QED BY <1>4, <1>5, <2>2, <2>3, <2>4 DEF vars
<1>6. CASE GroupSkip
  BY <1>4, <1>6, GroupSkipKeeps DEF GroupSkip
<1>7. CASE GroupBlock
  BY <1>4, <1>7, GroupBlockKeeps, Zenon DEF GroupBlock
<1>8. CASE GroupDone
  <2>1. /\ UNCHANGED <<state, order, prev, next, free_matrix, held>>
        /\ pc = "group" /\ page >= NrPages /\ page \in Nat /\ pc' \in {"idle", "panic_group"}
    BY <1>4, <1>8 DEF GroupDone, links, ghosts, GoodInv, RamInv, TypeOK
  <2>2. \A q \in Pages : Listable(q)' => Listable(q)
    BY <2>1, NrPagesAssumption DEF Listable, Pages
  <2> QED BY <1>4, <2>1, <2>2, StutterKeeps
<1>9. ASSUME NEW o \in 0 .. MaxOrder + 1, alloc_pages_bad_order(o)
      PROVE  (ListInv /\ BlockInv /\ Ungrouped)' /\ pc' # "panic_tail"
  <2>1. /\ UNCHANGED <<state, order, prev, next, free_matrix, held>>
        /\ pc = "idle" /\ pc' = "panic_order"
    BY <1>9 DEF alloc_pages_bad_order, links, ghosts
  <2>2. \A q \in Pages : Listable(q)' => Listable(q)
    BY <2>1 DEF Listable
  <2> QED BY <1>4, <2>1, <2>2, StutterKeeps
<1>10. ASSUME NEW o \in 0 .. MaxOrder + 1, alloc_pages(o)
       PROVE  (ListInv /\ BlockInv /\ Ungrouped)' /\ pc' # "panic_tail"
  BY <1>4, <1>10, AllocPagesKeeps DEF alloc_pages
<1>11. CASE AllocSplit
  BY <1>4, <1>11, AllocSplitKeeps
<1>12. CASE AllocReturn
  BY <1>4, <1>12, AllocReturnKeeps DEF AllocReturn
<1>13. ASSUME NEW p \in Pages, NEW o \in Orders, free_pages(p, o)
       PROVE  (ListInv /\ BlockInv /\ Ungrouped)' /\ pc' # "panic_tail"
  BY <1>4, <1>13, FreePagesKeeps
<1>14. CASE MergeRight
  BY <1>4, <1>14, MergeRightKeeps
<1>15. CASE FreeInsert
  BY <1>4, <1>15, FreeInsertKeeps DEF FreeInsert
<1> QED
  BY <1>3, <1>5, <1>6, <1>7, <1>8, <1>9, <1>10, <1>11, <1>12, <1>13, <1>14, <1>15
  DEF Next, Halted, alloc_pages_none

LEMMA BuddyInvariant == Spec => []BuddyInv
BY InitBuddy, NextBuddy, PTL DEF Spec

\* Until free_pages merges a block into its left buddy, the blocks cut up the RAM
\* given to buddy_init, callers hold exactly the allocated ones, and alloc_pages'
\* panic in the split loop is unreachable.
THEOREM BlocksCorrect == Spec => [](Partition /\ SplitFindsTail)
<1>1. BuddyInv => Partition /\ SplitFindsTail
  <2> SUFFICES ASSUME BuddyInv, ~left_merged PROVE Partition /\ SplitFindsTail
    BY DEF Partition, SplitFindsTail, BuddyInv
  <2>1. RamInv /\ BlockInv /\ pc # "panic_tail" /\ TypeOK /\ TailsOK
    BY DEF BuddyInv, RamInv, BlockInv
  <2>2. \A p \in Pages : p \in ram => \E h \in Heads : p \in BlockOf(h)
    <3> SUFFICES ASSUME NEW p \in Pages, p \in ram PROVE \E h \in Heads : p \in BlockOf(h)
      OBVIOUS
    <3>1. CASE state[p] = PG_TAIL
      BY <2>1, <3>1 DEF BlockInv, Covered
    <3>2. CASE state[p] # PG_TAIL
      <4>1. p \in Heads
        BY <2>1, <3>2 DEF RamInv, TypeOK, OnlyRam, Heads
      <4>2. p \in BlockOf(p)
        BY <2>1, SizeFacts DEF TypeOK, BlockOf, Block, Pages
      <4> QED BY <4>1, <4>2
    <3> QED BY <3>1, <3>2
  <2>3. \A p \in Pages : (\E h \in Heads : p \in BlockOf(h)) => p \in ram
    BY <2>1, HeadsInPages
  <2>4. \A g, h \in Heads : g # h => BlockOf(g) \cap BlockOf(h) = {}
    BY <2>1, DisjointBlocks
  <2>5. held = {<<h, order[h]>> : h \in {p \in Heads : state[p] = PG_ALLOCATED}}
    <3>1. \A c \in held : c[1] \in Pages /\ c = <<c[1], c[2]>>
      BY <2>1 DEF TypeOK
    <3>2. \A c \in held : c[1] \in Heads /\ state[c[1]] = PG_ALLOCATED /\ c = <<c[1], order[c[1]]>>
      BY <2>1, <3>1 DEF BlockInv, HeldOK, Heads
    <3>3. \A h \in Heads : state[h] = PG_ALLOCATED => <<h, order[h]>> \in held
      BY <2>1 DEF BlockInv, HeldOK, Heads
    <3> QED BY <3>2, <3>3
  <2> QED BY <2>1, <2>2, <2>3, <2>4, <2>5 DEF Partition, SplitFindsTail
<1> QED BY <1>1, BuddyInvariant, PTL

\* The upper half of a block that alloc_pages splits is a tail, so that its
\* assertion holds up to the first left merge.
THEOREM SplitsCorrect == Spec => []SplitFindsTail
  BY BlocksCorrect, PTL

\* Until free_pages merges a block into its left buddy, alloc_pages and free_pages
\* implement PageAllocator: a block handed out is free RAM that no one else holds.
THEOREM ContractKept == Spec => KeepsContract
<1>1. Init => Contract!Init
  BY DEF Init, Contract!Init
<1>2. BuddyInv /\ [Next]_vars => [Contract!Next]_(Contract!vars)
  <2> SUFFICES ASSUME BuddyInv, [Next]_vars PROVE Contract!Next \/ UNCHANGED Contract!vars
    OBVIOUS
  <2>1. CASE left_merged'
    BY <2>1 DEF Contract!Next, Contract!Lapse
  <2>2. CASE ~left_merged'
    <3>1. ~left_merged /\ ~MergeLeft
      BY <2>2, GhostSteps DEF BuddyInv, RamInv
    <3>2. GoodInv
      BY <3>1 DEF BuddyInv, GoodInv
    <3>3. CASE AllocReturn
      <4>1. /\ page \in Pages /\ want \in Orders /\ page \in Heads /\ order[page] = want
            /\ held' = held \cup {<<page, want>>} /\ ram' = ram /\ state[page] = PG_BUDDY
        BY <3>2, <3>3, AllocReturnKeeps
        DEF AllocReturn, GoodInv, RamInv, TypeOK, ListInv, InHandOK, Heads
      <4>2. Block(page, want) \subseteq ram
        BY <3>2, <4>1, HeadsInPages DEF GoodInv, BlockOf
      <4>3. ASSUME NEW c \in held PROVE Block(page, want) \cap Block(c[1], c[2]) = {}
        <5>1. c[1] \in Heads /\ order[c[1]] = c[2] /\ c[1] # page
          BY <3>2, <4>1 DEF GoodInv, RamInv, TypeOK, BlockInv, HeldOK, Heads,
                            PG_ALLOCATED, PG_BUDDY
        <5>2. BlockOf(page) \cap BlockOf(c[1]) = {}
          BY <3>2, <4>1, <5>1, DisjointBlocks DEF GoodInv, RamInv, BlockInv
        <5> QED BY <4>1, <5>1, <5>2 DEF BlockOf
      <4>4. Contract!Alloc(page, want)
        BY <2>2, <3>1, <4>1, <4>2, <4>3 DEF Contract!Alloc, Contract!Block, Block
      <4> QED BY <4>1, <4>4 DEF Contract!Next
    <3>4. ASSUME NEW p \in Pages, NEW o \in Orders, free_pages(p, o)
          PROVE  Contract!Next
      <4>1. <<p, o>> \in held /\ held' = held \ {<<p, o>>} /\ ram' = ram
        BY <3>4 DEF free_pages
      <4>2. Contract!Free(<<p, o>>)
        BY <2>2, <3>1, <4>1 DEF Contract!Free
      <4> QED BY <4>1, <4>2 DEF Contract!Next
    <3>5. CASE ~AllocReturn /\ ~ \E p \in Pages, o \in Orders : free_pages(p, o)
      BY <2>2, <3>5, GhostSteps DEF BuddyInv, RamInv, ghosts, Contract!vars
    <3> QED BY <3>3, <3>4, <3>5
  <2> QED BY <2>1, <2>2
<1> QED
  BY <1>1, <1>2, BuddyInvariant, PTL DEF Spec, KeepsContract, Contract!Spec
=============================================================================
