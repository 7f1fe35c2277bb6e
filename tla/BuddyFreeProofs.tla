--------------------------- MODULE BuddyFreeProofs --------------------------
(***************************************************************************)
(* Proofs about the free blocks of Buddy up to the first left merge, for   *)
(* every number of pages and every PAGE_MAX_ORDER: the free lists have no  *)
(* cycles, and lead to exactly the free blocks; free halves of a block are *)
(* merged; and buddy_init accounts for every page.                         *)
(***************************************************************************)
EXTENDS BuddyProofs, FiniteSetTheorems, WellFoundedInduction

\* Every nonempty set of natural numbers has a least element.
LEMMA LeastNat ==
  ASSUME NEW T \in SUBSET Nat, T # {}
  PROVE  \E x \in T : \A y \in T : x <= y
<1> DEFINE R == OpToRel(<, Nat)
<1>1. IsWellFoundedOn(R, Nat)
  BY NatLessThanWellFounded, ZenonT(30)
<1>2. \A x, y \in Nat : <<y, x>> \in R <=> y < x
  BY DEF OpToRel
<1> HIDE DEF R
<1>3. PICK x \in T : \A y \in T : ~(<<y, x>> \in R)
  BY <1>1, WFMin, ZenonT(30)
<1>4. \A y \in T : ~(y < x)
  BY <1>2, <1>3, Zenon
<1> QED BY <1>4

\* A set of numbers up to n that has 0 and with every number below n the next one
\* has them all.
LEMMA UpTo ==
  ASSUME NEW n \in Nat, NEW T, 0 \in T, \A i \in 0 .. n - 1 : i \in T => i + 1 \in T
  PROVE  \A i \in 0 .. n : i \in T
<1> SUFFICES ASSUME NEW j \in 0 .. n, j \notin T PROVE FALSE
  OBVIOUS
<1> DEFINE U == {i \in 0 .. n : i \notin T}
<1>0. U \in SUBSET Nat /\ U # {} /\ \A i : i \in U <=> i \in 0 .. n /\ i \notin T
  OBVIOUS
<1> HIDE DEF U
<1>1. PICK x \in U : \A y \in U : x <= y
  BY <1>0, LeastNat
<1>2. x # 0 /\ x - 1 \in 0 .. n - 1 /\ ~(x <= x - 1)
  BY <1>0, <1>1
<1>3. x - 1 \in T
  BY <1>0, <1>1, <1>2
<1> QED BY <1>0, <1>2, <1>3

(***************************************************************************)
(* The lists.  LinksOK is about one page and its neighbours, and so does   *)
(* not exclude a cycle that no list head leads to; a rank that falls along *)
(* next does.                                                              *)
(***************************************************************************)

Falls(r) == \A p \in Pages : next[p] # NULL => r[next[p]] < r[p]

Ranked == \E b \in Nat : \E r \in [Pages -> 0 .. b] : Falls(r)

LEMMA InsertRanked ==
  ASSUME TypeOK, LinksOK, Ranked, NEW p \in Pages, NEW k \in Orders, Unlinked(p),
         insert_free(p, k)
  PROVE  Ranked'
<1>0. PICK b \in Nat : \E r \in [Pages -> 0 .. b] : Falls(r)
  BY DEF Ranked
<1>1. PICK r \in [Pages -> 0 .. b] : Falls(r)
  BY <1>0
<1>2. PICK s \in [Pages -> 0 .. b + 1] : \A q \in Pages : s[q] = IF q = p THEN b + 1 ELSE r[q]
  <2>1. [q \in Pages |-> IF q = p THEN b + 1 ELSE r[q]] \in [Pages -> 0 .. b + 1]
    OBVIOUS
  <2> QED BY <2>1, ZenonT(30)
<1>3. \A q \in Pages : next[q] # p
  BY DEF TypeOK, LinksOK, Unlinked, Pages, NULL
<1>4. free_matrix[k] # p /\ (free_matrix[k] # NULL => free_matrix[k] \in Pages)
  BY DEF TypeOK, Unlinked
<1>5. \A q \in Pages : next'[q] = IF q = p THEN free_matrix[k] ELSE next[q]
  BY DEF insert_free, TypeOK
<1>6. ASSUME NEW q \in Pages, next'[q] # NULL PROVE s[next'[q]] < s[q]
  <2>1. CASE q = p
    <3>1. next'[q] \in Pages /\ next'[q] # p
      BY <1>4, <1>5, <1>6, <2>1
    <3>2. s[next'[q]] = r[next'[q]] /\ r[next'[q]] \in 0 .. b /\ s[q] = b + 1
      BY <1>2, <2>1, <3>1
    <3> QED BY <3>2
  <2>2. CASE q # p
    <3>1. next'[q] = next[q] /\ next[q] \in Pages /\ next[q] # p
      BY <1>3, <1>5, <1>6, <2>2 DEF TypeOK
    <3>2. r[next[q]] < r[q]
      BY <1>1, <1>6, <3>1 DEF Falls
    <3> QED BY <1>2, <2>2, <3>1, <3>2
  <2> QED BY <2>1, <2>2
<1>7. \E c \in Nat : \E t \in [Pages -> 0 .. c] :
        \A q \in Pages : next'[q] # NULL => t[next'[q]] < t[q]
  BY <1>2, <1>6
<1> QED BY <1>7 DEF Ranked, Falls

\* The page after q stays, or goes, or is passed over.
Shortens(q) ==
  \/ next'[q] = NULL
  \/ next'[q] = next[q]
  \/ next[q] \in Pages /\ next'[q] = next[next[q]]

\* Unlinking a page, and leaving the lists alone, keep the ranks.
LEMMA UnlinkRanked ==
  ASSUME TypeOK, LinksOK, Ranked,
         \A q \in Pages : Shortens(q)
  PROVE  Ranked'
<1>0. PICK b \in Nat : \E r \in [Pages -> 0 .. b] : Falls(r)
  BY DEF Ranked
<1>1. PICK r \in [Pages -> 0 .. b] : Falls(r)
  BY <1>0
<1>2. ASSUME NEW q \in Pages, next'[q] # NULL PROVE r[next'[q]] < r[q]
  <2>1. CASE next'[q] = next[q]
    BY <1>1, <1>2, <2>1 DEF Falls
  <2>2. CASE next[q] \in Pages /\ next'[q] = next[next[q]]
    <3>1. r[next[q]] < r[q] /\ next[q] # NULL
      BY <1>1, <2>2 DEF Falls, Pages, NULL
    <3>2. r[next[next[q]]] < r[next[q]] /\ next[next[q]] \in Pages
      BY <1>1, <1>2, <2>2 DEF Falls, TypeOK
    <3> QED BY <2>2, <3>1, <3>2
  <2> QED BY <1>2, <2>1, <2>2 DEF Shortens
<1> QED BY <1>1, <1>2 DEF Ranked, Falls

\* No cycle arises, up to the first left merge.
LEMMA NextRanked ==
  ASSUME BuddyInv, [Next]_vars, ~left_merged', Ranked
  PROVE  Ranked'
<1>1. ~left_merged /\ ~MergeLeft
  BY GhostSteps DEF BuddyInv, RamInv
<1>2. TypeOK /\ LinksOK /\ InHandOK /\ Ungrouped
  BY <1>1 DEF BuddyInv, RamInv, ListInv
<1>3. CASE UNCHANGED next
  <2>1. \A q \in Pages : Shortens(q)
    BY <1>3 DEF Shortens
  <2> QED BY <1>2, <2>1, UnlinkRanked
<1>4. CASE GroupBlock
  <2>1. PICK k \in Orders : insert_free(page, k)
    BY <1>4 DEF GroupBlock
  <2>2. page \in Pages /\ Unlinked(page)
    BY <1>2, <1>4, NrPagesAssumption DEF GroupBlock, TypeOK, Ungrouped, Pages
  <2> QED BY <1>2, <2>1, <2>2, InsertRanked
<1>5. ASSUME NEW o \in 0 .. MaxOrder + 1, alloc_pages(o)
      PROVE  Ranked'
  <2>1. PICK k \in o .. MaxOrder : free_matrix[k] # NULL /\ pop_free(free_matrix[k], k)
    BY <1>5 DEF alloc_pages
  <2>2. \A q \in Pages : Shortens(q)
    BY <1>2, <2>1 DEF pop_free, TypeOK, Shortens
  <2> QED BY <1>2, <2>2, UnlinkRanked
<1>6. CASE AllocSplit
  <2>1. PICK k \in Orders : k = order[page] - 1 /\ order[page] > want /\ pc = "split"
    BY <1>2, <1>6, MaxOrderAssumption DEF AllocSplit, TypeOK, Orders
  <2>2. CASE UNCHANGED links
    BY <1>3, <2>2 DEF links
  <2>3. CASE ~UNCHANGED links
    <3>1. insert_free(page + Size[k], k) /\ state[page + Size[k]] = PG_TAIL
      BY <1>6, <2>1, <2>3 DEF AllocSplit
    <3>2. page + Size[k] \in Pages
      BY <2>1, SplitRam DEF BuddyInv, RamInv, TypeOK
    <3>3. Unlinked(page + Size[k])
      BY <1>2, <3>1, <3>2, LinkedIsFree DEF PG_TAIL, PG_BUDDY
    <3> QED BY <1>2, <3>1, <3>2, <3>3, InsertRanked
  <2> QED BY <2>2, <2>3
<1>7. ASSUME NEW p \in Pages, NEW o \in Orders, free_pages(p, o)
      PROVE  Ranked'
  <2>1. \A q \in Pages : Shortens(q)
    BY <1>2, <1>7 DEF free_pages, TypeOK, links, Shortens
  <2> QED BY <1>2, <2>1, UnlinkRanked
<1>8. CASE MergeRight
  <2>1. PICK b \in Pages : remove_free(b)
    BY <1>8 DEF MergeRight, CanMerge
  <2>2. \A q \in Pages : Shortens(q)
    <3> SUFFICES ASSUME NEW q \in Pages PROVE Shortens(q)
      OBVIOUS
    <3>1. CASE UNCHANGED links
      BY <3>1 DEF links, Shortens
    <3>2. CASE ~UNCHANGED links
      <4>1. next'[q] = IF q = b THEN NULL ELSE IF q = prev[b] THEN next[b] ELSE next[q]
        BY <2>1, <3>2 DEF remove_free
      <4>2. q = prev[b] => next[q] = b
        <5>1. q # NULL
          BY DEF Pages, NULL
        <5> QED BY <1>2, <5>1 DEF LinksOK
      <4> QED BY <4>1, <4>2 DEF Shortens
    <3> QED BY <3>1, <3>2
  <2> QED BY <1>2, <2>2, UnlinkRanked
<1>9. CASE FreeInsert
  <2>1. /\ insert_free(page, order[page]) /\ page \in Pages /\ order[page] \in Orders
        /\ Unlinked(page)
    BY <1>2, <1>9 DEF FreeInsert, TypeOK, InHandOK
  <2> QED BY <1>2, <2>1, InsertRanked
<1>10. CASE UNCHANGED vars \/ GroupSkip \/ GroupDone \/ AllocReturn \/ Halted
  BY <1>3, <1>10 DEF vars, GroupSkip, GroupDone, AllocReturn, Halted, links
<1>11. ASSUME NEW o \in 0 .. MaxOrder + 1, alloc_pages_bad_order(o) \/ alloc_pages_none(o)
       PROVE  Ranked'
  BY <1>3, <1>11 DEF alloc_pages_bad_order, alloc_pages_none, vars, links
<1> QED BY <1>1, <1>4, <1>5, <1>6, <1>7, <1>8, <1>9, <1>10, <1>11 DEF Next

-----------------------------------------------------------------------------
\* Walk is recursive: that it exists, and what it is at n, is an induction.
WalkStep(f, k, n) ==
  IF n = 0 THEN free_matrix[k] ELSE IF f[n - 1] = NULL THEN NULL ELSE next[f[n - 1]]

IsWalk(f, k, j) ==
  /\ f \in [0 .. j -> Pages \cup {NULL}]
  /\ \A n \in 0 .. j : f[n] = WalkStep(f, k, n)

LEMMA WalkStepType ==
  ASSUME TypeOK, NEW k \in Orders, NEW f, NEW n \in Nat,
         n # 0 => f[n - 1] \in Pages \cup {NULL}
  PROVE  WalkStep(f, k, n) \in Pages \cup {NULL}
<1>1. free_matrix[k] \in Pages \cup {NULL} /\ \A p \in Pages : next[p] \in Pages \cup {NULL}
  BY DEF TypeOK
<1> QED BY <1>1 DEF WalkStep

LEMMA WalkExtends ==
  ASSUME TypeOK, NEW k \in Orders, NEW j \in Nat, NEW f, IsWalk(f, k, j)
  PROVE  \E g : IsWalk(g, k, j + 1)
<1>1. PICK g : g = [n \in 0 .. j + 1 |-> IF n = j + 1 THEN WalkStep(f, k, j + 1) ELSE f[n]]
  BY ZenonT(30)
<1>2. f[j] \in Pages \cup {NULL} /\ \A n \in 0 .. j : f[n] \in Pages \cup {NULL}
  BY DEF IsWalk
<1>3. WalkStep(f, k, j + 1) \in Pages \cup {NULL}
  BY <1>2, WalkStepType
<1>4. g \in [0 .. j + 1 -> Pages \cup {NULL}]
  BY <1>1, <1>2, <1>3
<1>5. \A n \in 0 .. j + 1 : g[n] = WalkStep(g, k, n)
  <2> SUFFICES ASSUME NEW n \in 0 .. j + 1 PROVE g[n] = WalkStep(g, k, n)
    OBVIOUS
  <2>1. g[n] = WalkStep(f, k, n)
    BY <1>1 DEF IsWalk
  <2>2. n # 0 => g[n - 1] = f[n - 1]
    BY <1>1
  <2> QED BY <2>1, <2>2 DEF WalkStep
<1> QED BY <1>4, <1>5 DEF IsWalk

LEMMA WalkFacts ==
  ASSUME TypeOK, NEW k \in Orders
  PROVE  IsWalk(Walk(k), k, NrPages)
<1>1. NrPages \in Nat
  BY NrPagesAssumption
<1>2. \E f : IsWalk(f, k, NrPages)
  <2> DEFINE T == {j \in 0 .. NrPages : \E f : IsWalk(f, k, j)}
  <2>1. 0 \in T
    <3>1. PICK f : f = [n \in 0 .. 0 |-> free_matrix[k]]
      BY ZenonT(30)
    <3>2. IsWalk(f, k, 0)
      BY <3>1 DEF IsWalk, WalkStep, TypeOK
    <3> QED BY <1>1, <3>2
  <2>2. \A i \in 0 .. NrPages - 1 : i \in T => i + 1 \in T
    <3> SUFFICES ASSUME NEW i \in 0 .. NrPages - 1, i \in T PROVE i + 1 \in T
      OBVIOUS
    <3>1. i \in Nat /\ i + 1 \in 0 .. NrPages /\ \E f : IsWalk(f, k, i)
      BY <1>1
    <3>2. \E g : IsWalk(g, k, i + 1)
      BY <3>1, WalkExtends
    <3> QED BY <3>1, <3>2
  <2> HIDE DEF T
  <2>3. \A i \in 0 .. NrPages : i \in T
    BY <1>1, <2>1, <2>2, UpTo
  <2> QED BY <1>1, <2>3 DEF T
<1>3. PICK f : IsWalk(f, k, NrPages)
  BY <1>2
<1>4. f = [n \in 0 .. NrPages |-> WalkStep(f, k, n)]
  BY <1>3, SMTT(30) DEF IsWalk
<1>5. Walk(k) = [n \in 0 .. NrPages |-> WalkStep(Walk(k), k, n)]
  BY <1>4, ZenonT(30) DEF Walk, WalkStep
<1>6. PICK w : w = Walk(k)
  OBVIOUS
<1>7. \A n \in 0 .. NrPages : w[n] = WalkStep(w, k, n)
  BY <1>5, <1>6, ZenonT(30)
<1>8. \A n \in 0 .. NrPages : w[n] \in Pages \cup {NULL}
  <2> DEFINE T == {n \in 0 .. NrPages : w[n] \in Pages \cup {NULL}}
  <2>1. 0 \in T
    BY <1>1, <1>7, WalkStepType
  <2>2. \A i \in 0 .. NrPages - 1 : i \in T => i + 1 \in T
    <3> SUFFICES ASSUME NEW i \in 0 .. NrPages - 1, i \in T PROVE i + 1 \in T
      OBVIOUS
    <3>1. w[i] \in Pages \cup {NULL} /\ i + 1 \in 0 .. NrPages /\ i + 1 \in Nat /\ (i + 1) - 1 = i
      BY <1>1
    <3>2. WalkStep(w, k, i + 1) \in Pages \cup {NULL}
      BY <3>1, WalkStepType
    <3> QED BY <1>7, <3>1, <3>2
  <2> HIDE DEF T
  <2>3. \A i \in 0 .. NrPages : i \in T
    BY <1>1, <2>1, <2>2, UpTo
  <2> QED BY <2>3 DEF T
<1>9. w \in [0 .. NrPages -> Pages \cup {NULL}]
  BY <1>5, <1>6, <1>8
<1> QED BY <1>6, <1>7, <1>9 DEF IsWalk

\* A page is on a list exactly if it belongs on one.
LEMMA LinkedIsListable ==
  ASSUME TypeOK, ListInv, Ungrouped, NEW p \in Pages
  PROVE  Listable(p) <=> ~Unlinked(p)
<1>1. Listable(p) => ~Unlinked(p)
  BY DEF ListInv, Complete
<1>2. ASSUME ~Unlinked(p) PROVE Listable(p)
  <2>1. state[p] = PG_BUDDY
    BY <1>2, LinkedIsFree DEF ListInv
  <2>2. pc \in {"split", "merge"} => p # page
    BY <1>2 DEF ListInv, InHandOK
  <2>3. pc = "group" => p < page
    <3>1. pc = "group" => page \in Nat /\ p \in Int
      BY DEF TypeOK, Pages
    <3>2. pc = "group" => ~(p >= page)
      BY <1>2 DEF Ungrouped
    <3> QED BY <3>1, <3>2
  <2> QED BY <2>1, <2>2, <2>3 DEF Listable
<1> QED BY <1>1, <1>2

(***************************************************************************)
(* Every walk along next ends, and meets exactly the free blocks of the    *)
(* list's order.                                                           *)
(***************************************************************************)

\* The walk of list k meets only linked pages of order k, by falling rank.
LEMMA WalkOnList ==
  ASSUME TypeOK, LinksOK, NEW k \in Orders, NEW w, IsWalk(w, k, NrPages),
         NEW n \in 0 .. NrPages, w[n] # NULL
  PROVE  w[n] \in Pages /\ order[w[n]] = k /\ ~Unlinked(w[n])
<1>1. NrPages \in Nat
  BY NrPagesAssumption
<1>2. \A i \in 0 .. NrPages : w[i] # NULL => w[i] \in Pages
  BY DEF IsWalk
<1> DEFINE T == {i \in 0 .. NrPages : w[i] # NULL => order[w[i]] = k /\ ~Unlinked(w[i])}
<1>3. 0 \in T
  <2>1. 0 \in 0 .. NrPages /\ w[0] = free_matrix[k]
    BY <1>1 DEF IsWalk, WalkStep
  <2> QED BY <2>1 DEF LinksOK, Unlinked
<1>4. \A i \in 0 .. NrPages - 1 : i \in T => i + 1 \in T
  <2> SUFFICES ASSUME NEW i \in 0 .. NrPages - 1, i \in T, w[i + 1] # NULL
               PROVE  i + 1 \in T
    BY <1>1
  <2>1. i \in 0 .. NrPages /\ i + 1 \in 0 .. NrPages /\ i + 1 # 0 /\ (i + 1) - 1 = i
    BY <1>1
  <2>2. w[i + 1] = WalkStep(w, k, i + 1)
    BY <2>1 DEF IsWalk
  <2>3. w[i] # NULL /\ w[i + 1] = next[w[i]]
    BY <2>1, <2>2 DEF WalkStep
  <2>4. w[i] \in Pages /\ w[i + 1] \in Pages /\ order[w[i]] = k
    BY <1>2, <2>1, <2>3
  <2>5. order[w[i + 1]] = k /\ prev[w[i + 1]] = w[i]
    BY <2>3, <2>4 DEF LinksOK
  <2> QED BY <2>1, <2>3, <2>5 DEF Unlinked
<1> HIDE DEF T
<1>5. n \in T
  BY <1>1, <1>3, <1>4, UpTo
<1> QED BY <1>2, <1>5 DEF T

LEMMA WalkFalls ==
  ASSUME TypeOK, NEW k \in Orders, NEW w, IsWalk(w, k, NrPages),
         NEW b \in Nat, NEW r \in [Pages -> 0 .. b], Falls(r),
         NEW j \in 0 .. NrPages, NEW i \in 0 .. NrPages, i < j, w[j] # NULL
  PROVE  w[i] # NULL /\ r[w[j]] < r[w[i]]
<1>1. NrPages \in Nat
  BY NrPagesAssumption
<1>2. \A x \in 0 .. NrPages : w[x] # NULL => w[x] \in Pages
  BY DEF IsWalk
<1> DEFINE T == {x \in 0 .. NrPages : x > i /\ w[x] # NULL => w[i] # NULL /\ r[w[x]] < r[w[i]]}
<1>3. 0 \in T
  BY <1>1
<1>4. \A x \in 0 .. NrPages - 1 : x \in T => x + 1 \in T
  <2> SUFFICES ASSUME NEW x \in 0 .. NrPages - 1, x \in T, x + 1 > i, w[x + 1] # NULL
               PROVE  w[i] # NULL /\ r[w[x + 1]] < r[w[i]]
    BY <1>1
  <2>1. x \in 0 .. NrPages /\ x + 1 \in 0 .. NrPages /\ x + 1 # 0 /\ (x + 1) - 1 = x
    BY <1>1
  <2>2. w[x + 1] = WalkStep(w, k, x + 1)
    BY <2>1 DEF IsWalk
  <2>3. w[x] # NULL /\ w[x + 1] = next[w[x]]
    BY <2>1, <2>2 DEF WalkStep
  <2>4. w[x] \in Pages /\ w[x + 1] \in Pages
    BY <1>2, <2>1, <2>3
  <2>5. r[w[x + 1]] < r[w[x]]
    BY <2>3, <2>4 DEF Falls
  <2>6. CASE x = i
    BY <2>3, <2>5, <2>6
  <2>7. CASE x > i
    <3>1. w[i] # NULL /\ r[w[x]] < r[w[i]]
      BY <2>3, <2>7
    <3>2. w[i] \in Pages
      BY <1>2, <3>1
    <3>3. r[w[i]] \in Int /\ r[w[x]] \in Int /\ r[w[x + 1]] \in Int
      BY <2>4, <3>2
    <3> QED BY <2>5, <3>1, <3>3
  <2> QED BY <2>6, <2>7
<1> HIDE DEF T
<1>5. j \in T
  BY <1>1, <1>3, <1>4, UpTo
<1> QED BY <1>5 DEF T

\* So the walk ends: it cannot meet NrPages + 1 different pages.
LEMMA WalkEnds ==
  ASSUME TypeOK, Ranked, NEW k \in Orders, NEW w, IsWalk(w, k, NrPages)
  PROVE  w[NrPages] = NULL
<1> SUFFICES ASSUME w[NrPages] # NULL PROVE FALSE
  OBVIOUS
<1>1. NrPages \in Nat /\ NrPages \in 0 .. NrPages
  BY NrPagesAssumption
<1>2. PICK b \in Nat : \E r \in [Pages -> 0 .. b] : Falls(r)
  BY DEF Ranked
<1>3. PICK r \in [Pages -> 0 .. b] : Falls(r)
  BY <1>2
<1>4. \A i \in 0 .. NrPages : w[i] # NULL
  BY <1>1, <1>3, WalkFalls
<1>5. w \in [0 .. NrPages -> Pages]
  BY <1>4 DEF IsWalk
<1>6. /\ IsFiniteSet(0 .. NrPages) /\ Cardinality(0 .. NrPages) = NrPages + 1
      /\ IsFiniteSet(Pages) /\ Cardinality(Pages) = NrPages
  <2>1. NrPages - 1 \in Int /\ 0 \in Int /\ NrPages \in Int
    BY <1>1
  <2>2. IsFiniteSet(Pages) /\ Cardinality(Pages) = NrPages
    BY <1>1, <2>1, FS_Interval DEF Pages
  <2> QED BY <1>1, <2>1, <2>2, FS_Interval
<1>7. PICK x, y \in 0 .. NrPages : x # y /\ w[x] = w[y]
  <2>1. Cardinality(Pages) < Cardinality(0 .. NrPages)
    BY <1>1, <1>6
  <2>2. PICK S : S = 0 .. NrPages
    OBVIOUS
  <2>3. /\ IsFiniteSet(S) /\ IsFiniteSet(Pages) /\ Cardinality(Pages) < Cardinality(S)
        /\ w \in [S -> Pages]
    BY <1>5, <1>6, <2>1, <2>2, Zenon
  <2>4. \E x, y \in S : x # y /\ w[x] = w[y]
    BY <2>3, FS_PigeonHole
  <2> QED BY <2>2, <2>4
<1>8. r[w[x]] \in Int
  BY <1>5
<1>9. ~(x < y) /\ ~(y < x)
  BY <1>3, <1>4, <1>7, <1>8, WalkFalls
<1> QED BY <1>7, <1>9

\* And it misses no linked page of order k: from such a page, prev leads to the
\* head of the list.
LEMMA WalkMeets ==
  ASSUME TypeOK, LinksOK, Ranked, NEW k \in Orders, NEW w, IsWalk(w, k, NrPages),
         NEW p \in Pages, ~Unlinked(p), order[p] = k
  PROVE  \E n \in 0 .. NrPages : w[n] = p
<1>1. NrPages \in Nat
  BY NrPagesAssumption
<1>2. PICK b \in Nat : \E r \in [Pages -> 0 .. b] : Falls(r)
  BY DEF Ranked
<1>3. PICK r \in [Pages -> 0 .. b] : Falls(r)
  BY <1>2
<1> DEFINE Met(q) == \E n \in 0 .. NrPages : w[n] = q
           Missed == {q \in Pages : ~Unlinked(q) /\ order[q] = k /\ ~Met(q)}
           U == {b - r[q] : q \in Missed}
<1> SUFFICES ASSUME p \in Missed PROVE FALSE
  OBVIOUS
<1>4. U \in SUBSET Nat /\ U # {}
  OBVIOUS
<1>5. PICK x \in U : \A y \in U : x <= y
  <2> HIDE DEF U
  <2> QED BY <1>4, LeastNat
<1>6. PICK q \in Missed : x = b - r[q]
  OBVIOUS
<1>7. \A z \in Missed : r[z] <= r[q]
  <2> TAKE z \in Missed
  <2>1. b - r[z] \in U /\ r[z] \in Int /\ r[q] \in Int
    OBVIOUS
  <2> QED BY <1>5, <1>6, <2>1
<1>8. q \in Pages /\ ~Unlinked(q) /\ order[q] = k /\ ~Met(q)
  OBVIOUS
<1>9. CASE prev[q] = NULL
  <2>1. free_matrix[k] = q
    <3>1. CASE next[q] # NULL
      BY <1>8, <1>9, <3>1 DEF LinksOK
    <3>2. CASE next[q] = NULL
      <4>1. PICK j \in Orders : free_matrix[j] = q
        BY <1>8, <1>9, <3>2 DEF Unlinked
      <4>2. q # NULL
        BY <1>8 DEF Pages, NULL
      <4> QED BY <1>8, <4>1, <4>2 DEF LinksOK
    <3> QED BY <3>1, <3>2
  <2>2. 0 \in 0 .. NrPages /\ w[0] = free_matrix[k]
    BY <1>1 DEF IsWalk, WalkStep
  <2> QED BY <1>8, <2>1, <2>2
<1>10. CASE prev[q] # NULL
  <2>1. PICK z \in Pages : z = prev[q]
    BY <1>8, <1>10 DEF TypeOK
  <2>2. next[z] = q /\ q # NULL
    BY <1>8, <1>10, <2>1 DEF LinksOK, Pages, NULL
  <2>3. order[z] = k /\ ~Unlinked(z)
    BY <1>8, <2>1, <2>2, Zenon DEF LinksOK, Unlinked
  <2>4. r[q] < r[z] /\ r[q] \in Int /\ r[z] \in Int
    BY <1>3, <1>8, <2>1, <2>2 DEF Falls
  <2>5. Met(z)
    BY <1>7, <2>3, <2>4
  <2>6. PICK n \in 0 .. NrPages : w[n] = z
    BY <2>5
  <2>7. z # NULL
    BY DEF Pages, NULL
  <2>8. n # NrPages
    BY <2>6, <2>7, WalkEnds
  <2>9. n + 1 \in 0 .. NrPages /\ n + 1 # 0 /\ (n + 1) - 1 = n
    BY <1>1, <2>8
  <2>10. w[n + 1] = next[z]
    BY <2>6, <2>7, <2>9 DEF IsWalk, WalkStep
  <2> QED BY <1>8, <2>2, <2>9, <2>10
<1> QED BY <1>9, <1>10

\* The lists are exact whenever the local facts hold and the ranks exist.
LEMMA RankedExact ==
  ASSUME TypeOK, ListInv, Ungrouped, Ranked, NEW k \in Orders
  PROVE  /\ Walk(k)[NrPages] = NULL
         /\ Range(Walk(k)) \ {NULL} = {p \in Pages : Listable(p) /\ order[p] = k}
<1>1. PICK w : w = Walk(k)
  OBVIOUS
<1>2. IsWalk(w, k, NrPages) /\ LinksOK
  BY <1>1, WalkFacts DEF ListInv
<1>3. w[NrPages] = NULL
  BY <1>2, WalkEnds
<1>4. DOMAIN w = 0 .. NrPages
  BY <1>2 DEF IsWalk
<1>5. \A p \in Range(w) \ {NULL} : p \in Pages /\ Listable(p) /\ order[p] = k
  <2> SUFFICES ASSUME NEW n \in 0 .. NrPages, w[n] # NULL
               PROVE  w[n] \in Pages /\ Listable(w[n]) /\ order[w[n]] = k
    BY <1>4 DEF Range
  <2>1. w[n] \in Pages /\ order[w[n]] = k /\ ~Unlinked(w[n])
    BY <1>2, WalkOnList
  <2> QED BY <2>1, LinkedIsListable
<1>6. \A p \in Pages : Listable(p) /\ order[p] = k => p \in Range(w) \ {NULL}
  <2> SUFFICES ASSUME NEW p \in Pages, Listable(p), order[p] = k
               PROVE  p \in Range(w) \ {NULL}
    OBVIOUS
  <2>1. ~Unlinked(p)
    BY LinkedIsListable
  <2>2. \E n \in 0 .. NrPages : w[n] = p
    BY <1>2, <2>1, WalkMeets
  <2>3. p # NULL
    BY DEF Pages, NULL
  <2> QED BY <1>4, <2>2, <2>3 DEF Range
<1> QED BY <1>1, <1>3, <1>5, <1>6

(***************************************************************************)
(* Alignment.                                                              *)
(***************************************************************************)

LEMMA HalfDivides ==
  ASSUME NEW p \in Nat, NEW s \in Nat \ {0}, p % (2 * s) = 0
  PROVE  p % s = 0 /\ (p + s) % s = 0 /\ (p + s) % (2 * s) # 0
<1>1. PICK m \in Nat : m = p \div (2 * s) /\ p = (2 * s) * m
  OBVIOUS
<1>2. p = s * (2 * m) /\ p + s = s * (2 * m + 1)
  BY <1>1
<1>3. p % s = 0
  BY <1>2
<1>4. (p + s) % s = 0
  BY <1>2
<1>5. (p + s) % (2 * s) = s
  BY <1>1
<1> QED BY <1>3, <1>4, <1>5

LEMMA SmallerOrders ==
  ASSUME NEW p \in Nat, NEW i \in Orders, NEW j \in Orders, i <= j
  PROVE  /\ Size[i] <= Size[j] /\ (i < j => Size[i] < Size[j])
         /\ p % Size[j] = 0 => p % Size[i] = 0
<1>1. i \in Nat /\ j \in Nat /\ MaxOrder \in Nat /\ i <= MaxOrder /\ j <= MaxOrder
  BY MaxOrderAssumption DEF Orders
<1>2. PICK n \in Nat : n = MaxOrder - i
  BY <1>1
<1> DEFINE Fine(x) == /\ Size[i] <= Size[i + x] /\ (0 < x => Size[i] < Size[i + x])
                      /\ p % Size[i + x] = 0 => p % Size[i] = 0
           T == {x \in 0 .. n : Fine(x)}
<1>3. 0 \in T
  BY <1>1, SizeFacts
<1>4. \A x \in 0 .. n - 1 : x \in T => x + 1 \in T
  <2> SUFFICES ASSUME NEW x \in 0 .. n - 1, Fine(x) PROVE Fine(x + 1)
    OBVIOUS
  <2>1. i + x \in Orders /\ i + x < MaxOrder /\ i + (x + 1) = (i + x) + 1
    BY <1>1, <1>2 DEF Orders
  <2>2. /\ Size[(i + x) + 1] = 2 * Size[i + x] /\ Size[i + x] \in Nat /\ Size[i + x] > 0
        /\ Size[i] \in Nat
    BY <2>1, SizeFacts
  <2>3. p % (2 * Size[i + x]) = 0 => p % Size[i + x] = 0
    BY <2>2, HalfDivides
  <2> QED BY <2>1, <2>2, <2>3
<1> HIDE DEF T
<1>5. PICK x \in 0 .. n : j = i + x
  BY <1>1, <1>2
<1>6. x \in T
  BY <1>2, <1>3, <1>4, UpTo
<1>7. Fine(x)
  BY <1>6 DEF T
<1> QED BY <1>1, <1>5, <1>7

\* alignment_order(p) is the largest order that p is aligned to.
LEMMA AlignmentOrder ==
  ASSUME NEW p \in Nat
  PROVE  /\ alignment_order(p) \in Orders
         /\ \A k \in Orders : k <= alignment_order(p) <=> p % Size[k] = 0
<1>1. MaxOrder \in Nat /\ \A k \in Orders : k \in Nat /\ k <= MaxOrder
  BY MaxOrderAssumption DEF Orders
<1> DEFINE S == {k \in Orders : p % Size[k] = 0}
           U == {MaxOrder - k : k \in S}
<1>2. 0 \in S
  BY SizeFacts
<1>3. U \in SUBSET Nat /\ U # {}
  BY <1>1, <1>2
<1>4. PICK x \in U : \A y \in U : x <= y
  <2> HIDE DEF U
  <2> QED BY <1>3, LeastNat
<1>5. PICK m \in S : x = MaxOrder - m
  OBVIOUS
<1>6. \A k \in S : m >= k
  <2> TAKE k \in S
  <2>1. MaxOrder - k \in U
    OBVIOUS
  <2> QED BY <1>1, <1>4, <1>5, <2>1
<1>7. /\ alignment_order(p) \in S
      /\ \A k \in S : alignment_order(p) >= k
  <2>1. alignment_order(p) = CHOOSE y \in S : \A z \in S : y >= z
    BY DEF alignment_order, Max
  <2> HIDE DEF S
  <2> QED BY <1>6, <2>1
<1>8. ASSUME NEW k \in Orders, k <= alignment_order(p) PROVE p % Size[k] = 0
  BY <1>7, <1>8, SmallerOrders
<1> QED BY <1>1, <1>7, <1>8

(***************************************************************************)
(* The blocks.  Halves(p, b): the blocks p and b would make one aligned    *)
(* block.  The grouping loop knows more about the blocks behind it: of the *)
(* aligned block that each could have been, some page is not RAM.          *)
(***************************************************************************)

Aligned == \A p \in Heads : p % Size[order[p]] = 0

Halves(p, b) ==
  /\ order[p] < MaxOrder /\ p % Size[order[p] + 1] = 0
  /\ b = p + Size[order[p]] /\ order[b] = order[p]

Unpaired ==
  pc # "group" => \A p, b \in Pages : Listable(p) /\ Listable(b) => ~Halves(p, b)

Largest(p) ==
  order[p] < MaxOrder /\ p % Size[order[p] + 1] = 0 => ~(Block(p, order[p] + 1) \subseteq ram)

Grouped ==
  pc = "group" =>
    /\ ~left_merged /\ page <= NrPages
    /\ accounted = Cardinality(ram \cap (0 .. page - 1))
    /\ \A p \in Heads : p < page => Largest(p)

FreeInv ==
  /\ BuddyInv /\ Grouped /\ pc # "panic_group"
  /\ ~left_merged => Ranked /\ Aligned /\ Unpaired

LEMMA PageFacts ==
  ASSUME TypeOK
  PROVE  /\ \A p \in Pages : p \in Nat /\ p < NrPages /\ order[p] \in Orders /\ order[p] \in Nat
         /\ \A p \in Heads : p \in Pages
         /\ \A p \in Pages : Listable(p) => p \in Heads
BY NrPagesAssumption DEF TypeOK, Pages, Orders, Heads, Listable

\* When no page becomes listable, no pair arises.
LEMMA KeepUnpaired ==
  ASSUME TypeOK, Unpaired, pc # "group",
         \A q \in Pages : Listable(q)' => Listable(q) /\ order'[q] = order[q]
  PROVE  Unpaired'
<1> SUFFICES ASSUME NEW p \in Pages, NEW b \in Pages, Listable(p)', Listable(b)', Halves(p, b)'
             PROVE  FALSE
  BY DEF Unpaired
<1>1. Listable(p) /\ Listable(b) /\ order'[p] = order[p] /\ order'[b] = order[b]
  OBVIOUS
<1>2. Halves(p, b)
  BY <1>1 DEF Halves
<1> QED BY <1>1, <1>2 DEF Unpaired

LEMMA InitFree == Init => FreeInv
<1> SUFFICES ASSUME Init PROVE FreeInv
  OBVIOUS
<1>1. BuddyInv
  BY InitBuddy
<1>2. Grouped
  <2>1. ram \cap (0 .. 0 - 1) = {}
    OBVIOUS
  <2>2. \A p \in Heads : ~(p < 0)
    BY NrPagesAssumption DEF Heads, Pages
  <2>3. Cardinality(ram \cap (0 .. 0 - 1)) = 0
    BY <2>1, FS_EmptySet
  <2> QED BY <2>2, <2>3, NrPagesAssumption DEF Init, Grouped
<1>3. Ranked
  <2>1. [p \in Pages |-> 0] \in [Pages -> 0 .. 0]
    OBVIOUS
  <2>2. Falls([p \in Pages |-> 0])
    BY DEF Init, Falls
  <2> QED BY <2>1, <2>2 DEF Ranked
<1>4. Aligned
  BY SizeFacts, NrPagesAssumption DEF Init, Aligned, Heads, Pages
<1> QED BY <1>1, <1>2, <1>3, <1>4 DEF FreeInv, Unpaired, Init

LEMMA SkipFree ==
  ASSUME GoodInv, Aligned, Grouped, GroupSkip
  PROVE  Aligned' /\ Grouped'
<1>1. /\ pc = "group" /\ page < NrPages /\ page \in Pages /\ state[page] # PG_BUDDY
      /\ page' = page + 1 /\ page \in Nat
      /\ UNCHANGED <<state, order, pc, accounted, ram, left_merged>>
  BY NrPagesAssumption DEF GroupSkip, GoodInv, RamInv, TypeOK, Pages, ghosts
<1>2. state[page] = PG_RESERVED
  BY <1>1 DEF GoodInv, Ungrouped
<1>3. Heads' = Heads /\ page \notin Heads
  BY <1>1, <1>2 DEF Heads, PG_RESERVED, PG_BUDDY, PG_ALLOCATED
<1>4. Aligned'
  BY <1>1, <1>3 DEF Aligned
<1>5. ram \cap (0 .. page' - 1) = ram \cap (0 .. page - 1)
  <2>1. page \notin ram
    BY <1>1, <1>2 DEF GoodInv, RamInv, OnlyRam
  <2>2. \A q \in ram : q \in 0 .. page' - 1 <=> q \in 0 .. page - 1
    BY <1>1, <2>1
  <2> QED BY <2>2
<1>6. \A p \in Heads : p < page' => Largest(p)'
  <2> SUFFICES ASSUME NEW p \in Heads, p < page + 1 PROVE Largest(p)'
    BY <1>1
  <2>1. p \in Nat
    BY PageFacts DEF GoodInv, RamInv
  <2>2. p < page
    BY <1>1, <1>3, <2>1
  <2> QED BY <1>1, <2>2 DEF Grouped, Largest, Block
<1>7. Grouped'
  <2>1. page' <= NrPages /\ ~left_merged'
    BY <1>1, NrPagesAssumption DEF Grouped
  <2>2. accounted' = Cardinality(ram' \cap (0 .. page' - 1))
    BY <1>1, <1>5, ZenonT(30) DEF Grouped
  <2>3. \A p \in Heads' : p < page' => Largest(p)'
    BY <1>3, <1>6
  <2> QED BY <2>1, <2>2, <2>3 DEF Grouped
<1> QED BY <1>4, <1>7

LEMMA GroupBlockFree ==
  ASSUME GoodInv, Aligned, Grouped, GroupBlock
  PROVE  Aligned' /\ Grouped'
<1>1. /\ pc = "group" /\ page < NrPages /\ page \in Pages /\ page \in Nat
      /\ state[page] = PG_BUDDY
      /\ UNCHANGED <<pc, ram, left_merged>>
  BY NrPagesAssumption DEF GroupBlock, GoodInv, RamInv, TypeOK, Pages, ghosts
<1>2. PICK e \in page + 1 .. NrPages, k \in Orders :
        /\ IsRunEnd(page, e) /\ IsLengthOrder(k, e - page)
        /\ order' = [order EXCEPT ![page] = k]
        /\ state' = [q \in Pages |-> IF q \in Block(page, k) \ {page}
                                     THEN PG_TAIL ELSE state[q]]
        /\ accounted' = accounted + Size[k]
        /\ page' = page + Size[k]
  BY ZenonT(30) DEF GroupBlock
<1>3. /\ e \in Nat /\ e <= NrPages /\ page < e
      /\ Size[k] \in Nat /\ Size[k] > 0
      /\ Size[k] <= e - page /\ (k < MaxOrder => e - page < Size[k + 1])
      /\ e - page <= Size[alignment_order(page)]
      /\ \A j \in page .. e - 1 : state[j] = PG_BUDDY
      /\ e < NrPages /\ e - page < Size[alignment_order(page)] => state[e] # PG_BUDDY
  BY <1>1, <1>2, SizeFacts, NrPagesAssumption DEF IsRunEnd, IsLengthOrder
<1>4. alignment_order(page) \in Orders /\ \A j \in Orders : j <= alignment_order(page) <=> page % Size[j] = 0
  BY <1>1, AlignmentOrder
<1>5. /\ Size[alignment_order(page)] \in Nat /\ k \in Nat /\ alignment_order(page) \in Nat
      /\ k + 1 \in Orders <=> k < MaxOrder
  BY <1>4, SizeFacts, MaxOrderAssumption DEF Orders
<1>6. page % Size[k] = 0
  <2>1. CASE alignment_order(page) < k
    <3>1. Size[alignment_order(page)] < Size[k]
      BY <1>1, <1>4, <1>5, <2>1, SmallerOrders
    <3> QED BY <1>1, <1>3, <1>5, <3>1
  <2> QED BY <1>4, <1>5, <2>1
<1>7. Block(page, k) \subseteq ram
  <2>1. Block(page, k) \subseteq page .. e - 1 /\ page .. e - 1 \subseteq Pages
    BY <1>1, <1>3, NrPagesAssumption DEF Block, Pages
  <2>2. \A j \in page .. e - 1 : j \in ram
    BY <1>3, <2>1 DEF GoodInv, RamInv, OnlyRam, PG_RESERVED, PG_BUDDY
  <2> QED BY <2>1, <2>2
<1>8. /\ \A q \in Pages : order'[q] = IF q = page THEN k ELSE order[q]
      /\ \A q \in Pages : q < page \/ q = page => state'[q] = state[q]
      /\ \A q \in Heads' : q \in Heads /\ (q # page => q \notin Block(page, k))
      /\ \A q \in Heads' : q \in Pages
  <2>1. \A q \in Pages : order'[q] = IF q = page THEN k ELSE order[q]
    BY <1>1, <1>2 DEF GoodInv, RamInv, TypeOK
  <2>2. \A q \in Pages : state'[q] = IF q \in Block(page, k) \ {page} THEN PG_TAIL ELSE state[q]
    BY <1>2
  <2>3. \A q \in Pages : q < page => q \notin Block(page, k)
    BY <1>1, NrPagesAssumption DEF Block, Pages
  <2> QED BY <2>1, <2>2, <2>3 DEF Heads, PG_TAIL, PG_BUDDY, PG_ALLOCATED
<1>9. Aligned'
  <2> SUFFICES ASSUME NEW q \in Heads' PROVE q % Size[order'[q]] = 0
    BY DEF Aligned
  <2> QED BY <1>6, <1>8 DEF Aligned
<1>10. ASSUME k < MaxOrder, page % Size[k + 1] = 0
       PROVE  e \in Block(page, k + 1) /\ e \notin ram
  <2>1. Size[k + 1] <= Size[alignment_order(page)] /\ Size[k + 1] \in Nat
    <3>1. k + 1 <= alignment_order(page)
      BY <1>4, <1>5, <1>10
    <3> QED BY <1>1, <1>4, <1>5, <1>10, <3>1, SmallerOrders, SizeFacts, SMTT(30)
  <2>2. e - page < Size[k + 1]
    BY <1>3, <1>10
  <2>3. e \in Block(page, k + 1)
    BY <1>1, <1>3, <2>1, <2>2 DEF Block
  <2>4. CASE e < NrPages
    <3>1. state[e] # PG_BUDDY
      BY <1>1, <1>3, <1>5, <2>1, <2>2, <2>4
    <3>2. e \in Pages /\ e >= page
      BY <1>1, <1>3, <2>4, NrPagesAssumption DEF Pages
    <3>3. state[e] = PG_RESERVED
      BY <1>1, <3>1, <3>2 DEF GoodInv, Ungrouped
    <3> QED BY <2>3, <3>2, <3>3 DEF GoodInv, RamInv, OnlyRam
  <2>5. CASE ~(e < NrPages)
    <3>1. e \notin Pages
      BY <1>3, <2>5, NrPagesAssumption DEF Pages
    <3> QED BY <2>3, <3>1 DEF GoodInv, RamInv, TypeOK
  <2> QED BY <2>4, <2>5
<1>11. ASSUME NEW q \in Heads', q < page' PROVE Largest(q)'
  <2>1. CASE q = page
    <3>1. order'[q] = k
      BY <1>1, <1>8, <2>1
    <3>2. Largest(q)' <=> (k < MaxOrder /\ q % Size[k + 1] = 0 => ~(Block(q, k + 1) \subseteq ram))
      BY <1>1, <3>1 DEF Largest, Block
    <3> QED BY <1>10, <2>1, <3>2
  <2>2. CASE q # page
    <3>1. q \in Pages /\ q \in Heads /\ q \in Nat /\ q \notin Block(page, k)
      BY <1>8, <2>2, NrPagesAssumption DEF Pages
    <3>2. q < page
      BY <1>1, <1>2, <1>3, <1>11, <2>2, <3>1 DEF Block
    <3>3. order'[q] = order[q]
      BY <1>8, <2>2, <3>1
    <3> QED BY <1>1, <3>1, <3>2, <3>3 DEF Grouped, Largest, Block
  <2> QED BY <2>1, <2>2
<1>12. accounted' = Cardinality(ram \cap (0 .. page' - 1))
  <2>1. ram \cap (0 .. page' - 1) = (ram \cap (0 .. page - 1)) \cup Block(page, k)
    <3>1. \A q \in ram : q \in 0 .. page' - 1 <=> q \in 0 .. page - 1 \/ q \in Block(page, k)
      BY <1>1, <1>2, <1>3, PageFacts DEF Block, GoodInv, RamInv, TypeOK
    <3> QED BY <1>7, <3>1, SMTT(30)
  <2>2. (ram \cap (0 .. page - 1)) \cap Block(page, k) = {}
    BY <1>1, <1>3 DEF Block
  <2>3. IsFiniteSet(Block(page, k)) /\ Cardinality(Block(page, k)) = Size[k]
    <3>1. PICK z \in Int : z = page + Size[k] - 1
      BY <1>1, <1>3
    <3>2. page \in Int /\ ~(page > z) /\ z - page + 1 = Size[k]
      BY <1>1, <1>3, <3>1
    <3>3. IsFiniteSet(page .. z) /\ Cardinality(page .. z) = Size[k]
      BY <3>2, FS_Interval
    <3> QED BY <3>1, <3>3 DEF Block
  <2>4. IsFiniteSet(ram \cap (0 .. page - 1)) /\ Cardinality(ram \cap (0 .. page - 1)) \in Nat
    <3>1. IsFiniteSet(0 .. page - 1)
      BY <1>1, FS_Interval
    <3>2. IsFiniteSet(ram \cap (0 .. page - 1))
      BY <3>1, FS_Intersection, ZenonT(30)
    <3> QED BY <3>2, FS_CardinalityType
  <2>5. Cardinality(ram \cap (0 .. page' - 1)) =
          Cardinality(ram \cap (0 .. page - 1)) + Size[k] - Cardinality({})
    BY <2>1, <2>2, <2>3, <2>4, FS_Union
  <2>6. accounted = Cardinality(ram \cap (0 .. page - 1)) /\ Cardinality({}) = 0
    BY <1>1, FS_EmptySet DEF Grouped
  <2> QED BY <1>2, <1>3, <2>4, <2>5, <2>6
<1>13. Grouped'
  <2>1. page' <= NrPages /\ ~left_merged'
    BY <1>1, <1>2, <1>3, NrPagesAssumption DEF Grouped
  <2>2. accounted' = Cardinality(ram' \cap (0 .. page' - 1))
    BY <1>1, <1>12
  <2>3. \A p \in Heads' : p < page' => Largest(p)'
    BY <1>11
  <2> QED BY <2>1, <2>2, <2>3 DEF Grouped
<1> QED BY <1>9, <1>13

\* At its end the loop has accounted for all of RAM, and what it knows about the
\* blocks leaves no free halves.
LEMMA GroupDoneFree ==
  ASSUME GoodInv, Aligned, Grouped, GroupDone
  PROVE  Aligned' /\ Grouped' /\ Unpaired' /\ pc' = "idle"
<1>1. /\ pc = "group" /\ page \in Nat /\ page = NrPages
      /\ UNCHANGED <<state, order, ram>>
  BY NrPagesAssumption DEF GroupDone, Grouped, GoodInv, RamInv, TypeOK, ghosts
<1>2. ram \cap (0 .. page - 1) = ram
  BY <1>1, ZenonT(30) DEF GoodInv, RamInv, TypeOK, Pages
<1>3. pc' = "idle"
  BY <1>1, <1>2 DEF GroupDone, Grouped
<1>4. Aligned'
  BY <1>1 DEF Aligned, Heads
<1>5. Unpaired'
  <2> SUFFICES ASSUME NEW p \in Pages, NEW b \in Pages, Listable(p)', Listable(b)', Halves(p, b)'
               PROVE  FALSE
    BY DEF Unpaired
  <2>1. p \in Heads /\ b \in Heads /\ p < page /\ p \in Nat /\ order[p] \in Orders
    BY <1>1, NrPagesAssumption DEF Listable, Heads, Pages, GoodInv, RamInv, TypeOK
  <2>2. /\ order[p] < MaxOrder /\ p % Size[order[p] + 1] = 0
        /\ b = p + Size[order[p]] /\ order[b] = order[p]
    BY <1>1 DEF Halves
  <2>3. ~(Block(p, order[p] + 1) \subseteq ram)
    BY <1>1, <2>1, <2>2 DEF Grouped, Largest
  <2>4. BlockOf(p) \subseteq ram /\ BlockOf(b) \subseteq ram
    BY <2>1, HeadsInPages DEF GoodInv
  <2>5. Size[order[p] + 1] = 2 * Size[order[p]] /\ Size[order[p]] \in Nat
    BY <2>1, <2>2, SizeFacts
  <2>6. Block(p, order[p] + 1) \subseteq BlockOf(p) \cup BlockOf(b)
    BY <2>1, <2>2, <2>5 DEF BlockOf, Block
  <2> QED BY <2>3, <2>4, <2>6
<1> QED BY <1>3, <1>4, <1>5 DEF Grouped

LEMMA SplitFree ==
  ASSUME GoodInv, Aligned, Unpaired, AllocSplit
  PROVE  Aligned' /\ Unpaired'
<1>1. /\ pc = "split" /\ pc' = "split" /\ page' = page /\ order[page] > want
      /\ page \in Pages /\ state[page] = PG_BUDDY /\ want \in Orders
  BY AllocSplitKeeps, Zenon DEF AllocSplit, GoodInv, RamInv, TypeOK, ListInv, InHandOK
<1>2. PICK p \in Pages, k \in Orders : p = page /\ order[p] = k + 1 /\ k = order[page] - 1
  BY <1>1, MaxOrderAssumption, SMTT(30) DEF GoodInv, RamInv, TypeOK, Orders
<1>3. PICK b \in Pages : b = p + Size[k]
  BY <1>1, <1>2, SplitRam, ZenonT(30) DEF GoodInv, RamInv, TypeOK
<1>4. /\ state[b] = PG_TAIL
      /\ order' = [order EXCEPT ![p] = k, ![b] = k]
      /\ state' = [state EXCEPT ![b] = PG_BUDDY]
  BY <1>1, <1>2, <1>3 DEF AllocSplit
<1>5. /\ \A q \in Pages : order'[q] = IF q = p \/ q = b THEN k ELSE order[q]
      /\ \A q \in Pages : state'[q] = IF q = b THEN PG_BUDDY ELSE state[q]
      /\ b # p
  <2>1. b # p
    BY <1>1, <1>2, <1>4 DEF PG_TAIL, PG_BUDDY
  <2> QED BY <1>4, <2>1 DEF GoodInv, RamInv, TypeOK
<1>6. /\ k \in Nat /\ k < MaxOrder /\ Size[k] \in Nat \ {0} /\ Size[k + 1] = 2 * Size[k]
      /\ p \in Nat /\ b \in Nat
  <2>1. k + 1 \in Orders
    BY <1>2 DEF GoodInv, RamInv, TypeOK
  <2>2. k \in Nat /\ k < MaxOrder
    BY <2>1, MaxOrderAssumption DEF Orders
  <2> QED BY <2>2, SizeFacts, NrPagesAssumption DEF Pages
<1>7. p % Size[k] = 0 /\ b % Size[k] = 0 /\ b % Size[k + 1] # 0
  <2>1. p % Size[k + 1] = 0
    BY <1>1, <1>2 DEF Aligned, Heads
  <2> QED BY <1>3, <1>6, <2>1, HalfDivides, ZenonT(30)
<1>8. Aligned'
  <2> SUFFICES ASSUME NEW q \in Heads' PROVE q % Size[order'[q]] = 0
    BY DEF Aligned
  <2>1. q \in Pages /\ (q # b => q \in Heads)
    BY <1>5 DEF Heads
  <2> QED BY <1>5, <1>7, <2>1 DEF Aligned
<1>9. Unpaired'
  <2> SUFFICES ASSUME NEW x \in Pages, NEW y \in Pages, Listable(x)', Listable(y)', Halves(x, y)'
               PROVE  FALSE
    BY DEF Unpaired
  <2>1. \A q \in Pages : Listable(q)' => q # p /\ (q # b => Listable(q) /\ order'[q] = order[q])
    BY <1>1, <1>2, <1>5 DEF Listable
  <2>2. /\ order'[x] < MaxOrder /\ x % Size[order'[x] + 1] = 0
        /\ y = x + Size[order'[x]] /\ order'[y] = order'[x]
    BY DEF Halves
  <2>3. CASE x = b
    BY <1>5, <1>7, <2>2, <2>3
  <2>4. CASE y = b
    <3>1. order'[x] = k /\ x \in Nat
      BY <1>5, <2>2, <2>4, NrPagesAssumption DEF Pages
    <3>2. x = p
      BY <1>3, <1>6, <2>2, <2>4, <3>1
    <3> QED BY <2>1, <3>2
  <2>5. CASE x # b /\ y # b
    <3>1. Listable(x) /\ Listable(y) /\ Halves(x, y)
      BY <2>1, <2>2, <2>5 DEF Halves
    <3> QED BY <1>1, <3>1 DEF Unpaired
  <2> QED BY <2>3, <2>4, <2>5
<1> QED BY <1>8, <1>9, SMTT(30)

LEMMA MergeFree ==
  ASSUME GoodInv, Aligned, Unpaired, MergeRight
  PROVE  Aligned' /\ Unpaired'
<1>1. /\ pc = "merge" /\ pc' = "merge" /\ page' = page
      /\ CanMerge /\ BuddyIsRight
      /\ state' = [state EXCEPT ![PotentialBuddy] = PG_TAIL]
      /\ order' = [order EXCEPT ![page] = order[page] + 1]
      /\ page \in Pages /\ PotentialBuddy \in Pages
  BY DEF MergeRight, CanMerge, GoodInv, RamInv, TypeOK
<1>2. PICK p \in Pages, b \in Pages : p = page /\ b = PotentialBuddy
  BY <1>1
<1>3. /\ \A q \in Pages : order'[q] = IF q = p THEN order[p] + 1 ELSE order[q]
      /\ \A q \in Pages : state'[q] = IF q = b THEN PG_TAIL ELSE state[q]
  BY <1>1, <1>2 DEF GoodInv, RamInv, TypeOK
<1>4. p % Size[order[p] + 1] = 0
  <2>1. order[p] + 1 \in Orders /\ alignment_order(p) > order[p] /\ order[p] \in Nat /\ p \in Nat
    <3>1. order[p] + 1 \in Orders
      BY <1>1, <1>2, MergeRam, Zenon DEF GoodInv
    <3>2. alignment_order(p) > order[p]
      BY <1>1, <1>2, Zenon DEF BuddyIsRight
    <3>3. order[p] \in Orders
      BY DEF GoodInv, RamInv, TypeOK
    <3> QED BY <3>1, <3>2, <3>3, NrPagesAssumption DEF Pages, Orders
  <2>2. alignment_order(p) \in Nat
    BY <2>1, AlignmentOrder DEF Orders
  <2>3. order[p] + 1 <= alignment_order(p)
    BY <2>1, <2>2
  <2> QED BY <2>1, <2>3, AlignmentOrder, SMTT(30)
<1>5. Aligned'
  <2> SUFFICES ASSUME NEW q \in Heads' PROVE q % Size[order'[q]] = 0
    BY DEF Aligned
  <2>1. q \in Pages /\ q \in Heads
    BY <1>3 DEF Heads, PG_TAIL, PG_BUDDY, PG_ALLOCATED
  <2> QED BY <1>3, <1>4, <2>1 DEF Aligned
<1>6. \A q \in Pages : Listable(q)' => Listable(q) /\ order'[q] = order[q]
  BY <1>1, <1>2, <1>3 DEF Listable, PG_TAIL, PG_BUDDY
<1>7. Unpaired'
  BY <1>1, <1>6, KeepUnpaired DEF GoodInv, RamInv
<1> QED BY <1>5, <1>7

\* free_pages stops merging only when the block has no free other half.
LEMMA InsertFree ==
  ASSUME GoodInv, Aligned, Unpaired, FreeInsert
  PROVE  Aligned' /\ Unpaired'
<1>1. /\ pc = "merge" /\ pc' = "idle" /\ page \in Pages /\ ~CanMerge
      /\ state[page] = PG_BUDDY /\ order' = order
      /\ state' = [state EXCEPT ![page] = PG_BUDDY]
  BY DEF FreeInsert, GoodInv, RamInv, TypeOK, ListInv, InHandOK
<1>2. PICK p \in Pages : p = page
  BY <1>1
<1>3. state' = state
  BY <1>1 DEF GoodInv, RamInv, TypeOK
<1>4. PICK k \in Orders : k = order[p] /\ k \in Nat
  BY MaxOrderAssumption DEF GoodInv, RamInv, TypeOK, Orders
<1>5. /\ alignment_order(p) \in Nat /\ p \in Nat
      /\ k < MaxOrder => (BuddyIsRight <=> p % Size[k + 1] = 0)
      /\ Size[k] \in Nat \ {0}
      /\ k < MaxOrder => Size[k + 1] = 2 * Size[k]
  <2>1. p \in Nat
    BY NrPagesAssumption DEF Pages
  <2>2. /\ alignment_order(p) \in Nat
        /\ \A j \in Orders : j <= alignment_order(p) <=> p % Size[j] = 0
    BY <2>1, AlignmentOrder, MaxOrderAssumption DEF Orders
  <2>3. k < MaxOrder => k + 1 \in Orders /\ Size[k + 1] = 2 * Size[k]
    BY SizeFacts
  <2>4. k < MaxOrder => (BuddyIsRight <=> p % Size[k + 1] = 0)
    <3>1. BuddyIsRight <=> k + 1 <= alignment_order(p)
      BY <1>2, <1>4, <2>2 DEF BuddyIsRight
    <3> QED BY <2>2, <2>3, <3>1
  <2> QED BY <2>1, <2>2, <2>3, <2>4, SizeFacts
<1>6. Aligned'
  BY <1>1, <1>3 DEF Aligned, Heads
<1>7. Unpaired'
  <2> SUFFICES ASSUME NEW x \in Pages, NEW y \in Pages, Listable(x)', Listable(y)', Halves(x, y)'
               PROVE  FALSE
    BY DEF Unpaired
  <2>1. \A q \in Pages : Listable(q)' => state[q] = PG_BUDDY /\ (q # p => Listable(q))
    BY <1>1, <1>2, <1>3 DEF Listable
  <2>2. /\ order[x] < MaxOrder /\ x % Size[order[x] + 1] = 0
        /\ y = x + Size[order[x]] /\ order[y] = order[x]
    BY <1>1 DEF Halves
  <2>3. CASE x = p
    <3>1. BuddyIsRight /\ PotentialBuddy = y
      BY <1>2, <1>4, <1>5, <2>2, <2>3, SMTT(30) DEF PotentialBuddy
    <3>2. CanMerge
      BY <1>2, <1>4, <2>1, <2>2, <2>3, <3>1, SMTT(30) DEF CanMerge
    <3> QED BY <1>1, <3>2
  <2>4. CASE y = p
    <3>1. order[x] = k /\ x \in Nat /\ p = x + Size[k] /\ x = p - Size[k]
      BY <1>4, <1>5, <2>2, <2>4, NrPagesAssumption, SMTT(30) DEF Pages
    <3>2. p % Size[k + 1] # 0
      BY <1>5, <2>2, <3>1, HalfDivides, SMTT(30)
    <3>3. ~BuddyIsRight /\ PotentialBuddy = x
      BY <1>2, <1>4, <1>5, <2>2, <3>1, <3>2, ZenonT(30) DEF PotentialBuddy
    <3>4. CanMerge
      BY <1>2, <1>4, <2>1, <2>2, <3>1, <3>3, ZenonT(30) DEF CanMerge
    <3> QED BY <1>1, <3>4
  <2>5. CASE x # p /\ y # p
    <3>1. Listable(x) /\ Listable(y) /\ Halves(x, y)
      BY <2>1, <2>2, <2>5 DEF Halves
    <3> QED BY <1>1, <3>1 DEF Unpaired
  <2> QED BY <2>3, <2>4, <2>5
<1> QED BY <1>6, <1>7

\* The steps that cut no block and join none.
LEMMA RestFree ==
  ASSUME GoodInv, Aligned, Unpaired, pc # "group",
         \/ \E o \in 0 .. MaxOrder + 1 : alloc_pages(o) \/ alloc_pages_bad_order(o)
         \/ AllocReturn
         \/ \E p \in Pages, o \in Orders : free_pages(p, o)
  PROVE  Aligned' /\ Unpaired'
<1>1. order' = order
  BY ZenonT(30) DEF alloc_pages, alloc_pages_bad_order, AllocReturn, free_pages
<1>2. Heads' = Heads /\ \A q \in Pages : Listable(q)' => Listable(q)
  <2>1. ASSUME NEW o \in 0 .. MaxOrder + 1, alloc_pages(o) \/ alloc_pages_bad_order(o)
        PROVE  Heads' = Heads /\ \A q \in Pages : Listable(q)' => Listable(q)
    BY <2>1 DEF alloc_pages, alloc_pages_bad_order, Heads, Listable
  <2>2. CASE AllocReturn
    <3>1. /\ pc = "split" /\ pc' = "idle" /\ page \in Pages /\ state[page] = PG_BUDDY
          /\ \A q \in Pages : state'[q] = IF q = page THEN PG_ALLOCATED ELSE state[q]
      BY <2>2 DEF AllocReturn, GoodInv, RamInv, TypeOK, ListInv, InHandOK
    <3>2. Heads' = Heads
      BY <3>1 DEF Heads
    <3>3. \A q \in Pages : Listable(q)' => Listable(q)
      BY <3>1 DEF Listable, PG_ALLOCATED, PG_BUDDY
    <3> QED BY <3>2, <3>3
  <2>3. ASSUME NEW p \in Pages, NEW o \in Orders, free_pages(p, o)
        PROVE  Heads' = Heads /\ \A q \in Pages : Listable(q)' => Listable(q)
    <3>1. state[p] = PG_ALLOCATED
      BY <2>3, Zenon DEF free_pages, GoodInv, BlockInv, HeldOK
    <3>2. /\ pc = "idle" /\ pc' = "merge" /\ page' = p
          /\ \A q \in Pages : state'[q] = IF q = p THEN PG_BUDDY ELSE state[q]
      BY <2>3, <3>1 DEF free_pages, GoodInv, RamInv, TypeOK
    <3>3. Heads' = Heads
      BY <3>1, <3>2 DEF Heads
    <3>4. \A q \in Pages : Listable(q)' => Listable(q)
      BY <3>2, SMTT(30) DEF Listable
    <3> QED BY <3>3, <3>4, SMTT(30)
  <2> QED BY <2>1, <2>2, <2>3
<1>3. Aligned'
  BY <1>1, <1>2, Zenon DEF Aligned
<1>4. Unpaired'
  BY <1>1, <1>2, KeepUnpaired DEF GoodInv, RamInv
<1> QED BY <1>3, <1>4, SMTT(30)

LEMMA NextFree == FreeInv /\ [Next]_vars => FreeInv'
<1> SUFFICES ASSUME FreeInv, [Next]_vars PROVE FreeInv'
  OBVIOUS
<1>1. BuddyInv'
  BY NextBuddy DEF FreeInv
<1>2. TypeOK /\ Grouped /\ pc # "panic_group"
  BY DEF FreeInv, BuddyInv, RamInv
<1>3. CASE UNCHANGED vars
  <2>1. Grouped' /\ pc' # "panic_group"
    BY <1>2, <1>3 DEF vars, Grouped, Heads, Largest, Block
  <2>2. Ranked' <=> Ranked
    BY <1>3, SMTT(30) DEF vars, Ranked, Falls
  <2>3. Aligned' <=> Aligned
    BY <1>3, Zenon DEF vars, Aligned, Heads
  <2>4. Unpaired' <=> Unpaired
    BY <1>3 DEF vars, Unpaired, Listable, Halves
  <2>5. left_merged' = left_merged
    BY <1>3 DEF vars
  <2> QED BY <1>1, <2>1, <2>2, <2>3, <2>4, <2>5, SMTT(30) DEF FreeInv
<1>4. CASE MergeLeft
  <2>1. left_merged' /\ pc' = pc /\ pc = "merge"
    BY <1>4 DEF MergeLeft
  <2> QED BY <1>1, <2>1 DEF FreeInv, Grouped
<1>5. CASE ~UNCHANGED vars /\ ~MergeLeft
  <2>1. left_merged' = left_merged
    BY <1>2, <1>5, ZenonT(30) DEF Next, GroupSkip, GroupBlock, GroupDone, alloc_pages_bad_order,
       alloc_pages_none, alloc_pages, AllocSplit, AllocReturn, free_pages, MergeRight,
       FreeInsert, Halted, vars, ghosts
  <2>2. CASE GroupSkip \/ GroupBlock \/ GroupDone
    <3>1. pc = "group" /\ ~left_merged
      BY <1>2, <2>2 DEF GroupSkip, GroupBlock, GroupDone, Grouped
    <3>2. GoodInv /\ Aligned /\ Ranked
      BY <3>1 DEF FreeInv, BuddyInv, GoodInv
    <3>3. Ranked'
      BY <2>1, <3>1, <3>2, NextRanked DEF FreeInv
    <3>4. Aligned' /\ Grouped' /\ Unpaired' /\ pc' # "panic_group"
      <4>1. CASE GroupSkip
        BY <1>2, <3>1, <3>2, <4>1, SkipFree DEF GroupSkip, Unpaired
      <4>2. CASE GroupBlock
        <5>1. pc' = pc
          BY <4>2 DEF GroupBlock
        <5> QED BY <1>2, <3>1, <3>2, <4>2, <5>1, GroupBlockFree, SMTT(30) DEF Unpaired
      <4>3. CASE GroupDone
        BY <1>2, <3>2, <4>3, GroupDoneFree
      <4> QED BY <2>2, <4>1, <4>2, <4>3
    <3> QED BY <1>1, <3>3, <3>4 DEF FreeInv
  <2>3. CASE ~(GroupSkip \/ GroupBlock \/ GroupDone)
    <3>1. pc # "group" /\ pc' # "group" /\ pc' # "panic_group"
      BY <1>2, <1>5, <2>3, ZenonT(30) DEF Next, alloc_pages_bad_order,
         alloc_pages_none, alloc_pages, AllocSplit, AllocReturn, free_pages, MergeRight,
         FreeInsert, Halted, vars
    <3>2. SUFFICES ASSUME ~left_merged PROVE Ranked' /\ Aligned' /\ Unpaired'
      BY <1>1, <2>1, <3>1 DEF FreeInv, Grouped
    <3>3. GoodInv /\ Aligned /\ Unpaired /\ Ranked
      BY <3>2 DEF FreeInv, BuddyInv, GoodInv
    <3>4. Ranked'
      BY <2>1, <3>2, <3>3, NextRanked DEF FreeInv
    <3>5. CASE AllocSplit
      BY <3>3, <3>4, <3>5, SplitFree
    <3>6. CASE MergeRight
      BY <3>3, <3>4, <3>6, MergeFree, SMTT(30)
    <3>7. CASE FreeInsert
      BY <3>3, <3>4, <3>7, InsertFree
    <3>8. CASE \/ \E o \in 0 .. MaxOrder + 1 : alloc_pages(o) \/ alloc_pages_bad_order(o)
               \/ AllocReturn
               \/ \E p \in Pages, o \in Orders : free_pages(p, o)
      BY <3>1, <3>3, <3>4, <3>8, RestFree
    <3> QED BY <1>5, <2>3, <3>5, <3>6, <3>7, <3>8, SMTT(30) DEF Next, alloc_pages_none, Halted
  <2> QED BY <2>2, <2>3, SMTT(30)
<1> QED BY <1>3, <1>4, <1>5

LEMMA FreeInvariant == Spec => []FreeInv
BY InitFree, NextFree, PTL DEF Spec

\* Until free_pages merges a block into its left buddy, every walk along next from
\* free_matrix[k] ends and meets exactly the free blocks of order k: insert_free,
\* remove_free and pop_free lose no block and leave none on a list it is not on.
THEOREM ListsCorrect == Spec => []FreeListsExact
<1>1. FreeInv => FreeListsExact
  <2> SUFFICES ASSUME FreeInv, ~left_merged, NEW k \in Orders
               PROVE  /\ Walk(k)[NrPages] = NULL
                      /\ Range(Walk(k)) \ {NULL} = {p \in Pages : Listable(p) /\ order[p] = k}
    BY DEF FreeListsExact
  <2>1. TypeOK /\ ListInv /\ Ungrouped /\ Ranked
    BY DEF FreeInv, BuddyInv, RamInv
  <2> QED BY <2>1, RankedExact
<1> QED BY <1>1, FreeInvariant, PTL

\* Until then, between calls, every block is aligned and no two free blocks are
\* halves of an aligned block: the merge loop of free_pages and the grouping loop
\* of buddy_init stop no earlier than they must.
THEOREM CoalescedCorrect == Spec => []Coalesced
<1>1. FreeInv => Coalesced
  <2> SUFFICES ASSUME FreeInv, ~left_merged, pc = "idle", NEW p \in Heads
               PROVE  /\ p % Size[order[p]] = 0
                      /\ order[p] < MaxOrder /\ p % Size[order[p] + 1] = 0 =>
                           ~ (/\ p + Size[order[p]] \in Heads
                              /\ state[p] = PG_BUDDY /\ state[p + Size[order[p]]] = PG_BUDDY
                              /\ order[p + Size[order[p]]] = order[p])
    BY DEF Coalesced
  <2>1. Aligned /\ Unpaired
    BY DEF FreeInv
  <2>2. p % Size[order[p]] = 0
    BY <2>1 DEF Aligned
  <2>3. \A q \in Heads : q \in Pages /\ (state[q] = PG_BUDDY => Listable(q))
    BY DEF Heads, Listable
  <2> QED BY <2>1, <2>2, <2>3 DEF Unpaired, Halves
<1> QED BY <1>1, FreeInvariant, PTL

\* buddy_init's check that the grouping loop has accounted for every page the E820
\* scan released never fails.
THEOREM GroupingCorrect == Spec => []GroupingAccounts
<1>1. FreeInv => GroupingAccounts
  BY DEF FreeInv, GroupingAccounts
<1> QED BY <1>1, FreeInvariant, PTL
=============================================================================
