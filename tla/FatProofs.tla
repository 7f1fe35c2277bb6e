------------------------------ MODULE FatProofs -----------------------------
(***************************************************************************)
(* Proofs about Fat, for every disk and every header: the loader reads     *)
(* nothing behind the partition, and enters the kernel only with exactly   *)
(* its file loaded.                                                        *)
(* First what they need of its operators: cluster chains as paths through  *)
(* the FAT, the sectors they hold, and that the entry at which the search  *)
(* of a directory stops is the one Names means.                            *)
(***************************************************************************)
EXTENDS Fat, FiniteSetTheorems, WellFoundedInduction, TLAPS

\* Every nonempty set of natural numbers has a least element.
LEMMA LeastNat ==
  ASSUME NEW T \in SUBSET Nat, T # {}
  PROVE  \E x \in T : \A y \in T : x <= y
<1> DEFINE R == OpToRel(<, Nat)
<1>1. IsWellFoundedOn(R, Nat)
  BY NatLessThanWellFounded, ZenonT(30)
<1>2. \A x, y \in Nat : <<y, x>> \in R <=> y < x
  BY DEF OpToRel
<1> HIDE DEF R
<1>3. PICK x \in T : \A y \in T : ~(<<y, x>> \in R)
  BY <1>1, WFMin, ZenonT(30)
<1>4. \A y \in T : ~(y < x)
  BY <1>2, <1>3, Zenon
<1> QED BY <1>4

\* A set of numbers up to n that has 0 and with every number below n the next one
\* has them all.
LEMMA UpTo ==
  ASSUME NEW n \in Nat, NEW T, 0 \in T, \A i \in 0 .. n - 1 : i \in T => i + 1 \in T
  PROVE  \A i \in 0 .. n : i \in T
<1> SUFFICES ASSUME NEW j \in 0 .. n, j \notin T PROVE FALSE
  OBVIOUS
<1> DEFINE U == {i \in 0 .. n : i \notin T}
<1>0. U \in SUBSET Nat /\ U # {} /\ \A i : i \in U <=> i \in 0 .. n /\ i \notin T
  OBVIOUS
<1> HIDE DEF U
<1>1. PICK x \in U : \A y \in U : x <= y
  BY <1>0, LeastNat
<1>2. x # 0 /\ x - 1 \in 0 .. n - 1 /\ ~(x <= x - 1)
  BY <1>0, <1>1
<1>3. x - 1 \in T
  BY <1>0, <1>1, <1>2
<1> QED BY <1>0, <1>2, <1>3

(***************************************************************************)
(* The disk.                                                               *)
(***************************************************************************)

NrClusters == Cardinality(Clusters(vol))
Leads(c) == InChain(c) /\ c \in Clusters(vol)

LEMMA VolFacts ==
  ASSUME vol \in Volumes
  PROVE  /\ NrClusters = FAT_ENTRIES * FatReach
         /\ NrClusters \in Nat /\ Clusters(vol) = 0 .. NrClusters - 1
         /\ Cardinality(Clusters(vol)) = NrClusters /\ IsFiniteSet(Clusters(vol))
         /\ vol.spc \in Nat /\ vol.spc < LbaMod
         /\ vol.sectors \in Nat /\ vol.sectors < LbaMod
         /\ NrClusters * vol.spc <= MaxLoaded
         /\ \A c \in Clusters(vol) : c \in Nat /\ vol.next[c] \in Nat
<1>1. /\ vol.spc \in 0 .. LbaMod - 1 /\ vol.sectors \in 0 .. LbaMod - 1
      /\ Clusters(vol) = 0 .. FAT_ENTRIES * FatReach - 1
      /\ FAT_ENTRIES * FatReach * vol.spc <= MaxLoaded
      /\ \A c \in Clusters(vol) : vol.next[c] \in Nat
  BY VolumesAssumption, Zenon
<1>2. PICK n \in Nat : n = FAT_ENTRIES * FatReach
  BY SizesAssumption DEF FatReach, SectorNo
<1>3. Clusters(vol) = 0 .. n - 1
  BY <1>1, <1>2, Zenon
<1>4. Cardinality(0 .. n - 1) = n /\ IsFiniteSet(0 .. n - 1)
  <2>1. PICK b \in Int : b = n - 1
    OBVIOUS
  <2>2. IsFiniteSet(0 .. b) /\ Cardinality(0 .. b) = IF 0 > b THEN 0 ELSE b - 0 + 1
    BY FS_Interval
  <2> QED BY <2>1, <2>2
<1>5. /\ vol.spc \in Nat /\ vol.spc < LbaMod
      /\ vol.sectors \in Nat /\ vol.sectors < LbaMod
      /\ \A c \in 0 .. n - 1 : c \in Nat
  BY <1>1, SizesAssumption
<1>6. n * vol.spc <= MaxLoaded
  BY <1>1, <1>2, Zenon
<1>7. NrClusters = n
  BY <1>3, <1>4, Zenon DEF NrClusters
<1> QED BY <1>1, <1>2, <1>3, <1>4, <1>5, <1>6, <1>7, Zenon

\* A number in a chain has its word among those from the start of the FAT on.
LEMMA InFat ==
  ASSUME vol \in Volumes, NEW c \in Nat, InChain(c)
  PROVE  Leads(c)
<1>1. PICK e \in Nat, f \in Nat \ {0}, q \in Nat :
        e = FAT_EOC /\ f = FAT_ENTRIES /\ q = FAT_EOC \div FAT_ENTRIES
  BY SizesAssumption
<1>2. e < f * (q + 1)
  BY <1>1
<1>3. NrClusters = f * (q + 1)
  BY <1>1, VolFacts DEF FatReach, SectorNo
<1>4. c \in 0 .. NrClusters - 1
  <2>1. c < e
    BY <1>1 DEF InChain
  <2> QED BY <1>2, <1>3, <2>1
<1> QED BY <1>4, VolFacts DEF Leads

\* Numbers of sectors are those that a uint32_t has.
Lbas == 0 .. LbaMod - 1

LEMMA ModFacts ==
  ASSUME NEW x \in Int
  PROVE  /\ x % LbaMod \in Lbas
         /\ x \in Lbas => x % LbaMod = x
         /\ x - LbaMod \in Lbas => x % LbaMod = x - LbaMod
<1>1. PICK m \in Nat \ {0} : m = LbaMod
  BY SizesAssumption
<1>2. x % m \in 0 .. m - 1 /\ (x \in 0 .. m - 1 => x % m = x)
  OBVIOUS
<1>3. ASSUME x - m \in 0 .. m - 1 PROVE x % m = x - m
  <2>1. PICK q \in Int : q = x \div m
    BY <1>1
  <2>2. x = m * q + (x % m)
    BY <2>1
  <2>3. q = 1
    BY <1>2, <1>3, <2>2
  <2> QED BY <1>2, <2>2, <2>3
<1> QED BY <1>1, <1>2, <1>3 DEF Lbas

LEMMA LbaFacts ==
  ASSUME vol \in Volumes, NEW c \in Nat, NEW i \in Nat
  PROVE  Lba(c) \in Lbas /\ SectorAt(c, i) \in Lbas
<1>1. PICK a \in Int : a = Data(vol) + (c - 2) * vol.spc
  <2>1. vol.reserved \in Nat /\ vol.fat_sectors \in Nat
    BY VolumesAssumption
  <2>2. Data(vol) \in Int
    <3>1. vol.reserved + vol.fat_sectors \in Int
      BY <2>1
    <3> QED BY <3>1, ModFacts DEF Data, Lbas
  <2> QED BY <2>2, VolFacts
<1>2. Lba(c) \in Lbas
  BY <1>1, ModFacts DEF Lba
<1>3. PICK b \in Int : b = Lba(c) + i
  BY <1>2 DEF Lbas
<1> QED BY <1>2, <1>3, ModFacts DEF SectorAt

\* On a volume that Fits the sector arithmetic of a cluster in a chain does not wrap.
LEMMA FitsFacts ==
  ASSUME vol \in Volumes, NEW c \in Nat, InChain(c), Fits(vol)
  PROVE  /\ Lba(c) + vol.spc < LbaMod
         /\ \A i \in 0 .. vol.spc - 1 : SectorAt(c, i) + 1 < LbaMod
<1>1. PICK d \in Nat, p \in Nat :
        d = vol.reserved + vol.fat_sectors /\ p = vol.spc /\ d + FAT_EOC * p < LbaMod
  <2>1. vol.reserved \in Nat /\ vol.fat_sectors \in Nat
    BY VolumesAssumption
  <2>2. PICK d \in Nat : d = vol.reserved + vol.fat_sectors
    BY <2>1
  <2>3. d + FAT_EOC * vol.spc < LbaMod
    BY <2>2, Zenon DEF Fits
  <2>4. vol.spc \in Nat
    BY VolFacts
  <2> QED BY <2>2, <2>3, <2>4, Zenon
<1>2. PICK e \in Nat, m \in Nat : e = FAT_EOC /\ m = LbaMod /\ d + e * p < m
  BY <1>1, SizesAssumption
<1>3. PICK a \in Nat : a = c - 2 /\ a + 1 < e
  BY <1>2 DEF InChain
<1>4. PICK ap \in Nat, rp \in Nat : ap = a * p /\ rp = (e - a - 1) * p
  BY <1>3
<1>5. e * p = ap + p + rp
  BY <1>3, <1>4
<1>6. d + ap + p < m
  BY <1>2, <1>5
<1>7. d \in Lbas /\ d + ap \in Lbas
  BY <1>2, <1>6 DEF Lbas
<1>8. Data(vol) = d /\ (d + ap) % LbaMod = d + ap
  BY <1>1, <1>7, ModFacts DEF Data
<1>9. Lba(c) = d + ap
  BY <1>1, <1>3, <1>4, <1>8 DEF Lba
<1>10. ASSUME NEW i \in 0 .. vol.spc - 1 PROVE SectorAt(c, i) + 1 < LbaMod
  <2>1. PICK b \in Int : b = d + ap + i /\ b \in Lbas /\ b + 1 < m
    BY <1>1, <1>2, <1>6 DEF Lbas
  <2>2. SectorAt(c, i) = b
    BY <1>9, <2>1, ModFacts DEF SectorAt
  <2> QED BY <1>2, <2>1, <2>2
<1> QED BY <1>1, <1>2, <1>6, <1>9, <1>10

(***************************************************************************)
(* Cluster chains.                                                         *)
(***************************************************************************)

\* w[0 .. k] are the clusters met on the way from c.
IsPath(w, k, c) ==
  /\ w \in [0 .. k -> Nat] /\ w[0] = c
  /\ \A i \in 0 .. k - 1 : Leads(w[i]) /\ w[i + 1] = vol.next[w[i]]

\* A chain that returns to a cluster goes round for ever.
LEMMA PathShift ==
  ASSUME NEW k \in Nat, NEW w, NEW c, IsPath(w, k, c),
         NEW i \in 0 .. k, NEW j \in 0 .. k, i < j, w[i] = w[j]
  PROVE  \E p \in 0 .. k - 1 : w[p] = w[k]
<1> DEFINE T == {m \in 0 .. k - j : w[i + m] = w[j + m]}
<1>1. 0 \in T
  OBVIOUS
<1>2. ASSUME NEW m \in 0 .. k - j - 1, m \in T PROVE m + 1 \in T
  <2>1. PICK x \in 0 .. k - 1, y \in 0 .. k - 1 : x = i + m /\ y = j + m
    OBVIOUS
  <2>2. w[x] = w[y] /\ w[x + 1] = vol.next[w[x]] /\ w[y + 1] = vol.next[w[y]]
    BY <1>2, <2>1 DEF IsPath
  <2>3. x + 1 = i + (m + 1) /\ y + 1 = j + (m + 1) /\ m + 1 \in 0 .. k - j
    BY <2>1
  <2> QED BY <2>2, <2>3
<1>3. k - j \in T
  <2>1. PICK n \in Nat : n = k - j
    OBVIOUS
  <2> HIDE DEF T
  <2>2. \A m \in 0 .. n : m \in T
    BY <1>1, <1>2, <2>1, UpTo
  <2> QED BY <2>1, <2>2
<1>4. w[i + (k - j)] = w[j + (k - j)] /\ j + (k - j) = k /\ i + (k - j) \in 0 .. k - 1
  BY <1>3
<1> QED BY <1>4

LEMMA PathShort ==
  ASSUME vol \in Volumes, NEW k \in Nat, NEW w, NEW c, IsPath(w, k, c),
         \A p \in 0 .. k - 1 : w[p] # w[k]
  PROVE  k <= NrClusters /\ (Leads(w[k]) => k < NrClusters)
<1>0. PICK C : C = Clusters(vol)
  OBVIOUS
<1>1. PICK n \in Nat : n = NrClusters /\ C = Clusters(vol) /\ IsFiniteSet(C) /\ Cardinality(C) = n
  BY <1>0, VolFacts
<1>2. ASSUME NEW m \in 0 .. k, \A p \in 0 .. m : w[p] \in C, n < m + 1
      PROVE  FALSE
  <2>1. PICK D : D = 0 .. m
    OBVIOUS
  <2>2. IsFiniteSet(D) /\ Cardinality(D) = m + 1
    <3>1. m - 0 + 1 = m + 1 /\ 0 <= m
      OBVIOUS
    <3> QED BY <2>1, <3>1, FS_Interval
  <2>3. PICK f \in [D -> C] : \A p \in D : f[p] = w[p]
    <3>1. [p \in D |-> w[p]] \in [D -> C]
      BY <1>2, <2>1
    <3> QED BY <3>1, Zenon
  <2>4. \E x, y \in D : x # y /\ f[x] = f[y]
    BY <1>1, <1>2, <2>2, FS_PigeonHole
  <2>5. PICK x \in 0 .. k, y \in 0 .. k : x < y /\ w[x] = w[y]
    BY <2>1, <2>3, <2>4
  <2> QED BY <2>5, PathShift
<1>3. \A p \in 0 .. k - 1 : w[p] \in C
  BY <1>1 DEF IsPath, Leads
<1>4. k <= n
  <2> SUFFICES ASSUME n < k PROVE FALSE
    OBVIOUS
  <2>1. PICK m \in 0 .. k : m = k - 1 /\ n < m + 1
    OBVIOUS
  <2> QED BY <1>2, <1>3, <2>1
<1>5. ASSUME Leads(w[k]) PROVE k < n
  <2>1. \A p \in 0 .. k : w[p] \in C
    BY <1>1, <1>3, <1>5 DEF Leads
  <2>2. k \in 0 .. k /\ ~(n < k + 1) => k < n
    OBVIOUS
  <2>3. ~(n < k + 1)
    BY <1>2, <2>1
  <2> QED BY <2>2, <2>3
<1> QED BY <1>1, <1>4, <1>5

\* Paths from one cluster are one path.
LEMMA PathUnique ==
  ASSUME NEW k \in Nat, NEW w, NEW l \in Nat, NEW v, NEW c,
         IsPath(w, k, c), IsPath(v, l, c), k <= l
  PROVE  \A i \in 0 .. k : w[i] = v[i]
<1> DEFINE T == {i \in 0 .. k : w[i] = v[i]}
<1>1. 0 \in T
  BY DEF IsPath
<1>2. ASSUME NEW i \in 0 .. k - 1, i \in T PROVE i + 1 \in T
  <2>1. i \in 0 .. l - 1 /\ i + 1 \in 0 .. k /\ w[i] = v[i]
    BY <1>2
  <2>2. w[i + 1] = vol.next[w[i]] /\ v[i + 1] = vol.next[v[i]]
    BY <2>1 DEF IsPath
  <2> QED BY <2>1, <2>2
<1>3. \A i \in 0 .. k : i \in T
  <2> HIDE DEF T
  <2> QED BY <1>1, <1>2, UpTo
<1> QED BY <1>3

LEMMA PathExtends ==
  ASSUME NEW k \in Nat, NEW w, NEW c, IsPath(w, k, c), Leads(w[k]), vol.next[w[k]] \in Nat
  PROVE  \E v : /\ IsPath(v, k + 1, c) /\ v[k + 1] = vol.next[w[k]]
                /\ \A i \in 0 .. k : v[i] = w[i]
<1>1. PICK v \in [0 .. k + 1 -> Nat] :
        \A i \in 0 .. k + 1 : v[i] = IF i = k + 1 THEN vol.next[w[k]] ELSE w[i]
  <2>1. [i \in 0 .. k + 1 |-> IF i = k + 1 THEN vol.next[w[k]] ELSE w[i]] \in [0 .. k + 1 -> Nat]
    BY DEF IsPath
  <2> QED BY <2>1, Zenon
<1>2. v[k + 1] = vol.next[w[k]] /\ \A i \in 0 .. k : v[i] = w[i]
  BY <1>1
<1>3. ASSUME NEW i \in 0 .. k PROVE Leads(v[i]) /\ v[i + 1] = vol.next[v[i]]
  <2>1. CASE i = k
    BY <1>2, <2>1
  <2>2. CASE i # k
    <3>1. i \in 0 .. k - 1 /\ i + 1 \in 0 .. k
      BY <2>2
    <3>2. v[i] = w[i] /\ v[i + 1] = w[i + 1]
      BY <1>2, <3>1
    <3> QED BY <3>1, <3>2 DEF IsPath
  <2> QED BY <2>1, <2>2
<1>4. IsPath(v, k + 1, c)
  <2>1. (k + 1) - 1 = k
    OBVIOUS
  <2>2. v[0] = c
    BY <1>2 DEF IsPath
  <2> QED BY <1>3, <2>1, <2>2 DEF IsPath
<1> QED BY <1>2, <1>4

\* The function at of Walk.
Steps(f, c) ==
  /\ f \in [0 .. NrClusters -> Nat] /\ f[0] = c
  /\ \A i \in 0 .. NrClusters - 1 : f[i + 1] = IF Leads(f[i]) THEN vol.next[f[i]] ELSE f[i]

After(c) == [x \in {c} \cup Range(vol.next) |-> IF Leads(x) THEN vol.next[x] ELSE x]

AtStep(f, c) == [k \in 0 .. NrClusters |-> IF k = 0 THEN c ELSE After(c)[f[k - 1]]]

At(c) == CHOOSE f : f = AtStep(f, c)

LEMMA WalkIsAt ==
  ASSUME vol \in Volumes, NEW c
  PROVE  Walk(c) = [k \in 1 .. Min({k \in 0 .. NrClusters : ~Leads(At(c)[k])} \cup {NrClusters}) + 1
                      |-> At(c)[k - 1]]
BY Zenon DEF Walk, At, AtStep, After, Leads, NrClusters

LEMMA AfterFacts ==
  ASSUME vol \in Volumes, NEW c \in Nat, NEW x \in {c} \cup Range(vol.next)
  PROVE  /\ x \in Nat /\ After(c)[x] \in {c} \cup Range(vol.next)
         /\ After(c)[x] = IF Leads(x) THEN vol.next[x] ELSE x
<1>1. \A y \in Clusters(vol) : vol.next[y] \in Range(vol.next) /\ vol.next[y] \in Nat
  BY VolFacts DEF Range, Clusters
<1>2. x \in Nat
  BY <1>1 DEF Range, Clusters
<1> QED BY <1>1, <1>2 DEF After, Leads

LEMMA AtSteps ==
  ASSUME vol \in Volumes, NEW c \in Nat
  PROVE  Steps(At(c), c)
<1> DEFINE P(n) == \E f \in [0 .. n -> {c} \cup Range(vol.next)] :
                     f[0] = c /\ \A i \in 0 .. n - 1 : f[i + 1] = After(c)[f[i]]
           T == {n \in 0 .. NrClusters : P(n)}
<1>0. PICK N \in Nat : N = NrClusters
  BY VolFacts
<1>1. 0 \in T
  <2>1. PICK f \in [0 .. 0 -> {c} \cup Range(vol.next)] : f[0] = c
    <3>1. [i \in 0 .. 0 |-> c] \in [0 .. 0 -> {c} \cup Range(vol.next)]
      OBVIOUS
    <3>2. [i \in 0 .. 0 |-> c][0] = c
      OBVIOUS
    <3> QED BY <3>1, <3>2, Zenon
  <2>2. \A i \in 0 .. 0 - 1 : f[i + 1] = After(c)[f[i]]
    OBVIOUS
  <2>3. P(0)
    BY <2>1, <2>2, Zenon
  <2>4. 0 \in 0 .. NrClusters
    BY <1>0
  <2> QED BY <2>3, <2>4, Zenon
<1>2. ASSUME NEW n \in 0 .. NrClusters - 1, n \in T PROVE n + 1 \in T
  <2>1. PICK f \in [0 .. n -> {c} \cup Range(vol.next)] :
          f[0] = c /\ \A i \in 0 .. n - 1 : f[i + 1] = After(c)[f[i]]
    BY <1>2, Zenon
  <2>2. n \in Nat /\ n + 1 \in 0 .. NrClusters
    BY <1>0
  <2>3. f[n] \in {c} \cup Range(vol.next)
    BY <2>2
  <2>4. PICK x \in {c} \cup Range(vol.next) : x = After(c)[f[n]]
    BY <2>3, AfterFacts, Zenon
  <2>5. PICK h \in [0 .. n + 1 -> {c} \cup Range(vol.next)] :
          \A i \in 0 .. n + 1 : h[i] = IF i = n + 1 THEN x ELSE f[i]
    <3>1. [i \in 0 .. n + 1 |-> IF i = n + 1 THEN x ELSE f[i]]
            \in [0 .. n + 1 -> {c} \cup Range(vol.next)]
      BY <2>2
    <3> QED BY <3>1, Zenon
  <2>6. ASSUME NEW i \in 0 .. n PROVE h[i + 1] = After(c)[h[i]]
    <3>1. h[i] = f[i]
      BY <2>2, <2>5
    <3>2. CASE i = n
      BY <2>2, <2>4, <2>5, <3>1, <3>2
    <3>3. CASE i # n
      <4>1. i \in 0 .. n - 1 /\ h[i + 1] = f[i + 1]
        BY <2>2, <2>5, <3>3
      <4> QED BY <2>1, <3>1, <4>1, Zenon
    <3> QED BY <3>2, <3>3
  <2>7. h[0] = c /\ (n + 1) - 1 = n
    BY <2>1, <2>2, <2>5
  <2>8. P(n + 1)
    BY <2>6, <2>7, Zenon
  <2> QED BY <2>2, <2>8, Zenon
<1>3. P(N)
  <2>1. N \in T
    <3> HIDE DEF T
    <3>1. \A n \in 0 .. N : n \in T
      BY <1>0, <1>1, <1>2, UpTo
    <3> QED BY <3>1
  <2> QED BY <2>1, Zenon
<1>4. PICK f \in [0 .. N -> {c} \cup Range(vol.next)] :
        f[0] = c /\ \A i \in 0 .. N - 1 : f[i + 1] = After(c)[f[i]]
  BY <1>3, Zenon
<1>5. f = AtStep(f, c)
  <2>1. ASSUME NEW k \in 0 .. N PROVE f[k] = IF k = 0 THEN c ELSE After(c)[f[k - 1]]
    <3>1. CASE k = 0
      BY <1>4, <3>1
    <3>2. CASE k # 0
      <4>1. k - 1 \in 0 .. N - 1 /\ (k - 1) + 1 = k
        BY <3>2
      <4> QED BY <1>4, <3>2, <4>1, Zenon
    <3> QED BY <3>1, <3>2
  <2>2. f = [k \in 0 .. N |-> f[k]]
    OBVIOUS
  <2> QED BY <1>0, <2>1, <2>2 DEF AtStep
<1>6. PICK a : a = At(c) /\ a = AtStep(a, c)
  BY <1>5, Zenon DEF At
<1>7. /\ a = [k \in 0 .. N |-> a[k]] /\ a[0] = c
      /\ \A k \in 0 .. N - 1 : a[k + 1] = After(c)[a[k]]
  <2>1. a = [k \in 0 .. N |-> IF k = 0 THEN c ELSE After(c)[a[k - 1]]]
    BY <1>0, <1>6, Zenon DEF AtStep
  <2>2. \A k \in 0 .. N : a[k] = IF k = 0 THEN c ELSE After(c)[a[k - 1]]
    BY <2>1, Zenon
  <2>3. a = [k \in 0 .. N |-> a[k]]
    BY <2>1
  <2>4. a[0] = c
    BY <2>2
  <2>5. ASSUME NEW k \in 0 .. N - 1 PROVE a[k + 1] = After(c)[a[k]]
    <3>1. k + 1 \in 0 .. N /\ k + 1 # 0 /\ (k + 1) - 1 = k
      OBVIOUS
    <3> QED BY <2>2, <3>1, Zenon
  <2> QED BY <2>3, <2>4, <2>5, Zenon
<1>8. \A k \in 0 .. N : a[k] \in {c} \cup Range(vol.next)
  <2> DEFINE U == {k \in 0 .. N : a[k] \in {c} \cup Range(vol.next)}
  <2>1. 0 \in U
    BY <1>7
  <2>2. ASSUME NEW k \in 0 .. N - 1, k \in U PROVE k + 1 \in U
    <3>1. a[k + 1] \in {c} \cup Range(vol.next)
      BY <1>7, <2>2, AfterFacts, Zenon
    <3> QED BY <3>1
  <2>3. \A k \in 0 .. N : k \in U
    <3> HIDE DEF U
    <3> QED BY <2>1, <2>2, UpTo
  <2> QED BY <2>3
<1>9. a \in [0 .. N -> Nat]
  <2>1. \A k \in 0 .. N : a[k] \in Nat
    BY <1>8, AfterFacts, Zenon
  <2> QED BY <1>7, <2>1
<1>10. ASSUME NEW k \in 0 .. N - 1
       PROVE  a[k + 1] = IF Leads(a[k]) THEN vol.next[a[k]] ELSE a[k]
  <2>1. a[k] \in {c} \cup Range(vol.next)
    BY <1>8
  <2> QED BY <1>7, <2>1, AfterFacts, Zenon
<1> QED BY <1>0, <1>6, <1>7, <1>9, <1>10, Zenon DEF Steps

\* Walk(c) is the path from c to the end of the chain, if it has one.
IsWalk(w, k, c) ==
  /\ IsPath(w, k, c) /\ (k = NrClusters \/ ~Leads(w[k]))
  /\ Walk(c) = [i \in 1 .. k + 1 |-> w[i - 1]]

LEMMA WalkIsPath ==
  ASSUME vol \in Volumes, NEW c \in Nat
  PROVE  \E k \in 0 .. NrClusters : \E w : IsWalk(w, k, c)
<1>0. PICK N \in Nat : N = NrClusters
  BY VolFacts
<1>1. PICK a : a = At(c) /\ Steps(a, c)
  BY AtSteps
<1>2. PICK E \in SUBSET Nat : E = {k \in 0 .. N : ~Leads(a[k])} \cup {N}
  <2>1. {k \in 0 .. N : ~Leads(a[k])} \cup {N} \in SUBSET Nat
    OBVIOUS
  <2> QED BY <2>1, Zenon
<1>3. PICK k \in E : k = Min(E) /\ \A j \in E : k <= j
  <2>1. \E x \in E : \A y \in E : x <= y
    BY <1>2, LeastNat
  <2> QED BY <2>1, Zenon DEF Min
<1>4. k \in 0 .. N /\ (k = N \/ ~Leads(a[k])) /\ \A i \in 0 .. k - 1 : Leads(a[i])
  BY <1>2, <1>3
<1>5. PICK w \in [0 .. k -> Nat] : \A i \in 0 .. k : w[i] = a[i]
  <2>1. [i \in 0 .. k |-> a[i]] \in [0 .. k -> Nat]
    BY <1>0, <1>1, <1>4 DEF Steps
  <2> QED BY <2>1, Zenon
<1>6. ASSUME NEW i \in 0 .. k - 1 PROVE Leads(w[i]) /\ w[i + 1] = vol.next[w[i]]
  <2>1. i \in 0 .. N - 1 /\ i \in 0 .. k /\ i + 1 \in 0 .. k
    BY <1>4
  <2>2. Leads(a[i]) /\ w[i] = a[i] /\ w[i + 1] = a[i + 1]
    BY <1>4, <1>5, <2>1
  <2>3. a[i + 1] = vol.next[a[i]]
    BY <1>0, <1>1, <2>1, <2>2 DEF Steps
  <2> QED BY <2>2, <2>3
<1>7. IsPath(w, k, c) /\ w[k] = a[k]
  BY <1>0, <1>1, <1>4, <1>5, <1>6 DEF IsPath, Steps
<1>8. Walk(c) = [i \in 1 .. k + 1 |-> a[i - 1]]
  <2>1. Walk(c) = [i \in 1 .. Min(E) + 1 |-> a[i - 1]]
    BY <1>0, <1>1, <1>2, WalkIsAt, Zenon
  <2> QED BY <1>3, <2>1, Zenon
<1>9. Walk(c) = [i \in 1 .. k + 1 |-> w[i - 1]]
  <2>1. \A i \in 1 .. k + 1 : a[i - 1] = w[i - 1]
    BY <1>4, <1>5
  <2> QED BY <1>8, <2>1, Zenon
<1> QED BY <1>0, <1>4, <1>7, <1>9, Zenon DEF IsWalk

(***************************************************************************)
(* What a chain holds.                                                     *)
(***************************************************************************)

LEMMA SectorsFacts ==
  ASSUME vol \in Volumes, NEW c \in Nat
  PROVE  /\ Sectors(c) \in Seq(Lbas) /\ Len(Sectors(c)) = vol.spc
         /\ \A i \in 1 .. vol.spc : Sectors(c)[i] = SectorAt(c, i - 1)
<1>1. PICK p \in Nat : p = vol.spc
  BY VolFacts
<1>2. \A i \in 1 .. p : SectorAt(c, i - 1) \in Lbas
  <2> SUFFICES ASSUME NEW i \in 1 .. p PROVE SectorAt(c, i - 1) \in Lbas
    OBVIOUS
  <2>1. i - 1 \in Nat
    OBVIOUS
  <2> QED BY <2>1, LbaFacts
<1>3. Sectors(c) = [i \in 1 .. p |-> SectorAt(c, i - 1)]
  BY <1>1 DEF Sectors
<1>4. Sectors(c) \in Seq(Lbas) /\ Len(Sectors(c)) = p
  BY <1>2, <1>3
<1> QED BY <1>1, <1>3, <1>4

\* The sectors are those of the clusters w[0 .. k - 1], cluster by cluster.
Holds(sectors, w, k) ==
  /\ Len(sectors) = k * vol.spc
  /\ \A j \in 0 .. k - 1, i \in 1 .. vol.spc : sectors[j * vol.spc + i] = SectorAt(w[j], i - 1)

LEMMA Concat ==
  ASSUME NEW S, NEW a \in Seq(S), NEW b \in Seq(S)
  PROVE  /\ a \o b \in Seq(S) /\ Len(a \o b) = Len(a) + Len(b)
         /\ \A i \in 1 .. Len(a) : (a \o b)[i] = a[i]
         /\ \A i \in 1 .. Len(b) : (a \o b)[Len(a) + i] = b[i]
OBVIOUS

LEMMA HoldsGrows ==
  ASSUME vol \in Volumes, NEW k \in Nat, NEW w, Leads(w[k]),
         NEW q \in Seq(Lbas), Holds(q, w, k)
  PROVE  q \o Sectors(w[k]) \in Seq(Lbas) /\ Holds(q \o Sectors(w[k]), w, k + 1)
<1>1. PICK p \in Nat : p = vol.spc
  BY VolFacts
<1>2. PICK r \in Seq(Lbas) :
        r = Sectors(w[k]) /\ Len(r) = p /\ \A i \in 1 .. p : r[i] = SectorAt(w[k], i - 1)
  <2>1. w[k] \in Nat
    BY VolFacts DEF Leads
  <2> QED BY <1>1, <2>1, SectorsFacts, Zenon
<1>3. PICK n \in Nat : n = k * p /\ Len(q) = n
  BY <1>1 DEF Holds
<1>4. /\ q \o r \in Seq(Lbas) /\ Len(q \o r) = n + p
      /\ \A i \in 1 .. n : (q \o r)[i] = q[i]
      /\ \A i \in 1 .. p : (q \o r)[n + i] = r[i]
  <2>1. /\ q \o r \in Seq(Lbas) /\ Len(q \o r) = Len(q) + Len(r)
        /\ \A i \in 1 .. Len(q) : (q \o r)[i] = q[i]
        /\ \A i \in 1 .. Len(r) : (q \o r)[Len(q) + i] = r[i]
    BY Concat
  <2> QED BY <1>2, <1>3, <2>1, Zenon
<1>5. ASSUME NEW j \in 0 .. k, NEW i \in 1 .. p
      PROVE  (q \o r)[j * p + i] = SectorAt(w[j], i - 1)
  <2>1. CASE j = k
    <3>1. (q \o r)[j * p + i] = r[i]
      BY <1>3, <1>4, <2>1
    <3> QED BY <1>2, <2>1, <3>1
  <2>2. CASE j # k
    <3>1. PICK d \in Nat : k = j + 1 + d
      <4>1. k - j - 1 \in Nat /\ k = j + 1 + (k - j - 1)
        BY <2>2
      <4> QED BY <4>1
    <3>2. n = j * p + p + d * p /\ j * p \in Nat /\ d * p \in Nat
      BY <1>3, <3>1
    <3>3. PICK u \in Nat, v \in Nat : u = j * p /\ v = d * p /\ n = u + p + v
      BY <3>2
    <3>4. u + i \in 1 .. n
      BY <3>3
    <3>5. q[j * p + i] = SectorAt(w[j], i - 1)
      BY <1>1, <2>2 DEF Holds
    <3> QED BY <1>4, <3>3, <3>4, <3>5, Zenon
  <2> QED BY <2>1, <2>2, Zenon
<1>6. n + p = (k + 1) * p /\ (k + 1) - 1 = k
  BY <1>3
<1>7. Holds(q \o r, w, k + 1)
  BY <1>1, <1>4, <1>5, <1>6, Zenon DEF Holds
<1> QED BY <1>2, <1>4, <1>7

LEMMA ChainIs ==
  ASSUME NEW c, NEW k \in Nat, NEW w, IsWalk(w, k, c)
  PROVE  Len(Chain(c)) = k /\ \A i \in 1 .. k : Chain(c)[i] = w[i - 1]
<1>1. PICK v \in Seq(Nat) : v = Walk(c) /\ Len(v) = k + 1 /\ \A i \in 1 .. k : v[i] = w[i - 1]
  <2>0. w \in [0 .. k -> Nat] /\ Walk(c) = [i \in 1 .. k + 1 |-> w[i - 1]]
    BY DEF IsWalk, IsPath
  <2>1. \A i \in 1 .. k + 1 : w[i - 1] \in Nat
    BY <2>0
  <2>2. PICK v \in Seq(Nat) : v = [i \in 1 .. k + 1 |-> w[i - 1]]
    BY <2>0, <2>1
  <2>3. Len(v) = k + 1 /\ \A i \in 1 .. k : v[i] = w[i - 1]
    BY <2>2
  <2> QED BY <2>0, <2>2, <2>3
<1>2. Chain(c) = SubSeq(v, 1, k)
  BY <1>1 DEF Chain
<1> QED BY <1>1, <1>2

\* A path that ends is the chain.
LEMMA ChainOfPath ==
  ASSUME vol \in Volumes, NEW c \in Nat, NEW k \in Nat, NEW w, IsPath(w, k, c), ~Leads(w[k])
  PROVE  k <= NrClusters /\ \A q : Holds(q, w, k) => HoldsChain(q, c)
<1>1. NrClusters \in Nat
  BY VolFacts
<1>2. k <= NrClusters
  BY PathShort, Zenon DEF IsPath
<1>20. PICK l \in 0 .. NrClusters : \E v : IsWalk(v, l, c)
  BY WalkIsPath
<1>3. PICK v : IsWalk(v, l, c) /\ IsPath(v, l, c) /\ (l = NrClusters \/ ~Leads(v[l]))
  BY <1>20 DEF IsWalk
<1>4. l = k
  <2>1. CASE l < k
    <3>1. l \in 0 .. k - 1 /\ w[l] = v[l]
      BY <1>1, <1>3, <2>1, PathUnique
    <3> QED BY <1>1, <1>2, <1>3, <2>1, <3>1 DEF IsPath
  <2>2. CASE k < l
    <3>1. k \in 0 .. l - 1 /\ w[k] = v[k]
      BY <1>1, <1>3, <2>2, PathUnique
    <3> QED BY <1>3, <3>1 DEF IsPath
  <2> QED BY <1>1, <1>3, <2>1, <2>2
<1>5. \A i \in 0 .. k : w[i] = v[i]
  BY <1>3, <1>4, PathUnique
<1>6. Len(Chain(c)) = k /\ \A i \in 1 .. k : Chain(c)[i] = v[i - 1]
  BY <1>3, <1>4, ChainIs
<1>7. ASSUME NEW q, Holds(q, w, k), NEW j \in 1 .. k, NEW i \in 1 .. vol.spc
      PROVE  q[(j - 1) * vol.spc + i] = SectorAt(Chain(c)[j], i - 1)
  <2>1. j - 1 \in 0 .. k - 1 /\ Chain(c)[j] = w[j - 1]
    BY <1>5, <1>6
  <2> QED BY <1>7, <2>1, Zenon DEF Holds
<1>8. ASSUME NEW q, Holds(q, w, k) PROVE HoldsChain(q, c)
  BY <1>6, <1>7, <1>8, Zenon DEF HoldsChain, Holds
<1> QED BY <1>2, <1>8

(***************************************************************************)
(* The search of a directory.                                              *)
(***************************************************************************)

IsStop(e, target) == IsLast(e) \/ (~e.lfn /\ e.name = target)

\* The search did not stop in the first m sectors of the cluster.
Clear(c, m, target) == \A i \in 0 .. m - 1 : Stops(vol.dirs[SectorAt(c, i)], target) = {}

LEMMA NoStops ==
  ASSUME NEW entries \in Seq(Entries), NEW target, Stops(entries, target) = {}
  PROVE  \A i \in 1 .. Len(entries) : ~IsStop(entries[i], target)
<1>1. DOMAIN entries = 1 .. Len(entries)
  OBVIOUS
<1> QED BY <1>1, Zenon DEF Stops, IsStop

LEMMA LeastStop ==
  ASSUME NEW entries \in Seq(Entries), NEW target, Stops(entries, target) # {}
  PROVE  \E m \in 1 .. Len(entries) :
           /\ m = Min(Stops(entries, target)) /\ IsStop(entries[m], target)
           /\ \A i \in 1 .. m - 1 : ~IsStop(entries[i], target)
<1>1. DOMAIN entries = 1 .. Len(entries) /\ Len(entries) \in Nat
  OBVIOUS
<1>2. PICK T : T = Stops(entries, target)
  OBVIOUS
<1>3. \A i : i \in T <=> i \in 1 .. Len(entries) /\ IsStop(entries[i], target)
  BY <1>1, <1>2, Zenon DEF Stops, IsStop
<1>4. T \in SUBSET Nat /\ T # {}
  BY <1>1, <1>2, <1>3
<1>5. PICK m \in T : m = Min(T) /\ \A y \in T : m <= y
  <2>1. \E m \in T : \A y \in T : m <= y
    BY <1>4, LeastNat
  <2> QED BY <2>1, Zenon DEF Min
<1>6. ASSUME NEW i \in 1 .. m - 1 PROVE ~IsStop(entries[i], target)
  <2>1. m \in Nat /\ m <= Len(entries)
    BY <1>1, <1>3, <1>5
  <2>2. i \in 1 .. Len(entries) /\ ~(m <= i)
    BY <1>1, <2>1
  <2> QED BY <1>3, <1>5, <2>2, Zenon
<1> QED BY <1>2, <1>3, <1>5, <1>6, Zenon

LEMMA DirSector ==
  ASSUME vol \in Volumes, NEW l \in Lbas
  PROVE  l \in DOMAIN vol.dirs /\ vol.dirs[l] \in Seq(Entries)
<1>1. DOMAIN vol.dirs = Lbas /\ \A k \in DOMAIN vol.dirs : vol.dirs[k] \in Seq(Entries)
  BY VolumesAssumption, Zenon DEF Lbas
<1> QED BY <1>1, Zenon

\* The first k + 1 clusters of w are those of the chain W.
Follows(W, w, k) == k + 1 \in 1 .. Len(W) /\ \A i \in 0 .. k : W[i + 1] = w[i]

\* The search stops in no cluster twice, and so gets to one only along the chain.
LEMMA SearchInChain ==
  ASSUME vol \in Volumes, NEW c \in Nat, NEW k \in Nat, NEW w, IsPath(w, k, c), Leads(w[k]),
         NEW t \in 0 .. vol.spc - 1, NEW target,
         \A j \in 0 .. k - 1 : Clear(w[j], vol.spc, target),
         Stops(vol.dirs[SectorAt(w[k], t)], target) # {}
  PROVE  Follows(Chain(c), w, k)
<1>0. NrClusters \in Nat /\ vol.spc \in Nat
  BY VolFacts
<1>1. \A j \in 0 .. k - 1 : w[j] # w[k]
  <2> SUFFICES ASSUME NEW j \in 0 .. k - 1, w[j] = w[k] PROVE FALSE
    OBVIOUS
  <2>1. Clear(w[k], vol.spc, target)
    BY Zenon
  <2> QED BY <2>1, Zenon DEF Clear
<1>2. k < NrClusters
  BY <1>1, PathShort
<1>20. PICK l \in 0 .. NrClusters : \E v : IsWalk(v, l, c)
  BY WalkIsPath
<1>3. PICK v : IsWalk(v, l, c) /\ IsPath(v, l, c) /\ (l = NrClusters \/ ~Leads(v[l]))
  BY <1>20 DEF IsWalk
<1>4. k < l /\ \A i \in 0 .. k : w[i] = v[i]
  <2>1. CASE l <= k
    <3>1. w[l] = v[l]
      BY <1>0, <1>3, <2>1, PathUnique
    <3>2. l = k \/ l \in 0 .. k - 1
      BY <1>0, <2>1
    <3>3. Leads(w[l])
      BY <3>2, Zenon DEF IsPath
    <3> QED BY <1>0, <1>2, <1>3, <2>1, <3>1, <3>3
  <2>2. CASE k < l
    <3>1. l \in Nat /\ k <= l /\ IsPath(v, l, c)
      BY <1>0, <1>3, <2>2
    <3>2. \A i \in 0 .. k : w[i] = v[i]
      BY <3>1, PathUnique
    <3> QED BY <2>2, <3>2
  <2> QED BY <1>0, <1>3, <2>1, <2>2
<1>5. Len(Chain(c)) = l /\ \A i \in 1 .. l : Chain(c)[i] = v[i - 1]
  <2>1. l \in Nat
    BY <1>0
  <2> QED BY <1>3, <2>1, ChainIs
<1>6. ASSUME NEW i \in 0 .. k PROVE Chain(c)[i + 1] = w[i]
  <2>1. i + 1 \in 1 .. l /\ (i + 1) - 1 = i
    BY <1>0, <1>4
  <2> QED BY <1>4, <1>5, <2>1, Zenon
<1>7. k + 1 \in 1 .. Len(Chain(c))
  BY <1>0, <1>4, <1>5
<1> QED BY <1>6, <1>7, Zenon DEF Follows

\* What the search finds is what the directory says.
LEMMA FoundNames ==
  ASSUME vol \in Volumes, NEW c \in Nat, NEW k \in Nat, NEW w, IsPath(w, k, c), Leads(w[k]),
         NEW t \in 0 .. vol.spc - 1, NEW target,
         \A j \in 0 .. k - 1 : Clear(w[j], vol.spc, target), Clear(w[k], t, target),
         NEW entries, entries = vol.dirs[SectorAt(w[k], t)], Stops(entries, target) # {},
         ~IsLast(entries[Min(Stops(entries, target))])
  PROVE  /\ SectorAt(w[k], t) \in Lbas
         /\ Min(Stops(entries, target)) \in DOMAIN entries
         /\ Names(c, target, entries[Min(Stops(entries, target))])
<1>1. PICK W : W = Chain(c)
  OBVIOUS
<1>2. k + 1 \in 1 .. Len(W) /\ \A i \in 0 .. k : W[i + 1] = w[i]
  <2>1. Stops(vol.dirs[SectorAt(w[k], t)], target) # {}
    BY Zenon
  <2>2. Follows(Chain(c), w, k)
    BY <2>1, SearchInChain, Zenon
  <2> QED BY <1>1, <2>2, Zenon DEF Follows
<1>3. SectorAt(w[k], t) \in Lbas
  <2>1. w[k] \in Nat /\ t \in Nat
    BY VolFacts DEF Leads
  <2> QED BY <2>1, LbaFacts
<1>4. entries \in Seq(Entries)
  BY <1>3, DirSector
<1>5. PICK m \in 1 .. Len(entries) :
         /\ m = Min(Stops(entries, target)) /\ IsStop(entries[m], target)
         /\ \A i \in 1 .. m - 1 : ~IsStop(entries[i], target)
  BY <1>4, LeastStop
<1>6. m \in DOMAIN entries
  BY <1>4
<1>7. PICK e : e = entries[m] /\ ~IsLast(e) /\ ~e.lfn /\ e.name = target
  BY <1>5, Zenon DEF IsStop
<1>8. \A x : ~IsStop(x, target) => ~IsLast(x) /\ (x.lfn \/ x.name # target)
  BY Zenon DEF IsStop
<1>9. \A u \in 0 .. t - 1 : \A i \in DOMAIN vol.dirs[SectorAt(w[k], u)] :
        ~IsStop(vol.dirs[SectorAt(w[k], u)][i], target)
  BY Zenon DEF Clear, Stops, IsStop
<1>10. \A j \in 0 .. k - 1 : \A u \in 0 .. vol.spc - 1 :
         \A i \in DOMAIN vol.dirs[SectorAt(w[j], u)] : ~IsStop(vol.dirs[SectorAt(w[j], u)][i], target)
  BY Zenon DEF Clear, Stops, IsStop
<1>11. PICK n \in 1 .. Len(W) : n = k + 1 /\ W[n] = w[k]
  <2>1. k \in 0 .. k
    OBVIOUS
  <2> QED BY <1>2, <2>1, Zenon
<1>12. ASSUME NEW h \in 1 .. n - 1 PROVE \E j \in 0 .. k - 1 : W[h] = w[j]
  <2>1. h - 1 \in 0 .. k - 1 /\ h - 1 \in 0 .. k /\ (h - 1) + 1 = h
    BY <1>11
  <2> QED BY <1>2, <2>1, Zenon
<1>13. ASSUME NEW h \in 1 .. n - 1, NEW u \in 0 .. vol.spc - 1,
              NEW i \in DOMAIN vol.dirs[SectorAt(W[h], u)]
       PROVE  LET x == vol.dirs[SectorAt(W[h], u)][i] IN ~IsLast(x) /\ (x.lfn \/ x.name # target)
  <2>1. PICK j \in 0 .. k - 1 : W[h] = w[j]
    BY <1>12
  <2>2. ~IsStop(vol.dirs[SectorAt(W[h], u)][i], target)
    BY <1>10, <2>1, Zenon
  <2> QED BY <1>8, <2>2, Zenon
<1>14. ASSUME NEW u \in 0 .. t - 1, NEW i \in DOMAIN vol.dirs[SectorAt(W[n], u)]
       PROVE  LET x == vol.dirs[SectorAt(W[n], u)][i] IN ~IsLast(x) /\ (x.lfn \/ x.name # target)
  <2>1. ~IsStop(vol.dirs[SectorAt(W[n], u)][i], target)
    BY <1>9, <1>11, Zenon
  <2> QED BY <1>8, <2>1, Zenon
<1>15. /\ e = vol.dirs[SectorAt(W[n], t)][m] /\ m \in DOMAIN vol.dirs[SectorAt(W[n], t)]
       /\ \A j \in 1 .. m - 1 :
            LET x == vol.dirs[SectorAt(W[n], t)][j] IN ~IsLast(x) /\ (x.lfn \/ x.name # target)
  BY <1>5, <1>6, <1>7, <1>8, <1>11, Zenon
<1>16. Names(c, target, e)
  BY <1>1, <1>7, <1>11, <1>13, <1>14, <1>15, Zenon DEF Names
<1> QED BY <1>3, <1>5, <1>6, <1>7, <1>16, Zenon

(***************************************************************************)
(* The inductive invariant.  A chain is followed from file.cluster: the    *)
(* clusters met so far are a path, with nothing in the sectors searched    *)
(* that stops the search, or with their sectors in memory.                 *)
(***************************************************************************)

CacheOK ==
  pc # "halted" /\ fat_cache.valid =>
    fat_cache.sector_no \in 0 .. FatReach - 1 /\ fat_cache.entry = FatSector(fat_cache.sector_no)

BaseInv ==
  /\ vol \in Volumes /\ cluster \in Nat /\ s \in Nat
  /\ file \in [directory : BOOLEAN, cluster : Nat]
  /\ pc = "scan" => s <= vol.spc
  /\ pc = "next" => Leads(cluster)
  /\ pc = "kernel" => ~InChain(cluster)
  /\ CacheOK /\ ReadsInPartition

FileOf(e) == [directory |-> e.directory, cluster |-> e.cluster]

AtRoot == path = KERNEL_FILE /\ file = Root

InFirst ==
  /\ path = AfterSlash(KERNEL_FILE)
  /\ \E e1 \in AllEntries : Names(vol.root, Components[1], e1) /\ file = FileOf(e1)

AtFile ==
  /\ path = <<>>
  /\ \E e1, e2 \in AllEntries :
       /\ Names(vol.root, Components[1], e1) /\ e1.directory
       /\ Names(e1.cluster, Components[2], e2) /\ file = FileOf(e2)

LookupInv ==
  /\ pc = "fat_dev_init" => AtRoot
  /\ pc = "path_lookup" => AtRoot \/ InFirst \/ AtFile
  /\ pc = "scan" => file.directory /\ (AtRoot \/ InFirst)
  /\ pc \in {"read", "next", "kernel"} => AtFile

Target == fat_short_name_to_name_ext(path)

Searched(m) ==
  \E k \in Nat : \E w :
    /\ IsPath(w, k, file.cluster) /\ cluster = w[k]
    /\ \A j \in 0 .. k - 1 : Clear(w[j], vol.spc, Target)
    /\ Clear(cluster, m, Target)

ScanInv ==
  /\ pc = "scan" => Searched(s)
  /\ pc \in {"fat_dev_init", "path_lookup", "scan"} => loaded = <<>>

\* More sectors than those of all clusters are loaded only from a cyclic chain.
Loads(w, k) ==
  k <= NrClusters =>
    loaded \in Seq(Lbas) /\ Holds(loaded, w, k)

LoadInv ==
  pc \in {"read", "next", "kernel"} =>
    \E k \in Nat : \E w :
      /\ IsPath(w, k, file.cluster) /\ cluster = w[k]
      /\ Loads(w, IF pc = "next" THEN k + 1 ELSE k)

FatInv == BaseInv /\ LookupInv /\ ScanInv /\ LoadInv

-----------------------------------------------------------------------------

LEMMA InitFat == Init => FatInv
<1> SUFFICES ASSUME Init PROVE FatInv
  OBVIOUS
<1>1. vol \in Volumes /\ vol.root \in Nat
  BY VolumesAssumption DEF Init
<1>2. BaseInv
  BY <1>1 DEF Init, BaseInv, Root, CacheOK, ReadsInPartition
<1>3. LookupInv /\ ScanInv /\ LoadInv
  BY DEF Init, LookupInv, ScanInv, LoadInv, AtRoot, Root
<1> QED BY <1>2, <1>3 DEF FatInv

\* What a directory says depends on the disk alone.
LEMMA SameNames ==
  ASSUME vol' = vol
  PROVE  \A c, n, e : Names(c, n, e)' <=> Names(c, n, e)
<1>1. \A c, i : SectorAt(c, i)' = SectorAt(c, i)
  BY DEF SectorAt, Lba, Data
<1>2. \A c : Walk(c)' = Walk(c)
  BY DEF Walk, Clusters, InChain
<1>3. \A c : Chain(c)' = Chain(c)
  BY <1>2, Zenon DEF Chain
<1>4. ASSUME NEW c, NEW n, NEW e PROVE Names(c, n, e)' <=> Names(c, n, e)
  <2>1. PICK w : w = Chain(c) /\ w = Chain(c)'
    BY <1>3
  <2> QED BY <2>1, SMTT(30) DEF Names, SectorAt, Lba, Data
<1> QED BY <1>4

LEMMA SameLookup ==
  ASSUME UNCHANGED <<vol, path, file>>
  PROVE  (AtRoot' <=> AtRoot) /\ (InFirst' <=> InFirst) /\ (AtFile' <=> AtFile) /\ Target' = Target
BY SameNames DEF AtRoot, InFirst, AtFile, Target, Root, AllEntries

LEMMA SameVolume ==
  ASSUME vol' = vol
  PROVE  /\ \A c : (Leads(c)' <=> Leads(c)) /\ (InChain(c)' <=> InChain(c))
         /\ \A w, k, c : IsPath(w, k, c)' <=> IsPath(w, k, c)
         /\ \A c, m, target : Clear(c, m, target)' <=> Clear(c, m, target)
         /\ NrClusters' = NrClusters
<1>1. \A c : (Leads(c)' <=> Leads(c)) /\ (InChain(c)' <=> InChain(c))
  BY DEF Leads, InChain, Clusters
<1>2. \A w, k, c : IsPath(w, k, c)' <=> IsPath(w, k, c)
  BY <1>1 DEF IsPath
<1>3. \A c, i : SectorAt(c, i)' = SectorAt(c, i)
  BY DEF SectorAt, Lba, Data
<1>4. \A c, m, target : Clear(c, m, target)' <=> Clear(c, m, target)
  BY <1>3, Zenon DEF Clear
<1>5. NrClusters' = NrClusters
  BY DEF NrClusters, Clusters
<1> QED BY <1>1, <1>2, <1>4, <1>5

LEMMA NextLoads ==
  ASSUME vol' = vol, NEW w, NEW k
  PROVE  Loads(w, k)' <=> (k <= NrClusters => loaded' \in Seq(Lbas) /\ Holds(loaded', w, k))
<1>1. \A c, i : SectorAt(c, i)' = SectorAt(c, i)
  BY DEF SectorAt, Lba, Data
<1>2. Holds(loaded, w, k)' <=> Holds(loaded', w, k)
  BY <1>1, Zenon DEF Holds
<1> QED BY <1>2, SameVolume, Zenon DEF Loads

LEMMA SameLoads ==
  ASSUME vol' = vol, loaded' = loaded
  PROVE  \A w, k : Loads(w, k)' <=> Loads(w, k)
BY NextLoads DEF Loads

LEMMA SameCache ==
  ASSUME vol' = vol, fat_cache' = fat_cache, pc # "halted", CacheOK
  PROVE  CacheOK'
<1>1. \A k : FatSector(k)' = FatSector(k)
  BY Zenon DEF FatSector
<1> QED BY <1>1 DEF CacheOK

LEMMA SameSearched ==
  ASSUME UNCHANGED <<vol, path, file>>, cluster' = cluster, NEW m, Searched(m)
  PROVE Searched(m)'
<1>1. PICK k \in Nat : \E w :
    /\ IsPath(w, k, file.cluster) /\ cluster = w[k]
    /\ \A j \in 0 .. k - 1 : Clear(w[j], vol.spc, Target)
    /\ Clear(cluster, m, Target)
  BY DEF Searched
<1>2. PICK w :
    /\ IsPath(w, k, file.cluster) /\ cluster = w[k]
    /\ \A j \in 0 .. k - 1 : Clear(w[j], vol.spc, Target)
    /\ Clear(cluster, m, Target)
  BY <1>1
<1>3. IsPath(w, k, file.cluster)' 
  BY <1>2, SameVolume
<1>4. Clear(cluster, m, Target)'
  BY <1>2, SameVolume, SameLookup
<1>5. Target' = Target
  BY SameLookup
<1>6. \A j \in 0 .. k - 1 : Clear(w[j], vol.spc, Target)'
  BY <1>2, SameVolume, <1>5
<1> QED BY <1>3, <1>2, <1>4, <1>6 DEF Searched

-----------------------------------------------------------------------------

\* fat_read_sectors asks for sectors before the partition only if its sum wraps.
LEMMA ReadStays ==
  ASSUME vol \in Volumes, vol' = vol, ReadsInPartition, NEW lba \in Lbas, NEW count \in Nat,
         lba + count < LbaMod \/ (count <= vol.spc /\ ~Fits(vol)),
         Reads(lba, count) \/ ReadFails(lba, count)
  PROVE  ReadsInPartition'
<1>1. PICK n \in Nat, p \in Nat, m \in Nat :
        n = vol.sectors /\ p = vol.spc /\ m = LbaMod /\ n < m /\ p < m
  BY VolFacts, SizesAssumption
<1>2. Fits(vol)' <=> Fits(vol)
  BY DEF Fits
<1>3. CASE last_read' = last_read
  BY <1>2, <1>3 DEF ReadsInPartition
<1>4. CASE Readable(lba, count) /\ last_read' = Asked(lba, count)
  <2>1. CASE lba + count < LbaMod
    <3>1. PICK b \in Int : b = lba + count /\ b \in Lbas
      BY <2>1, SizesAssumption DEF Lbas
    <3>2. lba + count <= n
      <4>1. b % LbaMod = b
        BY <3>1, ModFacts
      <4> QED BY <1>1, <1>4, <3>1, <4>1 DEF Readable
    <3>3. ASSUME NEW l \in Asked(lba, count) PROVE l \in 0 .. n - 1
      <4>1. PICK i \in 0 .. count - 1 : l = (lba + i) % LbaMod
        BY DEF Asked
      <4>2. PICK a \in Int : a = lba + i /\ a \in Lbas /\ a \in 0 .. n - 1
        BY <1>1, <3>2 DEF Lbas
      <4> QED BY <4>1, <4>2, ModFacts
    <3>4. \A l \in last_read' : l \in 0 .. n - 1 /\ l < n
      BY <1>4, <3>3
    <3> QED BY <1>1, <3>4 DEF ReadsInPartition
  <2>2. CASE ~(lba + count < LbaMod) /\ count <= vol.spc /\ ~Fits(vol)
    <3>1. PICK b \in Int : b = lba + count /\ b - m \in Lbas
      BY <1>1, <2>2 DEF Lbas
    <3>2. b - m <= n
      BY <1>1, <1>4, <3>1, ModFacts DEF Readable
    <3>3. ASSUME NEW l \in Asked(lba, count) PROVE l < n \/ l >= m - p
      <4>1. PICK i \in 0 .. count - 1 : l = (lba + i) % LbaMod
        BY DEF Asked
      <4>2. PICK a \in Int : a = lba + i /\ a < b /\ a >= lba
        BY <3>1 DEF Lbas
      <4>3. CASE a < m
        <5>1. a \in Lbas /\ a >= m - p
          BY <1>1, <2>2, <3>1, <4>2, <4>3 DEF Lbas
        <5> QED BY <4>1, <4>2, <5>1, ModFacts
      <4>4. CASE a >= m
        <5>1. a - m \in Lbas /\ a - m < n
          BY <1>1, <3>1, <3>2, <4>2, <4>4 DEF Lbas
        <5> QED BY <1>1, <4>1, <4>2, <5>1, ModFacts
      <4> QED BY <4>2, <4>3, <4>4
    <3>4. \A l \in last_read' : l < n \/ l >= m - p
      BY <1>4, <3>3
    <3> QED BY <1>1, <1>2, <2>2, <3>4 DEF ReadsInPartition
  <2> QED BY <2>1, <2>2
<1> QED BY <1>3, <1>4 DEF Reads, ReadFails

\* The entry of a cluster in its sector of the FAT.
LEMMA FatFacts ==
  ASSUME vol \in Volumes, NEW c, Leads(c)
  PROVE  /\ SectorNo(c) \in 0 .. FatReach - 1 /\ vol.reserved + SectorNo(c) \in Lbas
         /\ vol.reserved + SectorNo(c) + 1 < LbaMod
         /\ FatSector(SectorNo(c))[c % FAT_ENTRIES] = vol.next[c] /\ vol.next[c] \in Nat
<1>1. PICK e \in Nat \ {0}, f \in Nat, r \in Nat :
        /\ e = FAT_ENTRIES /\ f = FatReach /\ r = vol.reserved
        /\ Clusters(vol) = 0 .. e * f - 1 /\ r + f < LbaMod
  <2>1. FatReach \in Nat
    BY SizesAssumption DEF FatReach, SectorNo
  <2> QED BY <2>1, SizesAssumption, VolumesAssumption, Zenon
<1>2. c \in 0 .. e * f - 1
  BY <1>1 DEF Leads
<1>3. PICK q \in Nat, m \in 0 .. e - 1 : q = c \div e /\ m = c % e /\ c = q * e + m
  <2>1. c \in Nat
    BY <1>1, <1>2
  <2>2. PICK q \in Nat : q = c \div e
    <3>1. c \div e \in Nat
      BY <2>1
    <3> QED BY <3>1
  <2>3. PICK m \in 0 .. e - 1 : m = c % e
    BY <2>1
  <2>4. c = e * q + m
    BY <2>1, <2>2, <2>3
  <2>5. e * q = q * e
    OBVIOUS
  <2> QED BY <2>2, <2>3, <2>4, <2>5, Zenon
<1>4. q < f
  <2>1. PICK u \in Nat, v \in Nat : u = q * e /\ v = f * e /\ u < v
    BY <1>2, <1>3
  <2>2. SUFFICES ASSUME f <= q PROVE FALSE
    OBVIOUS
  <2>3. PICK d \in Nat : q = f + d
    <3>1. q - f \in Nat /\ q = f + (q - f)
      BY <2>2
    <3> QED BY <3>1
  <2>4. q * e = f * e + d * e /\ d * e \in Nat
    BY <2>3
  <2> QED BY <2>1, <2>4
<1>5. SectorNo(c) = q /\ q \in 0 .. FatReach - 1
  <2>1. SectorNo(c) = q
    BY <1>1, <1>3, Zenon DEF SectorNo
  <2>2. q \in 0 .. f - 1
    BY <1>4
  <2> QED BY <1>1, <2>1, <2>2
<1>7. r + q \in Lbas /\ r + q + 1 < LbaMod
  BY <1>1, <1>4, SizesAssumption DEF Lbas
<1>8. FatSector(q)[m] = vol.next[c]
  BY <1>1, <1>3, Zenon DEF FatSector
<1>9. vol.next[c] \in Nat
  BY VolFacts DEF Leads
<1> QED BY <1>1, <1>3, <1>5, <1>7, <1>8, <1>9, Zenon

\* fat_get_next_cluster follows the chain, or the disk fails.
LEMMA NextCluster ==
  ASSUME BaseInv, Leads(cluster), pc # "halted", NEW step \in {"scan", "read"},
         fat_get_next_cluster(step)
  PROVE  /\ ReadsInPartition' /\ s' = 0 /\ UNCHANGED <<vol, path, file, loaded>>
         /\ \/ pc' = step /\ cluster' = vol.next[cluster] /\ cluster' \in Nat /\ CacheOK'
            \/ pc' = "halted" /\ cluster' = cluster
<1>1. vol \in Volumes /\ ReadsInPartition /\ CacheOK
  BY DEF BaseInv
<1>2. s' = 0 /\ UNCHANGED <<vol, path, file, loaded>>
  BY DEF fat_get_next_cluster
<1> USE <1>1, <1>2
<1>3. PICK n : n = SectorNo(cluster)
  OBVIOUS
<1>4. /\ n \in 0 .. FatReach - 1 /\ vol.reserved + n \in Lbas /\ vol.reserved + n + 1 < LbaMod
      /\ FatSector(n)[cluster % FAT_ENTRIES] = vol.next[cluster] /\ vol.next[cluster] \in Nat
  BY <1>3, FatFacts
<1>5. \A k : FatSector(k)' = FatSector(k)
  BY Zenon DEF FatSector
<1>6. CASE /\ Reads(vol.reserved + n, 1)
           /\ fat_cache' = [valid |-> TRUE, sector_no |-> n, entry |-> FatSector(n)]
           /\ cluster' = FatSector(n)[cluster % FAT_ENTRIES] /\ pc' = step
  <2>1. ReadsInPartition'
    BY <1>4, <1>6, ReadStays
  <2>2. fat_cache'.sector_no = n /\ fat_cache'.entry = FatSector(n)'
    BY <1>5, <1>6
  <2>3. CacheOK'
    BY <1>4, <1>5, <2>2 DEF CacheOK
  <2> QED BY <1>4, <1>6, <2>1, <2>3
<1>7. CASE ReadFails(vol.reserved + n, 1) /\ UNCHANGED cluster
  <2>1. ReadsInPartition'
    BY <1>4, <1>7, ReadStays
  <2> QED BY <1>7, <2>1 DEF ReadFails
<1>8. CASE /\ ~fat_cache_is_stale(cluster) /\ cluster' = fat_cache.entry[cluster % FAT_ENTRIES]
           /\ pc' = step /\ UNCHANGED <<fat_cache, last_read>>
  <2>1. fat_cache.valid /\ fat_cache.sector_no = n
    BY <1>3, <1>8 DEF fat_cache_is_stale
  <2>2. fat_cache.entry = FatSector(n)
    BY <2>1 DEF CacheOK
  <2>3. CacheOK'
    BY <1>4, <1>5, <1>8, <2>1, <2>2 DEF CacheOK
  <2>4. ReadsInPartition'
    BY <1>8 DEF ReadsInPartition, Fits
  <2> QED BY <1>4, <1>8, <2>2, <2>3, <2>4
<1> QED BY <1>3, <1>6, <1>7, <1>8, Zenon DEF fat_get_next_cluster

-----------------------------------------------------------------------------

LEMMA Halts ==
  ASSUME FatInv, pc' = "halted", vol' = vol, cluster' \in Nat, s' \in Nat, ReadsInPartition',
         file' \in [directory : BOOLEAN, cluster : Nat]
  PROVE  FatInv'
BY DEF FatInv, BaseInv, LookupInv, ScanInv, LoadInv, CacheOK

LEMMA FailHalts ==
  ASSUME FatInv, NEW pc0, Fail(pc0)
  PROVE  FatInv'
<1>1. /\ pc' = "halted" /\ vol' = vol /\ cluster' = cluster /\ s' = s /\ file' = file
      /\ last_read' = last_read
  BY DEF Fail
<1>2. cluster' \in Nat /\ s' \in Nat /\ file' \in [directory : BOOLEAN, cluster : Nat]
  BY <1>1 DEF FatInv, BaseInv
<1>3. ReadsInPartition'
  BY <1>1 DEF FatInv, BaseInv, ReadsInPartition, Fits
<1> QED BY <1>1, <1>2, <1>3, Halts

LEMMA fat_dev_initFat == FatInv /\ fat_dev_init => FatInv'
<1> SUFFICES ASSUME FatInv, fat_dev_init PROVE FatInv'
  OBVIOUS
<1>1. /\ vol \in Volumes /\ ReadsInPartition /\ cluster \in Nat /\ s \in Nat /\ CacheOK
      /\ file \in [directory : BOOLEAN, cluster : Nat]
  BY DEF FatInv, BaseInv
<1>2. pc = "fat_dev_init" /\ UNCHANGED <<vol, path, file, cluster, s, fat_cache, loaded>>
  BY DEF fat_dev_init
<1> USE <1>1, <1>2
<1>3. 0 \in Lbas /\ 0 + 1 < LbaMod
  BY SizesAssumption DEF Lbas
<1>4. ReadsInPartition'
  <2>1. Reads(0, 1) \/ ReadFails(0, 1)
    BY Zenon DEF fat_dev_init
  <2> QED BY <1>3, <2>1, ReadStays
<1>5. CASE pc' = "path_lookup"
  <2>1. CacheOK'
    BY SameCache
  <2>2. BaseInv'
    BY <1>4, <1>5, <2>1 DEF BaseInv
  <2>3. AtRoot'
    BY SameLookup DEF FatInv, LookupInv
  <2>4. LookupInv' /\ LoadInv'
    BY <1>5, <2>3 DEF LookupInv, LoadInv
  <2>5. ScanInv'
    BY <1>5 DEF FatInv, ScanInv
  <2> QED BY <2>2, <2>4, <2>5 DEF FatInv
<1>6. CASE pc' = "halted"
  BY <1>4, <1>6, Halts
<1> QED BY <1>5, <1>6 DEF fat_dev_init, ReadFails

\* The path of a chain's first cluster.
LEMMA PathStarts ==
  ASSUME NEW c \in Nat
  PROVE  \E w : IsPath(w, 0, c) /\ w[0] = c
<1>1. PICK w \in [0 .. 0 -> Nat] : w[0] = c
  <2>1. [i \in 0 .. 0 |-> c] \in [0 .. 0 -> Nat] /\ [i \in 0 .. 0 |-> c][0] = c
    OBVIOUS
  <2> QED BY <2>1, Zenon
<1>2. \A i \in 0 .. 0 - 1 : FALSE
  OBVIOUS
<1> QED BY <1>1, <1>2 DEF IsPath

LEMMA path_lookupFat == FatInv /\ path_lookup => FatInv'
<1> SUFFICES ASSUME FatInv, path_lookup PROVE FatInv'
  OBVIOUS
<1>1. /\ vol \in Volumes /\ ReadsInPartition /\ CacheOK
      /\ file \in [directory : BOOLEAN, cluster : Nat] /\ loaded = <<>>
      /\ AtRoot \/ InFirst \/ AtFile
  BY DEF FatInv, BaseInv, path_lookup, LookupInv, ScanInv
<1>2. /\ pc = "path_lookup" /\ UNCHANGED <<vol, path, file, fat_cache, loaded, last_read>>
      /\ cluster' = file.cluster /\ s' = 0 /\ cluster' \in Nat
  BY <1>1 DEF path_lookup
<1> USE <1>1, <1>2
<1>3. ReadsInPartition'
  BY DEF ReadsInPartition, Fits
<1>4. CacheOK'
  BY SameCache
<1>5. pc' \in {"read", "scan"} /\ (pc' = "read" <=> path = <<>>)
  BY DEF path_lookup
<1>6. BaseInv'
  <2>1. vol.spc \in Nat
    BY VolFacts
  <2> QED BY <1>3, <1>4, <1>5, <2>1 DEF BaseInv
<1>7. PICK w : IsPath(w, 0, file.cluster) /\ w[0] = file.cluster
  BY PathStarts
<1>8. IsPath(w, 0, file.cluster)'
  BY <1>7, SameVolume
<1>9. CASE pc' = "read"
  <2>1. AtFile'
    BY <1>5, <1>9, SameLookup, PathAssumption DEF AtRoot, InFirst
  <2>2. LookupInv' /\ ScanInv'
    BY <1>9, <2>1 DEF LookupInv, ScanInv
  <2>3. Loads(w, 0)'
    <3>1. vol.spc \in Nat
      BY VolFacts
    <3>2. loaded' \in Seq(Lbas) /\ Len(loaded') = 0 * vol.spc
      BY <3>1
    <3>3. \A j \in 0 .. 0 - 1 : FALSE
      OBVIOUS
    <3>4. Holds(loaded', w, 0)
      BY <3>2, <3>3, Zenon DEF Holds
    <3> QED BY <3>2, <3>4, NextLoads
  <2>4. LoadInv'
    BY <1>7, <1>8, <1>9, <2>3 DEF LoadInv
  <2> QED BY <1>6, <2>2, <2>4 DEF FatInv
<1>10. CASE pc' = "scan"
  <2>1. path # <<>> /\ file.directory /\ (AtRoot \/ InFirst)
    BY <1>5, <1>10 DEF path_lookup, AtFile
  <2>2. (AtRoot \/ InFirst)'
    BY <2>1, SameLookup
  <2>3. LookupInv' /\ LoadInv'
    BY <1>10, <2>1, <2>2 DEF LookupInv, LoadInv
  <2>4. Searched(0)'
    <3>1. \A c, m, t : m = 0 => Clear(c, m, t)'
      BY DEF Clear
    <3>2. \A j \in 0 .. 0 - 1 : FALSE
      OBVIOUS
    <3> QED BY <1>7, <1>8, <3>1, <3>2 DEF Searched
  <2>5. ScanInv'
    BY <1>10, <2>4 DEF ScanInv
  <2> QED BY <1>6, <2>3, <2>5 DEF FatInv
<1> QED BY <1>5, <1>9, <1>10

LEMMA not_a_directoryFat == FatInv /\ not_a_directory => FatInv'
BY FailHalts DEF not_a_directory

LEMMA not_foundFat == FatInv /\ not_found => FatInv'
BY FailHalts DEF not_found

LEMMA dir_nextFat == FatInv /\ dir_next => FatInv'
<1> SUFFICES ASSUME FatInv, dir_next PROVE FatInv'
  OBVIOUS
<1>0. /\ BaseInv /\ vol \in Volumes /\ pc = "scan" /\ InChain(cluster) /\ cluster \in Nat
      /\ file \in [directory : BOOLEAN, cluster : Nat] /\ loaded = <<>>
      /\ file.directory /\ (AtRoot \/ InFirst) /\ Searched(s)
      /\ s \in Nat /\ s <= vol.spc /\ s >= vol.spc
  BY DEF FatInv, BaseInv, dir_next, LookupInv, ScanInv
<1>1. Leads(cluster) /\ s = vol.spc /\ Searched(vol.spc)
  <2>1. s = vol.spc
    BY <1>0, VolFacts
  <2> QED BY <1>0, <2>1, InFat
<1>2. /\ ReadsInPartition' /\ s' = 0 /\ UNCHANGED <<vol, path, file, loaded>>
      /\ \/ pc' = "scan" /\ cluster' = vol.next[cluster] /\ cluster' \in Nat /\ CacheOK'
         \/ pc' = "halted" /\ cluster' = cluster
  BY <1>0, <1>1, NextCluster DEF dir_next
<1> USE <1>0, <1>1, <1>2
<1>3. CASE pc' = "scan" /\ cluster' = vol.next[cluster] /\ cluster' \in Nat /\ CacheOK'
  <2>1. vol.spc \in Nat
    BY VolFacts
  <2>2. BaseInv'
    BY <1>3, <2>1 DEF BaseInv
  <2>3. (AtRoot \/ InFirst)' /\ Target' = Target
    BY SameLookup
  <2>4. LookupInv' /\ LoadInv'
    BY <1>3, <2>3 DEF LookupInv, LoadInv
  <2>5. PICK k \in Nat : \E w :
          /\ IsPath(w, k, file.cluster) /\ cluster = w[k]
          /\ \A j \in 0 .. k - 1 : Clear(w[j], vol.spc, Target)
          /\ Clear(cluster, vol.spc, Target)
    BY DEF Searched
  <2>6. PICK w :
          /\ IsPath(w, k, file.cluster) /\ cluster = w[k]
          /\ \A j \in 0 .. k - 1 : Clear(w[j], vol.spc, Target)
          /\ Clear(cluster, vol.spc, Target)
    BY <2>5, Zenon
  <2>7. PICK v : /\ IsPath(v, k + 1, file.cluster) /\ v[k + 1] = vol.next[cluster]
                 /\ \A i \in 0 .. k : v[i] = w[i]
    BY <1>3, <2>6, PathExtends
  <2>8. IsPath(v, k + 1, file.cluster)'
    BY <2>7, SameVolume, Zenon
  <2>9. \A j \in 0 .. (k + 1) - 1 : Clear(v[j], vol.spc, Target)'
    <3>1. SUFFICES ASSUME NEW j \in 0 .. (k + 1) - 1 PROVE Clear(v[j], vol.spc, Target)'
      OBVIOUS
    <3>2. v[j] = w[j] /\ (j \in 0 .. k - 1 \/ j = k)
      BY <2>7
    <3>3. Clear(v[j], vol.spc, Target)
      BY <2>6, <3>2
    <3> QED BY <2>3, <3>3, SameVolume
  <2>10. Clear(cluster, 0, Target)'
    BY DEF Clear
  <2>11. Searched(0)'
    <3>1. k + 1 \in Nat /\ cluster' = v[k + 1]
      BY <1>3, <2>7
    <3> QED BY <2>8, <2>9, <2>10, <3>1, Zenon DEF Searched
  <2>12. ScanInv'
    BY <1>3, <2>11 DEF ScanInv
  <2> QED BY <2>2, <2>4, <2>12 DEF FatInv
<1>4. CASE pc' = "halted" /\ cluster' = cluster
  BY <1>4, Halts
<1> QED BY <1>3, <1>4

LEMMA nextFat == FatInv /\ next => FatInv'
<1> SUFFICES ASSUME FatInv, next PROVE FatInv'
  OBVIOUS
<1>1. /\ BaseInv /\ vol \in Volumes /\ pc = "next" /\ Leads(cluster) /\ cluster \in Nat
      /\ file \in [directory : BOOLEAN, cluster : Nat] /\ AtFile
  BY DEF FatInv, BaseInv, next, LookupInv
<1>2. /\ ReadsInPartition' /\ s' = 0 /\ UNCHANGED <<vol, path, file, loaded>>
      /\ \/ pc' = "read" /\ cluster' = vol.next[cluster] /\ cluster' \in Nat /\ CacheOK'
         \/ pc' = "halted" /\ cluster' = cluster
  BY <1>1, NextCluster DEF next
<1> USE <1>1, <1>2
<1>3. CASE pc' = "read" /\ cluster' = vol.next[cluster] /\ cluster' \in Nat /\ CacheOK'
  <2>1. BaseInv'
    BY <1>3 DEF BaseInv
  <2>2. AtFile'
    BY SameLookup
  <2>3. LookupInv' /\ ScanInv'
    BY <1>3, <2>2 DEF LookupInv, ScanInv
  <2>4. PICK k \in Nat : \E w :
          IsPath(w, k, file.cluster) /\ cluster = w[k] /\ Loads(w, k + 1)
    BY DEF FatInv, LoadInv
  <2>5. PICK w : IsPath(w, k, file.cluster) /\ cluster = w[k] /\ Loads(w, k + 1)
    BY <2>4
  <2>6. PICK v : /\ IsPath(v, k + 1, file.cluster) /\ v[k + 1] = vol.next[cluster]
                 /\ \A i \in 0 .. k : v[i] = w[i]
    <3>1. Leads(w[k]) /\ vol.next[w[k]] \in Nat
      BY <1>3, <2>5
    <3> QED BY <2>5, <3>1, PathExtends
  <2>7. k + 1 \in Nat /\ \A i \in 0 .. (k + 1) - 1 : w[i] = v[i]
    BY <2>6
  <2>8. Loads(v, k + 1)
    BY <2>5, <2>7, Zenon DEF Loads, Holds
  <2>9. Loads(v, k + 1)'
    BY <2>8, SameLoads
  <2>10. IsPath(v, k + 1, file.cluster)'
    BY <2>6, SameVolume
  <2>11. LoadInv'
    BY <1>3, <2>6, <2>7, <2>9, <2>10 DEF LoadInv
  <2> QED BY <2>1, <2>3, <2>11 DEF FatInv
<1>4. CASE pc' = "halted" /\ cluster' = cluster
  BY <1>4, Halts
<1> QED BY <1>3, <1>4

LEMMA kernel64_entryFat == FatInv /\ kernel64_entry => FatInv'
<1> SUFFICES ASSUME FatInv, kernel64_entry PROVE FatInv'
  OBVIOUS
<1>1. /\ pc = "read" /\ ~InChain(cluster) /\ pc' = "kernel"
      /\ UNCHANGED <<vol, path, file, cluster, s, fat_cache, loaded, last_read>>
  BY DEF kernel64_entry
<1> USE <1>1
<1>2. CacheOK' /\ ReadsInPartition'
  <2>1. \A k : FatSector(k)' = FatSector(k)
    BY Zenon DEF FatSector
  <2> QED BY <2>1 DEF FatInv, BaseInv, CacheOK, ReadsInPartition, Fits
<1>3. ~InChain(cluster)'
  BY DEF InChain
<1>4. BaseInv'
  BY <1>2, <1>3 DEF FatInv, BaseInv
<1>5. AtFile'
  BY SameLookup DEF FatInv, LookupInv
<1>6. LookupInv' /\ ScanInv'
  BY <1>5 DEF LookupInv, ScanInv
<1>7. PICK k \in Nat : \E w : IsPath(w, k, file.cluster) /\ cluster = w[k] /\ Loads(w, k)
  BY DEF FatInv, LoadInv
<1>8. PICK w : IsPath(w, k, file.cluster) /\ cluster = w[k] /\ Loads(w, k)
  BY <1>7
<1>9. IsPath(w, k, file.cluster)' /\ cluster' = w[k]
  BY <1>8, SameVolume
<1>10. Loads(w, k)'
  BY <1>8, SameLoads
<1>11. LoadInv'
  BY <1>9, <1>10 DEF LoadInv
<1> QED BY <1>4, <1>6, <1>11 DEF FatInv

\* One more cluster of a chain that does not return fits in the memory told apart.
LEMMA LoadGrows ==
  ASSUME vol \in Volumes, NEW k \in Nat, NEW w, NEW c \in Nat, IsPath(w, k, c), Leads(w[k]),
         Loads(w, k), NEW l,
         l = IF Len(loaded) < MaxLoaded THEN loaded \o Sectors(w[k]) ELSE loaded,
         k + 1 <= NrClusters
  PROVE  l \in Seq(Lbas) /\ Holds(l, w, k + 1)
<1>1. PICK n \in Nat, p \in Nat : n = NrClusters /\ p = vol.spc
  BY VolFacts
<1>2. n * p <= MaxLoaded /\ MaxLoaded \in Nat \ {0}
  BY <1>1, VolFacts, SizesAssumption
<1>3. loaded \in Seq(Lbas) /\ Holds(loaded, w, k) /\ Len(loaded) = k * p
  BY <1>1 DEF Loads, Holds
<1>4. k * p < MaxLoaded
  <2>1. PICK d \in Nat : n = k + 1 + d
    <3>1. n - k - 1 \in Nat /\ n = k + 1 + (n - k - 1)
      BY <1>1
    <3> QED BY <3>1
  <2>2. n * p = k * p + p + d * p /\ d * p \in Nat /\ k * p \in Nat
    BY <2>1
  <2>3. PICK x \in Nat, y \in Nat, z \in Nat : x = n * p /\ y = k * p /\ z = d * p /\ x = y + p + z
    BY <2>2
  <2>4. CASE p = 0
    <3>1. y = 0
      BY <2>3, <2>4
    <3> QED BY <1>2, <2>3, <3>1
  <2>5. CASE p # 0
    BY <1>2, <2>3, <2>5
  <2> QED BY <2>4, <2>5
<1>5. l = loaded \o Sectors(w[k])
  BY <1>3, <1>4
<1> QED BY <1>3, <1>5, HoldsGrows, Zenon

LEMMA readFat == FatInv /\ read => FatInv'
<1> SUFFICES ASSUME FatInv, read PROVE FatInv'
  OBVIOUS
<1>1. /\ vol \in Volumes /\ pc = "read" /\ InChain(cluster) /\ cluster \in Nat /\ s \in Nat
      /\ file \in [directory : BOOLEAN, cluster : Nat] /\ AtFile /\ CacheOK /\ ReadsInPartition
  BY DEF FatInv, BaseInv, read, LookupInv
<1>2. UNCHANGED <<vol, path, file, cluster, s, fat_cache>>
  BY DEF read
<1> USE <1>1, <1>2
<1>3. PICK l \in Lbas, p \in Nat : l = Lba(cluster) /\ p = vol.spc /\ (Fits(vol) => l + p < LbaMod)
  <2>1. Lba(cluster) \in Lbas
    BY LbaFacts
  <2> QED BY <2>1, FitsFacts, VolFacts
<1>4. ReadsInPartition'
  <2>1. Reads(l, p) \/ ReadFails(l, p)
    BY <1>3, Zenon DEF read
  <2> QED BY <1>3, <2>1, ReadStays
<1>5. CASE /\ Reads(l, p) /\ pc' = "next"
           /\ loaded' = IF Len(loaded) < MaxLoaded THEN loaded \o Sectors(cluster) ELSE loaded
  <2>1. Leads(cluster)
    BY InFat
  <2>2. Leads(cluster)'
    BY <2>1 DEF Leads, InChain, Clusters
  <2>3. CacheOK'
    BY SameCache
  <2>4. BaseInv'
    BY <1>4, <1>5, <2>2, <2>3 DEF BaseInv
  <2>5. AtFile'
    BY SameLookup
  <2>6. LookupInv' /\ ScanInv'
    BY <1>5, <2>5 DEF LookupInv, ScanInv
  <2>7. PICK k \in Nat : \E w : IsPath(w, k, file.cluster) /\ cluster = w[k] /\ Loads(w, k)
    BY DEF FatInv, LoadInv
  <2>8. PICK w : IsPath(w, k, file.cluster) /\ cluster = w[k] /\ Loads(w, k)
    BY <2>7
  <2>9. PICK c \in Nat : c = file.cluster
    OBVIOUS
  <2>10. k + 1 <= NrClusters =>
           loaded' \in Seq(Lbas) /\ Holds(loaded', w, k + 1)
    BY <1>5, <2>1, <2>8, <2>9, LoadGrows, Zenon
  <2>11. Loads(w, k + 1)'
    BY <2>10, NextLoads
  <2>12. IsPath(w, k, file.cluster)' /\ cluster' = w[k]
    BY <2>8, SameVolume
  <2>13. LoadInv'
    BY <1>5, <2>11, <2>12 DEF LoadInv
  <2> QED BY <2>4, <2>6, <2>13 DEF FatInv
<1>6. CASE ReadFails(l, p)
  <2>1. pc' = "halted"
    BY <1>6 DEF ReadFails
  <2> QED BY <1>4, <2>1, Halts
<1> QED BY <1>3, <1>5, <1>6, Zenon DEF read

LEMMA StutterFat == FatInv /\ UNCHANGED vars => FatInv'
<1> SUFFICES ASSUME FatInv, UNCHANGED vars PROVE FatInv'
  OBVIOUS
<1>1. UNCHANGED <<pc, vol, path, file, cluster, s, fat_cache, loaded, last_read>>
  BY DEF vars
<1> USE <1>1
<1>2. CacheOK' /\ ReadsInPartition'
  <2>1. \A k : FatSector(k)' = FatSector(k)
    BY Zenon DEF FatSector
  <2> QED BY <2>1 DEF FatInv, BaseInv, CacheOK, ReadsInPartition, Fits
<1>3. BaseInv'
  BY <1>2, SameVolume, Zenon DEF FatInv, BaseInv, Leads, InChain, Clusters
<1>4. LookupInv'
  BY SameLookup DEF FatInv, LookupInv
<1>5. ScanInv'
  <2>1. PICK a : a = s
    OBVIOUS
  <2>2. Searched(a) => Searched(a)'
    BY SameSearched
  <2> QED BY <2>1, <2>2 DEF FatInv, ScanInv
<1>6. LoadInv'
  <2>1. \A w, k : Loads(w, k)' <=> Loads(w, k)
    BY SameLoads
  <2>2. \A w, k : IsPath(w, k, file.cluster)' <=> IsPath(w, k, file.cluster)
    BY SameVolume
  <2> QED BY <2>1, <2>2 DEF FatInv, LoadInv
<1> QED BY <1>3, <1>4, <1>5, <1>6 DEF FatInv

-----------------------------------------------------------------------------

\* The step of scan that finds e, the entry with the name.
Found(entries, stops, e) ==
  /\ entries = vol.dirs[SectorAt(cluster, s)] /\ Leads(cluster)
  /\ stops = Stops(entries, Target) /\ stops # {}
  /\ e = entries[Min(stops)] /\ ~IsLast(e)
  /\ pc' = "path_lookup" /\ file' = FileOf(e)
  /\ path' = AfterSlash(path) /\ s' = s + 1

LEMMA FoundFat ==
  ASSUME FatInv, scan, NEW entries, NEW stops, NEW e, Found(entries, stops, e),
         ReadsInPartition'
  PROVE  FatInv'
<1>1. /\ vol \in Volumes /\ pc = "scan" /\ cluster \in Nat /\ s \in Nat /\ s < vol.spc
      /\ file \in [directory : BOOLEAN, cluster : Nat] /\ CacheOK
  BY Zenon DEF FatInv, BaseInv, scan
<1>2. UNCHANGED <<vol, cluster, fat_cache, loaded>>
  BY Zenon DEF scan
<1>20. file.directory /\ (AtRoot \/ InFirst) /\ Searched(s) /\ loaded = <<>>
  BY <1>1 DEF FatInv, LookupInv, ScanInv
<1>21. /\ pc' = "path_lookup" /\ file' = FileOf(e)
       /\ path' = AfterSlash(path) /\ s' \in Nat
  BY <1>1 DEF Found
<1>22. /\ entries = vol.dirs[SectorAt(cluster, s)] /\ Leads(cluster)
       /\ stops = Stops(entries, Target) /\ stops # {}
       /\ e = entries[Min(stops)] /\ ~IsLast(e)
  BY Zenon DEF Found
<1>3. PICK k \in Nat : \E w :
        /\ IsPath(w, k, file.cluster) /\ cluster = w[k]
        /\ \A j \in 0 .. k - 1 : Clear(w[j], vol.spc, Target)
        /\ Clear(cluster, s, Target)
  BY <1>20 DEF Searched
<1>4. PICK w :
        /\ IsPath(w, k, file.cluster) /\ cluster = w[k]
        /\ \A j \in 0 .. k - 1 : Clear(w[j], vol.spc, Target)
        /\ Clear(cluster, s, Target)
  BY <1>3, Zenon
<1>5. PICK c \in Nat : c = file.cluster
  BY <1>1
<1>6. PICK t \in 0 .. vol.spc - 1 : t = s
  BY <1>1, VolFacts
<1>7. PICK target : target = Target
  OBVIOUS
<1>8. /\ SectorAt(cluster, s) \in Lbas /\ Min(stops) \in DOMAIN entries
      /\ Names(file.cluster, Target, e)
  <2>1. /\ IsPath(w, k, c) /\ Leads(w[k]) /\ entries = vol.dirs[SectorAt(w[k], t)]
        /\ \A j \in 0 .. k - 1 : Clear(w[j], vol.spc, target)
        /\ Clear(w[k], t, target) /\ stops = Stops(entries, target)
    BY <1>4, <1>5, <1>6, <1>7, <1>22, Zenon
  <2>2. ~IsLast(entries[Min(Stops(entries, target))]) /\ Stops(entries, target) # {}
    BY <1>22, <2>1, Zenon
  <2>3. /\ SectorAt(w[k], t) \in Lbas
        /\ Min(Stops(entries, target)) \in DOMAIN entries
        /\ Names(c, target, entries[Min(Stops(entries, target))])
    BY <1>1, <2>1, <2>2, FoundNames, Zenon
  <2> QED BY <1>4, <1>5, <1>6, <1>7, <1>22, <2>1, <2>3, Zenon
<1>9. e \in AllEntries /\ e.directory \in BOOLEAN /\ e.cluster \in Nat
  <2>1. PICK l : l = SectorAt(cluster, s)
    OBVIOUS
  <2>2. l \in DOMAIN vol.dirs /\ entries = vol.dirs[l] /\ entries \in Seq(Entries)
    BY <1>1, <1>8, <1>22, <2>1, DirSector, Zenon
  <2>3. PICK i \in DOMAIN entries : e = entries[i]
    BY <1>8, <1>22, Zenon
  <2>4. e \in Entries
    BY <2>2, <2>3
  <2>5. e \in Range(vol.dirs[l])
    BY <2>2, <2>3 DEF Range
  <2> QED BY <2>2, <2>4, <2>5 DEF AllEntries, Entries
<1>10. file' \in [directory : BOOLEAN, cluster : Nat]
  BY <1>9, <1>21 DEF FileOf
<1>11. CacheOK'
  BY <1>1, <1>2, SameCache
<1>12. BaseInv'
  <2>1. vol' \in Volumes /\ cluster' \in Nat
    BY <1>1, <1>2
  <2> QED BY <1>10, <1>11, <1>21, <2>1 DEF BaseInv
<1>13. e \in AllEntries' /\ \A d, n, f : Names(d, n, f)' <=> Names(d, n, f)
  <2>1. e \in AllEntries'
    BY <1>2, <1>9 DEF AllEntries
  <2> QED BY <1>1, <1>2, <2>1, SameNames
<1>14. ASSUME AtRoot PROVE InFirst'
  <2>1. file.cluster = vol.root /\ Target = Components[1] /\ path' = AfterSlash(KERNEL_FILE)
    BY <1>14, <1>21, PathAssumption DEF AtRoot, Root, Target
  <2>2. Names(vol.root, Components[1], e)
    BY <1>8, <2>1, Zenon
  <2>3. Names(vol.root, Components[1], e)'
    BY <1>2, <1>13, <2>2
  <2>4. vol' = vol
    BY <1>2
  <2> QED BY <1>13, <1>21, <2>1, <2>3, <2>4, Zenon DEF InFirst, FileOf
<1>15. ASSUME InFirst PROVE AtFile'
  <2>1. PICK e1 \in AllEntries : Names(vol.root, Components[1], e1) /\ file = FileOf(e1)
    BY <1>15 DEF InFirst
  <2>2. file.cluster = e1.cluster /\ e1.directory /\ Target = Components[2] /\ path' = <<>>
    BY <1>15, <1>20, <1>21, <2>1, PathAssumption DEF InFirst, FileOf, Target
  <2>3. Names(e1.cluster, Components[2], e)
    BY <1>8, <2>2
  <2>4. Names(vol.root, Components[1], e1)' /\ Names(e1.cluster, Components[2], e)'
    BY <1>2, <1>13, <2>1, <2>3, Zenon
  <2>5. e1 \in AllEntries'
    BY <1>2, <2>1 DEF AllEntries
  <2> QED BY <1>13, <1>21, <2>2, <2>4, <2>5, Zenon DEF AtFile, FileOf
<1>16. LookupInv' /\ LoadInv'
  <2>1. (InFirst \/ AtFile)'
    BY <1>14, <1>15, <1>20
  <2>2. loaded' = <<>>
    BY <1>2, <1>20
  <2> QED BY <1>21, <2>1, <2>2 DEF LookupInv, LoadInv
<1>17. ScanInv'
  BY <1>2, <1>20, <1>21 DEF ScanInv
<1> QED BY <1>12, <1>16, <1>17 DEF FatInv

\* The step of scan over a sector, the m-th of the cluster, that stops the search nowhere.
NotFound(m) ==
  /\ m = s + 1 /\ s' = m /\ Leads(cluster)
  /\ Stops(vol.dirs[SectorAt(cluster, s)], Target) = {}
  /\ pc' = "scan"
  /\ UNCHANGED <<file, path>>

LEMMA NotFoundFat ==
  ASSUME FatInv, scan, NEW m \in Nat, NotFound(m), ReadsInPartition'
  PROVE  FatInv'
<1>1. /\ vol \in Volumes /\ pc = "scan" /\ cluster \in Nat /\ s \in Nat /\ s < vol.spc
      /\ file \in [directory : BOOLEAN, cluster : Nat] /\ CacheOK
  BY Zenon DEF FatInv, BaseInv, scan
<1>2. UNCHANGED <<vol, cluster, fat_cache, loaded, file, path>>
  BY Zenon DEF scan, NotFound
<1>20. file.directory /\ (AtRoot \/ InFirst) /\ Searched(s) /\ loaded = <<>>
  BY <1>1 DEF FatInv, LookupInv, ScanInv
<1>21. m = s + 1 /\ s' = m /\ pc' = "scan" /\ Leads(cluster)
  BY DEF NotFound
<1>3. Leads(cluster)'
  BY <1>2, <1>21 DEF Leads, InChain, Clusters
<1>4. CacheOK'
  BY <1>1, <1>2, SameCache
<1>5. BaseInv'
  <2>1. /\ vol' \in Volumes /\ cluster' \in Nat /\ s' \in Nat
        /\ file' \in [directory : BOOLEAN, cluster : Nat]
    BY <1>1, <1>2, <1>21
  <2>2. pc' = "scan" /\ s' <= vol'.spc
    BY <1>1, <1>2, <1>21, VolFacts
  <2> QED BY <1>3, <1>4, <2>1, <2>2 DEF BaseInv
<1>6. (AtRoot \/ InFirst)'
  BY <1>1, <1>2, <1>20, SameLookup
<1>7. LookupInv' /\ LoadInv'
  <2>1. /\ file'.directory /\ loaded' = <<>> /\ pc' = "scan"
    BY <1>2, <1>20, <1>21
  <2> QED BY <1>6, <2>1 DEF LookupInv, LoadInv
<1>8. Searched(m)
  <2>1. Clear(cluster, s, Target) => Clear(cluster, m, Target)
    <3>1. \A i \in 0 .. m - 1 : i \in 0 .. s - 1 \/ i = s
      BY <1>1, <1>21
    <3>2. Stops(vol.dirs[SectorAt(cluster, s)], Target) = {}
      BY DEF NotFound
    <3> QED BY <3>1, <3>2, Zenon DEF Clear
  <2> QED BY <1>20, <2>1, Zenon DEF Searched
<1>9. Searched(m)'
  BY <1>1, <1>2, <1>8, SameSearched
<1>10. ScanInv'
  BY <1>2, <1>9, <1>20, <1>21 DEF ScanInv
<1> QED BY <1>5, <1>7, <1>10 DEF FatInv

LEMMA scanFat == FatInv /\ scan => FatInv'
<1> SUFFICES ASSUME FatInv, scan PROVE FatInv'
  OBVIOUS
<1>1. /\ vol \in Volumes /\ pc = "scan" /\ InChain(cluster) /\ cluster \in Nat
      /\ s \in Nat /\ s < vol.spc
      /\ file \in [directory : BOOLEAN, cluster : Nat] /\ ReadsInPartition
  BY Zenon DEF FatInv, BaseInv, scan
<1>2. UNCHANGED <<vol, cluster, fat_cache, loaded>>
  BY Zenon DEF scan
<1> USE <1>1, <1>2
<1>3. PICK l \in Lbas :
        l = SectorAt(cluster, s) /\ (l + 1 < LbaMod \/ (1 <= vol.spc /\ ~Fits(vol)))
  <2>1. s \in 0 .. vol.spc - 1 /\ 1 <= vol.spc
    BY VolFacts
  <2>2. SectorAt(cluster, s) \in Lbas
    BY LbaFacts
  <2> QED BY <2>1, <2>2, FitsFacts
<1>4. PICK entries : entries = vol.dirs[l]
  OBVIOUS
<1>5. PICK stops : stops = Stops(entries, Target)
  OBVIOUS
<1>6. PICK e : e = entries[Min(stops)]
  OBVIOUS
<1>7. \/ /\ Reads(l, 1)
         /\ pc' = IF stops # {} /\ ~IsLast(e) THEN "path_lookup"
                  ELSE IF stops # {} THEN "halted" ELSE "scan"
         /\ file' = IF stops # {} /\ ~IsLast(e) THEN FileOf(e) ELSE file
         /\ path' = IF stops # {} /\ ~IsLast(e) THEN AfterSlash(path) ELSE path
         /\ s' = s + 1
      \/ ReadFails(l, 1) /\ UNCHANGED <<file, path, s>>
  BY <1>3, <1>4, <1>5, <1>6, Zenon DEF scan, Target, FileOf
<1>8. ReadsInPartition'
  <2>1. Reads(l, 1) \/ ReadFails(l, 1)
    BY <1>7, Zenon
  <2> QED BY <1>3, <2>1, ReadStays
<1>9. Leads(cluster)
  BY InFat
<1>10. CASE Reads(l, 1) /\ stops # {} /\ ~IsLast(e) /\ s' = s + 1
  <2>1. pc' = "path_lookup" /\ file' = FileOf(e) /\ path' = AfterSlash(path)
    BY <1>7, <1>10 DEF ReadFails
  <2>2. Found(entries, stops, e)
    BY <1>3, <1>4, <1>5, <1>6, <1>9, <1>10, <2>1, Zenon DEF Found
  <2> QED BY <1>8, <2>2, FoundFat
<1>11. CASE Reads(l, 1) /\ stops = {} /\ s' = s + 1 /\ UNCHANGED <<file, path>>
            /\ pc' = "scan"
  <2>1. PICK m \in Nat : m = s + 1
    OBVIOUS
  <2>2. NotFound(m)
    BY <1>3, <1>4, <1>5, <1>9, <1>11, <2>1, Zenon DEF NotFound
  <2> QED BY <1>8, <2>1, <2>2, NotFoundFat
<1>12. CASE pc' = "halted" /\ file' = file /\ (s' = s \/ s' = s + 1)
  <2>1. s' \in Nat
    BY <1>12
  <2> QED BY <1>8, <1>12, <2>1, Halts
<1> QED BY <1>7, <1>10, <1>11, <1>12 DEF ReadFails

LEMMA NextFat == FatInv /\ [Next]_vars => FatInv'
BY fat_dev_initFat, path_lookupFat, not_a_directoryFat, scanFat, not_foundFat, dir_nextFat,
   readFat, nextFat, kernel64_entryFat, StutterFat DEF Next, Ended

\* FatInv holds in every state the loader reaches, on every disk.
THEOREM FatInvariant == Spec => []FatInv
BY InitFat, NextFat, PTL DEF Spec

\* On every disk, whatever its header, its FAT and its directories say, and whichever
\* reads fail, fat_read_sectors passes on no sector behind the partition, none that is
\* more than a cluster before it (which takes a 32-bit sum that wraps), and only
\* sectors of the partition when the header Fits.
THEOREM ReadsCorrect == Spec => []ReadsInPartition
<1>1. FatInv => ReadsInPartition
  BY DEF FatInv, BaseInv
<1> QED BY <1>1, FatInvariant, PTL

\* On every disk, the header of which may say anything, entry() calls the kernel only
\* when fat_path_lookup has found KERNEL_FILE and fat_read has loaded the sectors of
\* its chain, in their order.
THEOREM LoadCorrect == Spec => []LoadedIsFile
<1>1. ASSUME FatInv, pc = "kernel" PROVE LoadedIsFile
  <2>1. /\ vol \in Volumes /\ ~Leads(cluster) /\ AtFile
        /\ file \in [directory : BOOLEAN, cluster : Nat]
    BY <1>1 DEF FatInv, BaseInv, LookupInv, Leads
  <2>2. PICK k \in Nat : \E w : IsPath(w, k, file.cluster) /\ cluster = w[k] /\ Loads(w, k)
    BY <1>1 DEF FatInv, LoadInv
  <2>3. PICK w : IsPath(w, k, file.cluster) /\ cluster = w[k] /\ Loads(w, k)
    BY <2>2
  <2>4. PICK c \in Nat : c = file.cluster
    BY <2>1
  <2>5. k <= NrClusters /\ \A q : Holds(q, w, k) => HoldsChain(q, c)
    BY <2>1, <2>3, <2>4, ChainOfPath
  <2>6. HoldsChain(loaded, c)
    BY <2>3, <2>5 DEF Loads
  <2>7. PICK e1 \in AllEntries, e2 \in AllEntries :
          /\ Names(vol.root, Components[1], e1) /\ e1.directory
          /\ Names(e1.cluster, Components[2], e2) /\ file = FileOf(e2)
    BY <2>1 DEF AtFile
  <2>8. HoldsChain(loaded, e2.cluster)
    BY <2>4, <2>6, <2>7 DEF FileOf
  <2> QED BY <2>7, <2>8, Zenon DEF LoadedIsFile, AllEntries
<1>2. FatInv => LoadedIsFile
  BY <1>1, Zenon DEF LoadedIsFile
<1> QED BY <1>2, FatInvariant, PTL
=============================================================================
