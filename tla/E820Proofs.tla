----------------------------- MODULE E820Proofs -----------------------------
(***************************************************************************)
(* Proofs about E820, for every table the firmware may pass.  The first    *)
(* part is about the change points: when the sweep begins, change_points   *)
(* holds the start and the end of every non-empty entry exactly once, by   *)
(* address, starts before ends (PointsInv), and during the sweep           *)
(* overlap_list holds the entries that have begun and not ended.  The      *)
(* second part is about the table that the sweep builds.                   *)
(***************************************************************************)
EXTENDS E820, WellFoundedInduction, TLAPS

\* change_point_cmp(b, a) >= 0.
Before(a, b) ==
  \/ a.addr < b.addr
  \/ a.addr = b.addr /\ (IsStart(b) => IsStart(a))

IsPoint(i, a, e) == change_points[i].addr = a /\ change_points[i].entry = e

\* Every change point is the start or the end of a collected, non-empty entry.
PointsSound ==
  \A i \in DOMAIN change_points :
    /\ change_points[i].entry \in 1 .. collected
    /\ raw[change_points[i].entry].size > 0
    /\ \/ change_points[i].addr = raw[change_points[i].entry].addr
       \/ change_points[i].addr = End(raw[change_points[i].entry])

PointsDistinct ==
  \A i, j \in DOMAIN change_points :
    IsPoint(i, change_points[j].addr, change_points[j].entry) => i = j

\* No start and no end of a collected, non-empty entry is missing.
PointsComplete ==
  \A e \in 1 .. collected : raw[e].size > 0 =>
    /\ \E i \in DOMAIN change_points : IsPoint(i, raw[e].addr, e)
    /\ \E i \in DOMAIN change_points : IsPoint(i, End(raw[e]), e)

NoWrap == \A e \in 1 .. collected : End(raw[e]) < AddrMod

Sorted ==
  \A i, j \in DOMAIN change_points :
    i < j /\ j <= sorted => Before(change_points[i], change_points[j])

\* The loops run one after the other, and the last one has not begun before the
\* points are sorted.
Phases ==
  /\ sorted >= 1
  /\ collected > 0 => Len(raw) \in 2 .. E820_MAX_ENTRIES
  /\ sorted > 1 => collected = Len(raw)
  /\ swept > 0 => collected = Len(raw) /\ sorted >= Len(change_points)
  /\ swept = 0 => overlap_list = <<>> /\ last_type = 0 /\ new_entries = <<>>
  /\ status = "ready" =>
       /\ collected = Len(raw) /\ sorted >= Len(change_points)
       /\ swept = Len(change_points) \/ Len(new_entries) = E820_MAX_ENTRIES
       /\ EndOfLastRam(last_ram_addr) /\ last_ram_addr > 0

PointsInv ==
  TypeOK /\ PointsSound /\ PointsDistinct /\ PointsComplete /\ NoWrap /\ Sorted /\ Phases

Points == [addr : 0 .. AddrMod - 1, entry : 1 .. Len(raw)]

-----------------------------------------------------------------------------
\* Sequences: elements, the empty one, one element more, one after the other.
LEMMA SeqFacts ==
  ASSUME NEW S, NEW s \in Seq(S)
  PROVE  Len(s) \in Nat /\ DOMAIN s = 1 .. Len(s) /\ s \in [1 .. Len(s) -> S]
OBVIOUS

LEMMA SeqElement ==
  ASSUME NEW S, NEW s \in Seq(S), NEW i \in 1 .. Len(s)
  PROVE  s[i] \in S
OBVIOUS

LEMMA SeqEmpty == \A S : <<>> \in Seq(S) /\ Len(<<>>) = 0
OBVIOUS

LEMMA AppendFacts ==
  ASSUME NEW S, NEW s \in Seq(S), NEW x \in S
  PROVE  LET t == Append(s, x)
         IN  /\ t \in Seq(S) /\ Len(t) = Len(s) + 1 /\ t[Len(s) + 1] = x
             /\ \A i \in 1 .. Len(s) : t[i] = s[i]
OBVIOUS

LEMMA ConcatFacts ==
  ASSUME NEW S, NEW s \in Seq(S), NEW t \in Seq(S)
  PROVE  /\ s \o t \in Seq(S) /\ Len(s \o t) = Len(s) + Len(t)
         /\ \A i \in 1 .. Len(s) + Len(t) :
              (s \o t)[i] = IF i <= Len(s) THEN s[i] ELSE t[i - Len(s)]
OBVIOUS

\* A function on 1..n is a sequence of length n.
LEMMA FunctionIsSeq ==
  ASSUME NEW S, NEW n \in Nat, NEW f \in [1 .. n -> S]
  PROVE  f \in Seq(S) /\ Len(f) = n /\ DOMAIN f = 1 .. n
<1>1. f \in Seq(S)
  OBVIOUS
<1>2. DOMAIN f = 1 .. n /\ DOMAIN f = 1 .. Len(f) /\ Len(f) \in Nat
  BY <1>1, SeqFacts
<1> QED BY <1>1, <1>2

LEMMA EntryFacts ==
  ASSUME raw \in Seq(Entries), NEW e \in 1 .. Len(raw)
  PROVE  /\ raw[e].addr \in Nat /\ raw[e].addr < AddrMod
         /\ raw[e].size \in Nat /\ raw[e].size < AddrMod
         /\ raw[e].type \in Nat
         /\ End(raw[e]) \in Nat /\ End(raw[e]) = raw[e].addr + raw[e].size
<1>1. raw[e] \in Entries
  BY SeqElement
<1> QED BY <1>1, AddrModAssumption, SMTT(30) DEF Entries, End

LEMMA TypeFacts ==
  ASSUME TypeOK
  PROVE  /\ Len(raw) \in Nat /\ DOMAIN raw = 1 .. Len(raw)
         /\ collected \in Nat /\ collected <= Len(raw)
         /\ Len(change_points) \in Nat /\ Len(change_points) <= 2 * collected
         /\ change_points \in Seq(Points) /\ DOMAIN change_points = 1 .. Len(change_points)
         /\ sorted \in Nat /\ swept \in Nat /\ swept <= Len(change_points)
         /\ Len(overlap_list) \in Nat /\ DOMAIN overlap_list = 1 .. Len(overlap_list)
         /\ Len(new_entries) \in Nat /\ DOMAIN new_entries = 1 .. Len(new_entries)
         /\ last_type \in Nat /\ last_addr \in Nat /\ last_addr < AddrMod
<1>1. /\ raw \in Seq(Entries) /\ change_points \in Seq(Points)
      /\ overlap_list \in Seq(1 .. Len(raw)) /\ new_entries \in Seq(Entries)
  BY DEF TypeOK, Points
<1>2. Len(raw) \in Nat /\ DOMAIN raw = 1 .. Len(raw)
  BY <1>1, SeqFacts
<1>3. Len(change_points) \in Nat /\ DOMAIN change_points = 1 .. Len(change_points)
  BY <1>1, SeqFacts
<1>4. Len(overlap_list) \in Nat /\ DOMAIN overlap_list = 1 .. Len(overlap_list)
  BY <1>1, SeqFacts
<1>5. Len(new_entries) \in Nat /\ DOMAIN new_entries = 1 .. Len(new_entries)
  BY <1>1, SeqFacts
<1>6. /\ collected \in 0 .. Len(raw) /\ Len(change_points) <= 2 * collected
      /\ sorted \in Nat /\ swept \in 0 .. Len(change_points)
      /\ last_type \in Nat /\ last_addr \in 0 .. AddrMod - 1
  BY DEF TypeOK
<1> QED BY <1>1, <1>2, <1>3, <1>4, <1>5, <1>6, AddrModAssumption

LEMMA PointFacts ==
  ASSUME TypeOK, NEW i \in DOMAIN change_points
  PROVE  /\ DOMAIN change_points = 1 .. Len(change_points) /\ Len(change_points) \in Nat
         /\ change_points[i] \in Points
         /\ change_points[i].addr \in Nat /\ change_points[i].addr < AddrMod
         /\ change_points[i].entry \in 1 .. Len(raw)
<1>1. change_points \in Seq(Points)
  BY DEF TypeOK, Points
<1>2. DOMAIN change_points = 1 .. Len(change_points) /\ Len(change_points) \in Nat
      /\ change_points[i] \in Points
  BY <1>1, SeqFacts, SeqElement
<1> QED BY <1>2, AddrModAssumption DEF Points

-----------------------------------------------------------------------------
LEMMA InitPoints == Init => PointsInv
<1> SUFFICES ASSUME Init PROVE PointsInv
  OBVIOUS
<1> USE DEF Init
<1>1. raw \in Seq(Entries) /\ Len(raw) \in Nat
  BY FirmwareMapsAssumption, SeqFacts
<1>2. TypeOK
  BY <1>1, AddrModAssumption, MaxEntriesAssumption, SeqEmpty DEF TypeOK
<1>3. PointsSound /\ PointsDistinct /\ PointsComplete /\ NoWrap /\ Sorted
  BY DEF PointsSound, PointsDistinct, PointsComplete, NoWrap, Sorted
<1>4. Phases
  BY DEF Phases
<1> QED BY <1>2, <1>3, <1>4 DEF PointsInv

LEMMA ModWrap ==
  ASSUME NEW m \in Nat \ {0}, NEW a \in 0 .. m - 1, NEW s \in 0 .. m - 1, (a + s) % m >= a
  PROVE  a + s < m
OBVIOUS

LEMMA CollectKeeps == PointsInv /\ collect => PointsInv'
<1> SUFFICES ASSUME PointsInv, collect PROVE PointsInv'
  OBVIOUS
<1> DEFINE k == collected + 1
           e == raw[k]
           n == Len(change_points)
<1> USE DEF PointsInv
<1>1. /\ raw \in Seq(Entries) /\ Len(raw) \in Nat /\ k \in 1 .. Len(raw)
      /\ collected \in Nat /\ collected < Len(raw) /\ n \in Nat /\ n <= 2 * collected
      /\ DOMAIN change_points = 1 .. n /\ change_points \in Seq(Points)
      /\ n = Len(change_points) /\ k = collected + 1 /\ e = raw[k]
  <2>1. collected < Len(raw) /\ raw \in Seq(Entries)
    BY DEF collect, TypeOK
  <2> QED BY <2>1, TypeFacts
<1>2. /\ raw' = raw /\ collected' = k /\ status = "sanitize" /\ swept = 0 /\ sorted = 1
      /\ UNCHANGED <<status, sorted, swept, overlap_list, last_type, last_addr,
                     new_entries, last_ram_addr>>
      /\ Len(raw) \in 2 .. E820_MAX_ENTRIES /\ Points' = Points
  <2>1. /\ sorted >= 1
        /\ sorted > 1 => collected = Len(raw)
        /\ swept > 0 => collected = Len(raw)
    BY DEF Phases
  <2>2. sorted \in Nat /\ swept \in Nat
    BY TypeFacts
  <2>3. swept = 0 /\ sorted = 1
    BY <1>1, <2>1, <2>2
  <2> QED BY <2>3 DEF collect, Sanitizing, Points
<1>3. /\ e.addr \in Nat /\ e.size \in Nat /\ e.addr < AddrMod
      /\ End(e) = e.addr + e.size /\ End(e) < AddrMod /\ End(e) \in Nat
  <2>1. e.addr \in 0 .. AddrMod - 1 /\ e.size \in 0 .. AddrMod - 1 /\ End(e) = e.addr + e.size
    BY <1>1, EntryFacts, AddrModAssumption
  <2>2. (e.addr + e.size) % AddrMod >= e.addr
    BY <2>1 DEF collect
  <2>3. e.addr + e.size < AddrMod
    BY <2>1, <2>2, ModWrap, AddrModAssumption, ZenonT(30)
  <2> QED BY <2>1, <2>3, AddrModAssumption
<1>4. NoWrap'
  <2>1. 1 .. collected' = (1 .. collected) \cup {k}
    BY <1>1, <1>2
  <2>2. End(raw[k]) < AddrMod
    BY <1>1, <1>3
  <2> QED BY <1>2, <2>1, <2>2 DEF NoWrap
<1>5. Phases'
  BY <1>1, <1>2 DEF Phases
<1>6. change_points' = IF e.size = 0 THEN change_points
                       ELSE change_points \o <<Point(e.addr, k), Point(End(e), k)>>
  BY DEF collect
<1> HIDE DEF e, k, n
<1>7. CASE e.size = 0
  <2>1. change_points' = change_points
    BY <1>6, <1>7
  <2>2. TypeOK'
    BY <1>1, <1>2, <2>1 DEF TypeOK
  <2>3. PointsSound' /\ PointsDistinct' /\ Sorted'
    <3>1. PointsSound'
      BY <1>1, <1>2, <2>1 DEF PointsSound
    <3> QED BY <1>1, <1>2, <2>1, <3>1 DEF PointsDistinct, Sorted, IsPoint, Before, IsStart
  <2>4. PointsComplete'
    BY <1>1, <1>2, <1>7, <2>1 DEF PointsComplete, IsPoint
  <2> QED BY <1>4, <1>5, <2>2, <2>3, <2>4
<1>8. CASE e.size > 0
  <2> DEFINE s == Point(e.addr, k)
             t == Point(End(e), k)
  <2>1. /\ s \in Points /\ t \in Points
        /\ s.addr = e.addr /\ s.entry = k /\ t.addr = End(e) /\ t.entry = k
    BY <1>1, <1>3, AddrModAssumption DEF Points, Point
  <2>2. change_points' = change_points \o <<s, t>>
    BY <1>3, <1>6, <1>8
  <2> HIDE DEF s, t
  <2>3. /\ change_points' \in Seq(Points) /\ Len(change_points') = n + 2
        /\ DOMAIN change_points' = 1 .. n + 2
        /\ \A i \in 1 .. n : change_points'[i] = change_points[i]
        /\ change_points'[n + 1] = s /\ change_points'[n + 2] = t
    <3>1. <<s, t>> \in Seq(Points) /\ Len(<<s, t>>) = 2 /\ <<s, t>>[1] = s /\ <<s, t>>[2] = t
      BY <2>1
    <3> DEFINE u == <<s, t>>
    <3> HIDE DEF u
    <3>2. /\ change_points' \in Seq(Points) /\ Len(change_points') = n + 2
          /\ \A i \in 1 .. n + 2 : change_points'[i] =
               IF i <= n THEN change_points[i] ELSE u[i - n]
      BY <1>1, <2>2, <3>1, ConcatFacts DEF u
    <3>3. n + 1 - n = 1 /\ n + 2 - n = 2
      BY <1>1
    <3> QED BY <1>1, <3>1, <3>2, <3>3, SeqFacts DEF u
  <2>4. TypeOK'
    <3>1. change_points' \in Seq([addr : 0 .. AddrMod - 1, entry : 1 .. Len(raw)])
      BY <2>3 DEF Points
    <3>2. Len(change_points') <= 2 * collected' /\ swept' \in 0 .. Len(change_points')
          /\ collected' \in 0 .. Len(raw)
      BY <1>1, <1>2, <2>3
    <3> QED BY <1>2, <3>1, <3>2 DEF TypeOK
  <2>5. \A i \in 1 .. n : change_points[i].entry \in 1 .. collected
    BY <1>1 DEF PointsSound
  <2>6. PointsSound'
    <3> SUFFICES ASSUME NEW i \in 1 .. n + 2
                 PROVE  LET p == change_points'[i] IN
                        /\ p.entry \in 1 .. k /\ raw[p.entry].size > 0
                        /\ p.addr = raw[p.entry].addr \/ p.addr = End(raw[p.entry])
      BY <1>2, <2>3 DEF PointsSound, End
    <3>1. CASE i \in 1 .. n
      <4>1. change_points'[i] = change_points[i]
        BY <2>3, <3>1
      <4>2. change_points[i].entry \in 1 .. k
        BY <1>1, <2>5, <3>1
      <4> QED BY <1>1, <3>1, <4>1, <4>2 DEF PointsSound
    <3>2. CASE i = n + 1
      BY <1>1, <1>8, <2>1, <2>3, <3>2
    <3>3. CASE i = n + 2
      BY <1>1, <1>8, <2>1, <2>3, <3>3
    <3>4. i \in 1 .. n \/ i = n + 1 \/ i = n + 2
      BY <1>1
    <3> QED BY <3>1, <3>2, <3>3, <3>4, Zenon
  <2>7. PointsDistinct'
    <3> SUFFICES ASSUME NEW i \in 1 .. n + 2, NEW j \in 1 .. n + 2,
                        change_points'[i].addr = change_points'[j].addr,
                        change_points'[i].entry = change_points'[j].entry
                 PROVE  i = j
      BY <2>3 DEF PointsDistinct, IsPoint
    <3>1. CASE i \in 1 .. n /\ j \in 1 .. n
      BY <1>1, <2>3, <3>1, ZenonT(30) DEF PointsDistinct, IsPoint
    <3>2. CASE i \in {n + 1, n + 2} /\ j \in {n + 1, n + 2}
      BY <1>1, <1>3, <1>8, <2>1, <2>3, <3>2
    <3>3. /\ \A m \in 1 .. n : change_points'[m].entry # k
          /\ \A m \in {n + 1, n + 2} : change_points'[m].entry = k
      BY <1>1, <2>1, <2>3, <2>5
    <3>4. /\ i \in 1 .. n \/ i \in {n + 1, n + 2}
          /\ j \in 1 .. n \/ j \in {n + 1, n + 2}
      BY <1>1
    <3> QED BY <3>1, <3>2, <3>3, <3>4, Zenon
  <2>8. PointsComplete'
    <3> SUFFICES ASSUME NEW x \in 1 .. k, raw[x].size > 0
                 PROVE  /\ \E i \in 1 .. n + 2 : /\ change_points'[i].addr = raw[x].addr
                                                 /\ change_points'[i].entry = x
                        /\ \E i \in 1 .. n + 2 : /\ change_points'[i].addr = End(raw[x])
                                                 /\ change_points'[i].entry = x
      BY <1>2, <2>3 DEF PointsComplete, IsPoint, End
    <3>1. CASE x = k
      <4>1. /\ change_points'[n + 1].addr = raw[x].addr /\ change_points'[n + 1].entry = x
            /\ change_points'[n + 2].addr = End(raw[x]) /\ change_points'[n + 2].entry = x
        BY <1>1, <2>1, <2>3, <3>1
      <4>2. n + 1 \in 1 .. n + 2 /\ n + 2 \in 1 .. n + 2
        BY <1>1
      <4> QED BY <4>1, <4>2
    <3>2. CASE x \in 1 .. collected
      <4>1. PICK i \in 1 .. n, j \in 1 .. n :
               IsPoint(i, raw[x].addr, x) /\ IsPoint(j, End(raw[x]), x)
        BY <1>1, <3>2, ZenonT(30) DEF PointsComplete
      <4>2. i \in 1 .. n + 2 /\ j \in 1 .. n + 2
        BY <1>1
      <4> QED BY <2>3, <4>1, <4>2 DEF IsPoint
    <3> QED BY <1>1, <3>1, <3>2
  <2>9. Sorted'
    BY <1>1, <1>2, <2>3 DEF Sorted
  <2> QED BY <1>4, <1>5, <2>4, <2>6, <2>7, <2>8, <2>9
<1> QED BY <1>3, <1>7, <1>8

-----------------------------------------------------------------------------
\* change_point_cmp is a total preorder.
LEMMA BeforeFacts ==
  ASSUME NEW a, NEW b, NEW c, a.addr \in Nat, b.addr \in Nat, c.addr \in Nat
  PROVE  /\ ~Precedes(a, b) => Before(b, a)
         /\ Precedes(a, b) => Before(a, b)
         /\ Before(a, b) /\ Before(b, c) => Before(a, c)
BY DEF Precedes, Before

LEMMA InsertKeeps == PointsInv /\ insert => PointsInv'
<1> SUFFICES ASSUME PointsInv, insert PROVE PointsInv'
  OBVIOUS
<1> USE DEF PointsInv
<1>1. PICK n \in Nat, q \in Nat : n = Len(change_points) /\ q = sorted
  BY TypeFacts, ZenonT(30)
<1>2. /\ q >= 1 /\ q < n /\ DOMAIN change_points = 1 .. n /\ change_points \in Seq(Points)
      /\ \A i \in 1 .. n : change_points[i] \in Points /\ change_points[i].addr \in Nat
  <2>1. q >= 1 /\ q < n
    BY <1>1 DEF insert, Phases
  <2>2. DOMAIN change_points = 1 .. n /\ change_points \in Seq(Points)
    BY <1>1, TypeFacts
  <2>3. \A i \in DOMAIN change_points :
           change_points[i] \in Points /\ change_points[i].addr \in Nat
    BY PointFacts
  <2> QED BY <2>1, <2>2, <2>3
<1>3. /\ UNCHANGED <<raw, status, collected, swept, overlap_list, last_type, last_addr,
                     new_entries, last_ram_addr>>
      /\ sorted' = q + 1 /\ status = "sanitize" /\ collected = Len(raw) /\ Points' = Points
  BY <1>1 DEF insert, Sanitizing, Points
<1>4. swept = 0
  <2>1. swept \in Nat /\ (swept > 0 => q >= n)
    BY <1>1, TypeFacts DEF Phases
  <2> QED BY <1>2, <2>1
<1>5. PICK temp \in Points : temp = change_points[q + 1] /\ temp.addr \in Nat
  BY <1>2
<1>6. PICK k \in 1 .. q + 1 :
        /\ k > 1 => Precedes(change_points[k - 1], temp)
        /\ \A j \in k .. q : ~Precedes(change_points[j], temp)
        /\ change_points' = [m \in 1 .. n |->
             IF m < k \/ m > q + 1 THEN change_points[m]
             ELSE IF m = k THEN temp ELSE change_points[m - 1]]
  BY <1>1, <1>5, ZenonT(30) DEF insert
<1>7. /\ change_points' \in Seq(Points) /\ Len(change_points') = n
      /\ DOMAIN change_points' = 1 .. n
  <2>1. \A m \in 1 .. n : ~(m < k \/ m > q + 1) /\ m # k => m - 1 \in 1 .. n
    BY <1>2
  <2>2. change_points' \in [1 .. n -> Points]
    BY <1>2, <1>6, <2>1
  <2> QED BY <2>2, FunctionIsSeq
<1>8. PICK from \in [1 .. n -> 1 .. n], to \in [1 .. n -> 1 .. n] :
        /\ \A m \in 1 .. n : change_points'[m] = change_points[from[m]]
        /\ \A m \in 1 .. n : to[from[m]] = m /\ from[to[m]] = m
        /\ from[k] = q + 1
        /\ \A m \in 1 .. k - 1 : from[m] = m
        /\ \A m \in k + 1 .. q + 1 : from[m] = m - 1
  <2> DEFINE f == [m \in 1 .. n |-> IF m < k \/ m > q + 1 THEN m
                                    ELSE IF m = k THEN q + 1 ELSE m - 1]
             g == [m \in 1 .. n |-> IF m < k \/ m > q + 1 THEN m
                                    ELSE IF m = q + 1 THEN k ELSE m + 1]
  <2>1. f \in [1 .. n -> 1 .. n] /\ g \in [1 .. n -> 1 .. n]
    BY <1>2
  <2>2. \A m \in 1 .. n : g[f[m]] = m /\ f[g[m]] = m
    BY <1>2
  <2>3. \A m \in 1 .. n : change_points'[m] = change_points[f[m]]
    BY <1>2, <1>5, <1>6
  <2>4. f[k] = q + 1 /\ (\A m \in 1 .. k - 1 : f[m] = m)
        /\ (\A m \in k + 1 .. q + 1 : f[m] = m - 1)
    BY <1>2
  <2> HIDE DEF f, g
  <2> QED BY <2>1, <2>2, <2>3, <2>4, ZenonT(30)
<1>9. TypeOK'
  <2>1. change_points' \in Seq([addr : 0 .. AddrMod - 1, entry : 1 .. Len(raw)])
    BY <1>7 DEF Points
  <2> QED BY <1>1, <1>3, <1>7, <2>1 DEF TypeOK
<1>10. PointsSound'
  <2> SUFFICES ASSUME NEW i \in 1 .. n
               PROVE  LET p == change_points'[i] IN
                      /\ p.entry \in 1 .. collected /\ raw[p.entry].size > 0
                      /\ p.addr = raw[p.entry].addr \/ p.addr = End(raw[p.entry])
    BY <1>3, <1>7, ZenonT(30) DEF PointsSound, End
  <2>1. from[i] \in 1 .. n /\ change_points'[i] = change_points[from[i]]
    BY <1>8
  <2> QED BY <1>2, <2>1 DEF PointsSound
<1>11. PointsDistinct'
  <2> SUFFICES ASSUME NEW i \in 1 .. n, NEW j \in 1 .. n,
                      change_points'[i].addr = change_points'[j].addr,
                      change_points'[i].entry = change_points'[j].entry
               PROVE  i = j
    BY <1>7, ZenonT(30) DEF PointsDistinct, IsPoint
  <2>1. from[i] = from[j]
    <3>1. /\ from[i] \in DOMAIN change_points /\ from[j] \in DOMAIN change_points
          /\ change_points'[i] = change_points[from[i]]
          /\ change_points'[j] = change_points[from[j]]
      BY <1>2, <1>8
    <3> QED BY <3>1 DEF PointsDistinct, IsPoint
  <2> QED BY <1>8, <2>1
<1>12. PointsComplete'
  <2> SUFFICES ASSUME NEW e \in 1 .. collected, raw[e].size > 0
               PROVE  /\ \E i \in 1 .. n : /\ change_points'[i].addr = raw[e].addr
                                           /\ change_points'[i].entry = e
                      /\ \E i \in 1 .. n : /\ change_points'[i].addr = End(raw[e])
                                           /\ change_points'[i].entry = e
    BY <1>3, <1>7, ZenonT(30) DEF PointsComplete, IsPoint, End
  <2>1. PICK i \in 1 .. n, j \in 1 .. n :
          IsPoint(i, raw[e].addr, e) /\ IsPoint(j, End(raw[e]), e)
    BY <1>2, SMTT(30) DEF PointsComplete
  <2>2. /\ to[i] \in 1 .. n /\ change_points'[to[i]] = change_points[i]
        /\ to[j] \in 1 .. n /\ change_points'[to[j]] = change_points[j]
    BY <1>8, ZenonT(30)
  <2> QED BY <2>1, <2>2, ZenonT(30) DEF IsPoint
<1>13. NoWrap' /\ Phases'
  <2>1. NoWrap'
    BY <1>3 DEF NoWrap, End
  <2> QED BY <1>1, <1>2, <1>3, <1>4, <2>1 DEF Phases
<1>14. Sorted'
  <2>1. \A i, j \in 1 .. n : i < j /\ j <= q + 1 => Before(change_points'[i], change_points'[j])
    <3> SUFFICES ASSUME NEW i \in 1 .. n, NEW j \in 1 .. n, i < j, j <= q + 1
                 PROVE  Before(change_points'[i], change_points'[j])
      OBVIOUS
    <3>5. k \in 1 .. n
      BY <1>2
    <3>1. \A a, b \in 1 .. n : a < b /\ b <= q => Before(change_points[a], change_points[b])
      BY <1>1, <1>2, Zenon DEF Sorted
    <3>2. CASE i # k /\ j # k
      <4>1. from[i] < from[j] /\ from[j] <= q /\ from[i] \in 1 .. n /\ from[j] \in 1 .. n
        <5>1. from[i] = IF i < k THEN i ELSE i - 1
          BY <1>8, <3>2
        <5>2. from[j] = IF j < k THEN j ELSE j - 1
          BY <1>8, <3>2
        <5>3. /\ i < k => from[i] = i
              /\ i > k => from[i] = i - 1 /\ i - 1 >= k
          BY <3>2, <5>1
        <5>4. /\ j < k => from[j] = j /\ j <= q
              /\ j > k => from[j] = j - 1 /\ j - 1 <= q
          BY <3>2, <5>2
        <5>5. CASE i < k /\ j < k
          BY <5>3, <5>4, <5>5
        <5>6. CASE i < k /\ j > k
          BY <5>3, <5>4, <5>6
        <5>7. CASE i > k
          <6>1. j > k /\ i - 1 < j - 1 /\ i - 1 \in 1 .. n /\ j - 1 \in 1 .. n
            BY <5>7
          <6> QED BY <5>3, <5>4, <5>7, <6>1
        <5> QED BY <3>2, <5>5, <5>6, <5>7
      <4> QED BY <1>8, <3>1, <4>1, ZenonT(30)
    <3>3. CASE i = k
      <4>1. j - 1 \in k .. q /\ j - 1 \in 1 .. n /\ change_points'[j] = change_points[j - 1]
            /\ change_points'[i] = temp
        BY <1>2, <1>5, <1>8, <3>5, <3>3
      <4>2. ~Precedes(change_points[j - 1], temp)
        BY <1>6, <4>1
      <4> QED BY <1>2, <1>5, <4>1, <4>2, BeforeFacts, ZenonT(30)
    <3>4. CASE j = k
      <4>1. /\ i \in 1 .. k - 1 /\ k - 1 \in 1 .. n /\ change_points'[i] = change_points[i]
            /\ change_points'[j] = temp /\ Precedes(change_points[k - 1], temp)
        BY <1>2, <1>5, <1>6, <1>8, <3>5, <3>4
      <4>2. Before(change_points[k - 1], temp)
        BY <1>2, <1>5, <4>1, BeforeFacts
      <4>3. i = k - 1 \/ Before(change_points[i], change_points[k - 1])
        <5>1. i = k - 1 \/ (i < k - 1 /\ k - 1 <= q)
          <6>1. i \in Nat /\ k \in Nat /\ q \in Nat /\ i <= k - 1 /\ k - 1 <= q
            BY <1>2, <1>5, <4>1
          <6> QED BY <6>1
        <5> QED BY <3>1, <4>1, <5>1, ZenonT(30)
      <4> QED BY <1>2, <1>5, <4>1, <4>2, <4>3, BeforeFacts, ZenonT(30)
    <3> QED BY <3>2, <3>3, <3>4
  <2> QED BY <1>3, <1>7, <2>1, ZenonT(30) DEF Sorted, Before, IsStart
<1> QED BY <1>9, <1>10, <1>11, <1>12, <1>13, <1>14

(***************************************************************************)
(* The sweep.  What the new table promises is not inductive: it needs what *)
(* overlap_list and the entry being built say about the point that the     *)
(* sweep has reached.                                                      *)
(***************************************************************************)

Members(s) == {s[m] : m \in DOMAIN s}

IsDistinct(s) == \A m, l \in DOMAIN s : s[m] = s[l] => m = l

Without(s, x) == [m \in 1 .. Len(s) - 1 |-> IF s[m] = x THEN s[Len(s)] ELSE s[m]]

\* The entries in overlap_list.
Active == Members(overlap_list)

Swept(a, e) == \E i \in 1 .. swept : IsPoint(i, a, e)

\* overlap_list holds the entries that have begun and not ended, each once.
OverlapExact ==
  /\ Active = {e \in DOMAIN raw : Swept(raw[e].addr, e) /\ ~Swept(End(raw[e]), e)}
  /\ IsDistinct(overlap_list)

Full == Len(new_entries) = E820_MAX_ENTRIES

\* The address the sweep has reached.
Frontier == IF swept = 0 THEN 0 ELSE change_points[swept].addr

TypeIsLargest == ~Full => IsCurrentType(overlap_list, last_type)

\* The new table ends at or before the entry being built, and that one begins at
\* or before the frontier.
BuiltBelow ==
  /\ \A m \in DOMAIN new_entries : End(new_entries[m]) <= Frontier
  /\ ~Full /\ last_type # 0 =>
       /\ last_addr <= Frontier
       /\ \A m \in DOMAIN new_entries : End(new_entries[m]) <= last_addr
  /\ Full => End(new_entries[Len(new_entries)]) = Frontier

\* The entry being built has not the type of the entry it continues.  While the
\* sweep stays at the address where the last entry ended, either an entry that
\* begins there has raised the type, which no end at that address takes back, or
\* ends have lowered it, and no start follows.
NotContinued ==
  ~Full /\ new_entries # <<>> =>
    LET e == new_entries[Len(new_entries)] IN
    /\ End(e) < Frontier => (last_type # 0 /\ last_addr = End(e) => last_type # e.type)
    /\ End(e) = Frontier =>
         \/ /\ last_type > e.type
            /\ \E x \in Active : raw[x].addr = Frontier /\ raw[x].type = last_type
         \/ last_type < e.type /\ ~IsStart(change_points[swept])

\* Below the frontier the new table, with the entry being built, has the largest
\* type at every address.
ContentExact ==
  \A a \in 0 .. AddrMod - 1 : a < Frontier =>
    IF ~Full /\ last_type # 0 /\ last_addr <= a THEN IsTypeAt(raw, a, last_type)
    ELSE \E t \in Nat : IsTypeAt(raw, a, t) /\ IsTypeAt(new_entries, a, t)

SweepInv ==
  /\ OverlapExact /\ TypeIsLargest /\ BuiltBelow /\ NotContinued /\ ContentExact
  /\ SanitizedWellFormed

E820Inv == PointsInv /\ SweepInv

-----------------------------------------------------------------------------
\* Before the sweep there is nothing to say.
LEMMA NothingSwept == TypeOK /\ Phases /\ swept = 0 => SweepInv
<1> SUFFICES ASSUME TypeOK, Phases, swept = 0 PROVE SweepInv
  OBVIOUS
<1>1. overlap_list = <<>> /\ last_type = 0 /\ new_entries = <<>>
  BY DEF Phases
<1>2. Active = {} /\ Frontier = 0 /\ \A a, e : ~Swept(a, e)
  BY <1>1 DEF Active, Members, Frontier, Swept
<1>3. OverlapExact
  BY <1>1, <1>2 DEF OverlapExact, IsDistinct
<1>4. TypeIsLargest
  BY <1>1 DEF TypeIsLargest, IsCurrentType
<1>5. BuiltBelow /\ NotContinued
  BY <1>1, <1>2, MaxEntriesAssumption DEF BuiltBelow, NotContinued, Full
<1>6. ContentExact
  BY <1>2 DEF ContentExact
<1>7. SanitizedWellFormed
  BY <1>1 DEF SanitizedWellFormed, WellFormed
<1> QED BY <1>3, <1>4, <1>5, <1>6, <1>7 DEF SweepInv

\* What the sweep starts from.
LEMMA SortedFacts ==
  ASSUME E820Inv, collected = Len(raw), sorted >= Len(change_points)
  PROVE  /\ DOMAIN raw = 1 .. Len(raw) /\ Len(raw) \in Nat
         /\ DOMAIN change_points = 1 .. Len(change_points) /\ Len(change_points) \in Nat
         /\ swept \in Nat /\ swept <= Len(change_points)
         /\ \A e \in DOMAIN raw :
              /\ raw[e].addr \in Nat /\ raw[e].size \in Nat /\ raw[e].type \in Nat
              /\ End(raw[e]) \in Nat /\ End(raw[e]) = raw[e].addr + raw[e].size
              /\ End(raw[e]) < AddrMod
         /\ \A i \in DOMAIN change_points :
              /\ change_points[i].addr \in Nat /\ change_points[i].addr < AddrMod
              /\ change_points[i].entry \in DOMAIN raw
         /\ \A i, j \in DOMAIN change_points : i < j =>
              Before(change_points[i], change_points[j])
<1>1. TypeOK /\ PointsSound /\ Sorted /\ NoWrap /\ Phases
  BY DEF E820Inv, PointsInv
<1>2. /\ DOMAIN raw = 1 .. Len(raw) /\ Len(raw) \in Nat /\ swept \in Nat /\ sorted \in Nat
      /\ DOMAIN change_points = 1 .. Len(change_points) /\ Len(change_points) \in Nat
      /\ raw \in Seq(Entries) /\ swept <= Len(change_points)
  BY <1>1, TypeFacts DEF TypeOK
<1>3. \A e \in DOMAIN raw :
        /\ raw[e].addr \in Nat /\ raw[e].size \in Nat /\ raw[e].type \in Nat
        /\ End(raw[e]) \in Nat /\ End(raw[e]) = raw[e].addr + raw[e].size
        /\ End(raw[e]) < AddrMod
  <2> TAKE e \in DOMAIN raw
  <2>1. End(raw[e]) < AddrMod
    BY <1>1, <1>2 DEF NoWrap
  <2> QED BY <1>2, <2>1, EntryFacts
<1>4. \A i \in DOMAIN change_points :
        /\ change_points[i].addr \in Nat /\ change_points[i].addr < AddrMod
        /\ change_points[i].entry \in DOMAIN raw
  BY <1>1, <1>2, PointFacts
<1>5. \A i, j \in DOMAIN change_points : i < j => Before(change_points[i], change_points[j])
  BY <1>1, <1>2 DEF Sorted
<1> QED BY <1>2, <1>3, <1>4, <1>5

LEMMA SweepFacts ==
  ASSUME E820Inv, Sweeping
  PROVE  /\ collected = Len(raw) /\ sorted >= Len(change_points)
         /\ swept \in Nat /\ swept < Len(change_points)
         /\ swept + 1 \in DOMAIN change_points
         /\ Len(new_entries) \in Nat /\ Len(new_entries) < E820_MAX_ENTRIES
<1>1. /\ collected = Len(raw) /\ sorted >= Len(change_points)
      /\ swept < Len(change_points) /\ Len(new_entries) < E820_MAX_ENTRIES
  BY DEF Sweeping
<1> QED BY <1>1, SortedFacts, TypeFacts DEF E820Inv, PointsInv

\* The points up to the frontier, and those after it.
LEMMA FrontierFacts ==
  ASSUME E820Inv, collected = Len(raw), sorted >= Len(change_points)
  PROVE  /\ Frontier \in Nat /\ Frontier < AddrMod
         /\ \A i \in 1 .. swept : change_points[i].addr <= Frontier
         /\ \A i, j \in DOMAIN change_points : i <= j =>
              change_points[i].addr <= change_points[j].addr
         /\ \A i \in DOMAIN change_points : i > swept => Frontier <= change_points[i].addr
<1>1. \A i, j \in DOMAIN change_points : i <= j =>
        change_points[i].addr <= change_points[j].addr
  <2> SUFFICES ASSUME NEW i \in DOMAIN change_points, NEW j \in DOMAIN change_points, i < j
               PROVE  change_points[i].addr <= change_points[j].addr
    BY SortedFacts
  <2>1. /\ Before(change_points[i], change_points[j])
        /\ change_points[i].addr \in Nat /\ change_points[j].addr \in Nat
    BY SortedFacts
  <2> QED BY <2>1 DEF Before
<1>2. CASE swept = 0
  BY <1>1, <1>2, SortedFacts, AddrModAssumption DEF Frontier
<1>3. CASE swept > 0
  <2>1. swept \in DOMAIN change_points /\ 1 .. swept \subseteq DOMAIN change_points
    BY <1>3, SortedFacts
  <2>2. Frontier = change_points[swept].addr
    BY <1>3 DEF Frontier
  <2> QED BY <1>1, <2>1, <2>2, SortedFacts
<1> QED BY <1>2, <1>3, SortedFacts

-----------------------------------------------------------------------------
\* overlap_list as a set without repetitions: an element is appended ...
LEMMA AppendElement ==
  ASSUME NEW S, NEW s \in Seq(S), NEW x \in S, x \notin Members(s), IsDistinct(s)
  PROVE  /\ Append(s, x) \in Seq(S)
         /\ Members(Append(s, x)) = Members(s) \cup {x}
         /\ IsDistinct(Append(s, x))
<1> DEFINE n == Len(s)
           r == Append(s, x)
<1>1. /\ n \in Nat /\ DOMAIN s = 1 .. n /\ r \in Seq(S) /\ DOMAIN r = 1 .. n + 1
      /\ r[n + 1] = x /\ \A m \in 1 .. n : r[m] = s[m]
  BY AppendFacts, SeqFacts
<1> HIDE DEF n, r
<1>2. Members(r) = Members(s) \cup {x}
  <2>1. \A m \in DOMAIN r : r[m] \in Members(s) \cup {x}
    BY <1>1 DEF Members
  <2>2. \A m \in DOMAIN s : s[m] \in Members(r)
    BY <1>1 DEF Members
  <2>3. x \in Members(r)
    BY <1>1 DEF Members
  <2> QED BY <2>1, <2>2, <2>3 DEF Members
<1>3. IsDistinct(r)
  BY <1>1 DEF IsDistinct, Members
<1> QED BY <1>1, <1>2, <1>3 DEF r

\* ... and removed by writing the last element over it.
LEMMA RemoveElement ==
  ASSUME NEW S, NEW s \in Seq(S), NEW x \in Members(s), IsDistinct(s)
  PROVE  /\ Without(s, x) \in Seq(S)
         /\ Members(Without(s, x)) = Members(s) \ {x}
         /\ IsDistinct(Without(s, x))
<1> DEFINE n == Len(s)
           r == Without(s, x)
<1>1. PICK k \in DOMAIN s : s[k] = x
  BY DEF Members
<1>2. n \in Nat /\ n >= 1 /\ DOMAIN s = 1 .. n /\ s \in [1 .. n -> S] /\ k \in 1 .. n
  BY SeqFacts
<1>3. /\ r \in [1 .. n - 1 -> S] /\ DOMAIN r = 1 .. n - 1 /\ n - 1 \in Nat
      /\ \A m \in 1 .. n - 1 : r[m] = IF m = k THEN s[n] ELSE s[m]
  BY <1>1, <1>2 DEF IsDistinct, Without
<1>4. r \in Seq(S)
  BY <1>3, FunctionIsSeq
<1> HIDE DEF n, r
<1>5. Members(r) = Members(s) \ {x}
  <2>1. \A m \in DOMAIN r : r[m] \in Members(s) /\ r[m] # x
    <3> TAKE m \in DOMAIN r
    <3>1. CASE m = k
      BY <1>1, <1>2, <1>3, <3>1 DEF Members, IsDistinct
    <3>2. CASE m # k
      BY <1>1, <1>2, <1>3, <3>2 DEF Members, IsDistinct
    <3> QED BY <3>1, <3>2
  <2>2. \A m \in DOMAIN s : s[m] # x => s[m] \in Members(r)
    <3> TAKE m \in DOMAIN s
    <3>1. CASE m = n /\ m # k
      BY <1>2, <1>3, <3>1 DEF Members
    <3>2. CASE m # n /\ m # k
      BY <1>2, <1>3, <3>2 DEF Members
    <3> QED BY <1>1, <3>1, <3>2
  <2> QED BY <2>1, <2>2 DEF Members
<1>6. IsDistinct(r)
  BY <1>2, <1>3 DEF IsDistinct
<1> QED BY <1>4, <1>5, <1>6 DEF r

-----------------------------------------------------------------------------
\* The sort puts an entry's start before its end: the entry of a start has not
\* been swept, the entry of an end is active.
LEMMA NextPoint ==
  ASSUME E820Inv, Sweeping, NEW n, n = swept, NEW p, p = change_points[n + 1],
         NEW x, x = p.entry
  PROVE  /\ n \in Nat /\ n + 1 \in DOMAIN change_points /\ x \in DOMAIN raw /\ p.addr \in Nat
         /\ raw[x].size > 0
         /\ ~Swept(End(raw[x]), x)
         /\ IsStart(p) => p.addr = raw[x].addr /\ x \notin Active
         /\ ~IsStart(p) => p.addr = End(raw[x]) /\ x \in Active
<1>1. /\ n \in Nat /\ n + 1 \in DOMAIN change_points /\ x \in DOMAIN raw /\ p.addr \in Nat
      /\ 1 .. n \subseteq DOMAIN change_points
  BY SweepFacts, SortedFacts
<1>2. /\ raw[x].addr \in Nat /\ End(raw[x]) \in Nat /\ raw[x].addr < End(raw[x])
      /\ raw[x].size > 0 /\ p.addr \in {raw[x].addr, End(raw[x])}
  <2>1. raw[x].size > 0 /\ p.addr \in {raw[x].addr, End(raw[x])}
    BY <1>1 DEF E820Inv, PointsInv, PointsSound
  <2>2. /\ raw[x].addr \in Nat /\ raw[x].size \in Nat
        /\ End(raw[x]) = raw[x].addr + raw[x].size
    BY <1>1, SweepFacts, SortedFacts, Zenon
  <2> QED BY <2>1, <2>2
<1>3. \A i \in 1 .. n : /\ ~IsPoint(i, p.addr, x)
                        /\ change_points[i].addr <= p.addr
  <2> TAKE i \in 1 .. n
  <2>1. i \in DOMAIN change_points /\ i < n + 1
    BY <1>1
  <2>2. ~IsPoint(i, p.addr, x)
    BY <1>1, <2>1 DEF E820Inv, PointsInv, PointsDistinct
  <2>3. change_points[i].addr <= p.addr
    <3>1. Before(change_points[i], p) /\ change_points[i].addr \in Nat
      BY <1>1, <2>1, SweepFacts, SortedFacts
    <3> QED BY <1>1, <3>1 DEF Before
  <2> QED BY <2>2, <2>3
<1>4. ~Swept(End(raw[x]), x)
  <2>1. SUFFICES ASSUME NEW i \in 1 .. n, IsPoint(i, End(raw[x]), x) PROVE FALSE
    BY DEF Swept
  <2> QED BY <1>2, <1>3, <2>1 DEF IsPoint
<1>5. ASSUME IsStart(p) PROVE p.addr = raw[x].addr /\ x \notin Active
  <2>1. p.addr = raw[x].addr
    BY <1>5 DEF IsStart
  <2>2. ~Swept(raw[x].addr, x)
    BY <1>3, <2>1 DEF Swept
  <2> QED BY <2>1, <2>2 DEF E820Inv, SweepInv, OverlapExact
<1>6. ASSUME ~IsStart(p) PROVE p.addr = End(raw[x]) /\ x \in Active
  <2>1. p.addr = End(raw[x])
    BY <1>2, <1>6, SMTT(30) DEF IsStart
  <2>2. PICK i \in DOMAIN change_points : IsPoint(i, raw[x].addr, x)
    BY <1>1, <1>2, SweepFacts, SortedFacts, ZenonT(30) DEF E820Inv, PointsInv, PointsComplete
  <2>3. i \in Nat /\ i # n + 1 /\ ~(n + 1 < i)
    <3>1. i \in Nat /\ (n + 1 < i => Before(p, change_points[i]))
      BY <1>1, SweepFacts, SortedFacts
    <3>2. change_points[i].addr = raw[x].addr
      BY <2>2 DEF IsPoint
    <3> QED BY <1>2, <2>1, <3>1, <3>2 DEF Before
  <2>4. i \in 1 .. n
    BY <1>1, <2>3, SweepFacts, SortedFacts
  <2>5. Swept(raw[x].addr, x)
    BY <2>2, <2>4 DEF Swept
  <2> QED BY <1>1, <1>4, <2>1, <2>5 DEF E820Inv, SweepInv, OverlapExact
<1> QED BY <1>1, <1>2, <1>4, <1>5, <1>6, Zenon

\* Every nonempty set of natural numbers has a least element.
LEMMA LeastNat ==
  ASSUME NEW T \in SUBSET Nat, T # {}
  PROVE  \E x \in T : \A y \in T : x <= y
<1> DEFINE R == OpToRel(<, Nat)
<1>1. IsWellFoundedOn(R, Nat)
  BY NatLessThanWellFounded, ZenonT(30)
<1>2. \A x, y \in Nat : <<y, x>> \in R <=> y < x
  BY DEF OpToRel
<1> HIDE DEF R
<1>3. PICK x \in T : \A y \in T : ~(<<y, x>> \in R)
  BY <1>1, WFMin, ZenonT(30)
<1>4. \A y \in T : ~(y < x)
  BY <1>2, <1>3, Zenon
<1> QED BY <1>4

OneToOne(f, n) ==
  f \in [1 .. n + 1 -> 1 .. n] /\ \A i, j \in 1 .. n + 1 : f[i] = f[j] => i = j

\* n + 1 indices do not get different numbers up to n.
LEMMA NotOneToOne == \A n \in Nat : \A f : ~OneToOne(f, n)
<1> SUFFICES ASSUME NEW n \in Nat, NEW h, OneToOne(h, n) PROVE FALSE
  OBVIOUS
<1> DEFINE T == {m \in Nat : \E f : OneToOne(f, m)}
<1>1. T \in SUBSET Nat /\ n \in T /\ \A m : m \in T <=> m \in Nat /\ \E f : OneToOne(f, m)
  BY Zenon
<1> HIDE DEF T
<1>2. PICK k \in T : \A m \in T : k <= m
  <2>1. T # {}
    BY <1>1, Zenon
  <2> QED BY <1>1, <2>1, LeastNat, Zenon
<1>3. PICK f : OneToOne(f, k)
  BY <1>1, Zenon
<1>4. k \in Nat
  BY <1>1, Zenon
<1>5. /\ \A i \in 1 .. k + 1 : f[i] \in 1 .. k
      /\ \A i, j \in 1 .. k + 1 : f[i] = f[j] => i = j
  BY <1>3 DEF OneToOne
<1>6. k > 0
  <2>1. 1 \in 1 .. k + 1
    BY <1>4
  <2>2. f[1] \in 1 .. k
    BY <1>5, <2>1, Zenon
  <2> QED BY <1>4, <2>2
\* The index that has k gets the number of the last one instead.
<1>7. PICK g : g = [i \in 1 .. (k - 1) + 1 |-> IF f[i] = k THEN f[k + 1] ELSE f[i]]
  BY Zenon
<1>8. ASSUME NEW i \in 1 .. (k - 1) + 1
      PROVE  /\ i \in 1 .. k + 1 /\ k + 1 \in 1 .. k + 1 /\ i # k + 1
             /\ g[i] = IF f[i] = k THEN f[k + 1] ELSE f[i]
             /\ g[i] \in 1 .. k - 1
  <2>1. i \in 1 .. k + 1 /\ k + 1 \in 1 .. k + 1 /\ i # k + 1
    BY <1>4, <1>6
  <2>2. g[i] = IF f[i] = k THEN f[k + 1] ELSE f[i]
    BY <1>7
  <2>3. f[i] \in 1 .. k /\ f[k + 1] \in 1 .. k /\ f[i] # f[k + 1]
    BY <1>5, <2>1
  <2> QED BY <1>4, <2>1, <2>2, <2>3
<1>9. ASSUME NEW i \in 1 .. (k - 1) + 1, NEW j \in 1 .. (k - 1) + 1, g[i] = g[j]
      PROVE  i = j
  <2>1. /\ i \in 1 .. k + 1 /\ j \in 1 .. k + 1 /\ k + 1 \in 1 .. k + 1 /\ i # k + 1 /\ j # k + 1
        /\ g[i] = IF f[i] = k THEN f[k + 1] ELSE f[i]
        /\ g[j] = IF f[j] = k THEN f[k + 1] ELSE f[j]
    BY <1>8
  <2>2. f[i] # f[k + 1] /\ f[j] # f[k + 1] /\ (f[i] = f[j] => i = j)
    BY <1>5, <2>1
  <2> QED BY <1>9, <2>1, <2>2, Zenon
<1>10. OneToOne(g, k - 1)
  <2>1. g \in [1 .. (k - 1) + 1 -> 1 .. k - 1]
    BY <1>7, <1>8
  <2> QED BY <1>9, <2>1 DEF OneToOne
<1>11. k - 1 \in Nat /\ ~(k <= k - 1)
  BY <1>4, <1>6
<1> QED BY <1>1, <1>2, <1>10, <1>11, Zenon

\* A list without repetitions is no longer than the set it is taken from.
LEMMA DistinctIsShort ==
  ASSUME NEW n \in Nat, NEW s \in Seq(1 .. n), IsDistinct(s)
  PROVE  Len(s) <= n
<1>1. PICK k \in Nat : k = Len(s) /\ s \in [1 .. k -> 1 .. n] /\ DOMAIN s = 1 .. k
  BY SeqFacts, Zenon
<1>2. SUFFICES ASSUME k > n PROVE FALSE
  BY <1>1
<1>3. PICK f : f = [i \in 1 .. n + 1 |-> s[i]]
  BY Zenon
<1>4. \A i \in 1 .. n + 1 : i \in 1 .. k
  BY <1>1, <1>2
<1>5. \A i \in 1 .. n + 1 : f[i] = s[i] /\ s[i] \in 1 .. n
  BY <1>1, <1>3, <1>4
<1>6. f \in [1 .. n + 1 -> 1 .. n]
  BY <1>3, <1>5
<1>7. \A i, j \in 1 .. n + 1 : f[i] = f[j] => i = j
  BY <1>1, <1>4, <1>5, Zenon DEF IsDistinct
<1> QED BY <1>6, <1>7, NotOneToOne, Zenon DEF OneToOne

\* A sweep step adds the entry of a start to overlap_list and takes the entry of
\* an end from it.
LEMMA OverlapStep ==
  ASSUME E820Inv, sweep, NEW n, n = swept, NEW p, p = change_points[n + 1],
         NEW x, x = p.entry
  PROVE  /\ overlap_list' \in Seq(1 .. Len(raw)) /\ Len(overlap_list') <= E820_MAX_ENTRIES
         /\ OverlapExact'
         /\ IsStart(p) => Active' = Active \cup {x}
         /\ ~IsStart(p) => Active' = Active \ {x}
<1>1. Sweeping /\ overlap_list' = Overlap(p) /\ swept' = n + 1
      /\ UNCHANGED <<raw, change_points>>
  BY SMTT(30) DEF sweep
<1>2. /\ n \in Nat /\ x \in DOMAIN raw /\ DOMAIN raw = 1 .. Len(raw) /\ Len(raw) \in Nat
      /\ ~Swept(End(raw[x]), x)
      /\ IsStart(p) => p.addr = raw[x].addr /\ x \notin Active
      /\ ~IsStart(p) => p.addr = End(raw[x]) /\ x \in Active
      /\ raw[x].addr # End(raw[x])
  <2>1. raw[x].addr \in Nat /\ raw[x].size \in Nat /\ End(raw[x]) = raw[x].addr + raw[x].size
        /\ raw[x].size > 0 /\ x \in DOMAIN raw
    BY <1>1, NextPoint, SweepFacts, SortedFacts, Zenon
  <2>2. raw[x].addr # End(raw[x])
    BY <2>1
  <2> QED BY <1>1, <2>2, NextPoint, SweepFacts, SortedFacts, SMTT(30)
<1>3. /\ overlap_list \in Seq(1 .. Len(raw))
      /\ IsDistinct(overlap_list)
      /\ Active = {e \in DOMAIN raw : Swept(raw[e].addr, e) /\ ~Swept(End(raw[e]), e)}
  BY Zenon DEF E820Inv, PointsInv, TypeOK, SweepInv, OverlapExact
<1>4. /\ overlap_list' \in Seq(1 .. Len(raw))
      /\ IsDistinct(overlap_list')
      /\ IsStart(p) => Active' = Active \cup {x}
      /\ ~IsStart(p) => Active' = Active \ {x}
  <2>1. CASE IsStart(p)
    <3>1. overlap_list' = Append(overlap_list, x)
      BY <1>1, <2>1 DEF Overlap
    <3>2. x \in 1 .. Len(raw) /\ x \notin Members(overlap_list)
      BY <1>2, <2>1 DEF Active
    <3> QED BY <1>3, <2>1, <3>1, <3>2, AppendElement DEF Active
  <2>2. CASE ~IsStart(p)
    <3>1. overlap_list' = Without(overlap_list, x)
      BY <1>1, <2>2 DEF Overlap, Without
    <3>2. x \in Members(overlap_list)
      BY <1>2, <2>2, SMTT(30) DEF Active
    <3> QED BY <1>3, <2>2, <3>1, <3>2, RemoveElement DEF Active
  <2> QED BY <2>1, <2>2
<1>5. Len(overlap_list') <= E820_MAX_ENTRIES
  <2>1. Len(overlap_list') <= Len(raw) /\ Len(overlap_list') \in Nat
    BY <1>2, <1>4, DistinctIsShort, SeqFacts
  <2>2. Len(raw) <= E820_MAX_ENTRIES
    BY <1>1, MaxEntriesAssumption DEF Sweeping, Sanitizing
  <2> QED BY <1>2, <2>1, <2>2, MaxEntriesAssumption
<1>6. \A a, e : Swept(a, e)' <=> Swept(a, e) \/ (a = p.addr /\ e = x)
  <2>1. 1 .. n + 1 = (1 .. n) \cup {n + 1}
    BY <1>2
  <2> QED BY <1>1, <2>1 DEF Swept, IsPoint
<1>7. Active' = {e \in DOMAIN raw : Swept(raw[e].addr, e)' /\ ~Swept(End(raw[e]), e)'}
  <2>1. CASE IsStart(p)
    BY <1>1, <1>2, <1>3, <1>4, <1>6, <2>1, SMTT(30)
  <2>2. CASE ~IsStart(p)
    BY <1>1, <1>2, <1>3, <1>4, <1>6, <2>2, ZenonT(30)
  <2> QED BY <2>1, <2>2, SMTT(30)
<1> QED BY <1>1, <1>4, <1>5, <1>7, SMTT(30) DEF OverlapExact, End

-----------------------------------------------------------------------------
\* Between the frontier and the next point, the active entries are the ones that
\* cover an address.
LEMMA ActiveCover ==
  ASSUME E820Inv, collected = Len(raw), sorted >= Len(change_points),
         NEW a \in Nat, Frontier <= a,
         \A i \in DOMAIN change_points : i > swept => a < change_points[i].addr,
         NEW e \in DOMAIN raw
  PROVE  Covers(raw[e], a) <=> e \in Active
<1>1. /\ raw[e].addr \in Nat /\ raw[e].size \in Nat /\ End(raw[e]) = raw[e].addr + raw[e].size
      /\ e \in 1 .. collected /\ Frontier \in Nat /\ swept \in Nat
      /\ DOMAIN change_points = 1 .. Len(change_points) /\ Len(change_points) \in Nat
      /\ swept <= Len(change_points)
  BY SortedFacts, FrontierFacts
<1>2. \A i \in 1 .. swept : change_points[i].addr <= Frontier /\ change_points[i].addr \in Nat
                            /\ i \in DOMAIN change_points
  <2> TAKE i \in 1 .. swept
  <2>1. i \in DOMAIN change_points
    BY <1>1
  <2> QED BY <2>1, SortedFacts, FrontierFacts
<1>3. ASSUME Covers(raw[e], a) PROVE e \in Active
  <2>1. raw[e].addr <= a /\ a < End(raw[e]) /\ raw[e].size > 0
    BY <1>1, <1>3 DEF Covers
  <2>2. PICK i \in DOMAIN change_points : IsPoint(i, raw[e].addr, e)
    BY <1>1, <2>1 DEF E820Inv, PointsInv, PointsComplete
  <2>3. i \in 1 .. swept
    BY <1>1, <2>1, <2>2 DEF IsPoint
  <2>4. Swept(raw[e].addr, e)
    BY <2>2, <2>3 DEF Swept
  <2>5. ~Swept(End(raw[e]), e)
    <3> SUFFICES ASSUME NEW j \in 1 .. swept, change_points[j].addr = End(raw[e]) PROVE FALSE
      BY DEF Swept, IsPoint
    <3> QED BY <1>1, <1>2, <2>1
  <2> QED BY <2>4, <2>5 DEF E820Inv, SweepInv, OverlapExact
<1>4. ASSUME e \in Active PROVE Covers(raw[e], a)
  <2>1. Swept(raw[e].addr, e) /\ ~Swept(End(raw[e]), e)
    BY <1>4 DEF E820Inv, SweepInv, OverlapExact
  <2>2. PICK i \in 1 .. swept : IsPoint(i, raw[e].addr, e)
    BY <2>1 DEF Swept
  <2>3. raw[e].addr <= a
    BY <1>1, <1>2, <2>2 DEF IsPoint
  <2>4. raw[e].size > 0
    BY <1>2, <2>2 DEF E820Inv, PointsInv, PointsSound, IsPoint
  <2>5. PICK j \in DOMAIN change_points : IsPoint(j, End(raw[e]), e)
    BY <1>1, <2>4 DEF E820Inv, PointsInv, PointsComplete
  <2>6. j > swept
    BY <1>1, <2>1, <2>5 DEF Swept
  <2>7. a < End(raw[e])
    BY <2>5, <2>6 DEF IsPoint
  <2> QED BY <2>3, <2>7 DEF Covers
<1> QED BY <1>3, <1>4

(***************************************************************************)
(* The table that the sweep builds.                                        *)
(***************************************************************************)

\* current_type in terms of the active entries.
LEMMA CurrentType ==
  ASSUME NEW s, NEW t, IsCurrentType(s, t)
  PROVE  /\ t # 0 => \E e \in Members(s) : raw[e].type = t
         /\ \A e \in Members(s) : raw[e].type <= t
BY DEF IsCurrentType, Members

\* Types at an address do not depend on what a table says elsewhere.
LEMMA TypeAtByActive ==
  ASSUME E820Inv, collected = Len(raw), sorted >= Len(change_points), ~Full,
         NEW a \in Nat, Frontier <= a,
         \A i \in DOMAIN change_points : i > swept => a < change_points[i].addr
  PROVE  IsTypeAt(raw, a, last_type)
<1>1. \A e \in DOMAIN raw : Covers(raw[e], a) <=> e \in Active
  BY ActiveCover
<1>2. Active \subseteq DOMAIN raw
  BY DEF E820Inv, SweepInv, OverlapExact
<1>3. IsCurrentType(overlap_list, last_type)
  BY DEF E820Inv, SweepInv, TypeIsLargest
<1>4. /\ last_type # 0 => \E e \in Active : raw[e].type = last_type
      /\ \A e \in Active : raw[e].type <= last_type
  BY <1>3, CurrentType DEF Active
<1> QED BY <1>1, <1>2, <1>4 DEF IsTypeAt

-----------------------------------------------------------------------------
(***************************************************************************)
(* One step of the sweep, at point p of entry x, where the type becomes t: *)
(* the type stays; or it changes where no entry or an empty one was being  *)
(* built; or an entry is finished.                                         *)
(***************************************************************************)
Built(p) == [addr |-> last_addr, size |-> p.addr - last_addr, type |-> last_type]

Begun(p, t) == last_type' = t /\ last_addr' = IF t = 0 THEN last_addr ELSE p.addr

Stays(t) == t = last_type /\ UNCHANGED <<new_entries, last_type, last_addr>>

Begins(p, t) ==
  /\ t # last_type /\ (last_type = 0 \/ p.addr = last_addr)
  /\ new_entries' = new_entries /\ Begun(p, t)

Finishes(p, t) ==
  /\ t # last_type /\ last_type # 0 /\ p.addr # last_addr
  /\ new_entries' = Append(new_entries, Built(p))
  /\ IF Len(new_entries) + 1 = E820_MAX_ENTRIES THEN UNCHANGED <<last_type, last_addr>>
     ELSE Begun(p, t)

\* What the step does to the frontier and to the active entries.
Advances(p, x, t) ==
  /\ swept \in Nat /\ p = change_points[swept + 1] /\ x = p.entry /\ x \in DOMAIN raw
  /\ p.addr \in Nat /\ p.addr < AddrMod /\ t \in Nat
  /\ Frontier \in Nat /\ Frontier <= p.addr /\ Frontier' = p.addr
  /\ UNCHANGED <<raw, change_points>> /\ swept' = swept + 1
  /\ OverlapExact' /\ IsCurrentType(overlap_list', t)
  /\ IsStart(p) => /\ Active' = Active \cup {x} /\ raw[x].addr = p.addr
                   /\ t >= last_type /\ (t > last_type => raw[x].type = t)
  /\ ~IsStart(p) => Active' = Active \ {x} /\ raw[x].addr < p.addr /\ t <= last_type
  /\ ~Full /\ Len(new_entries) \in Nat /\ Len(new_entries) < E820_MAX_ENTRIES
  /\ new_entries \in Seq(Entries) /\ DOMAIN new_entries = 1 .. Len(new_entries)
  /\ last_type \in Nat /\ last_addr \in Nat /\ last_addr < AddrMod

LEMMA SweepAdvances ==
  ASSUME E820Inv, sweep
  PROVE  \E p, x, t : /\ Advances(p, x, t)
                      /\ Stays(t) \/ Begins(p, t) \/ Finishes(p, t)
<1>1. Sweeping /\ UNCHANGED <<raw, change_points>> /\ swept' = swept + 1
  BY DEF sweep
<1>2. PICK p, x : p = change_points[swept + 1] /\ x = p.entry
  OBVIOUS
<1>3. PICK t \in {0} \cup {raw[e].type : e \in DOMAIN raw} :
        /\ IsCurrentType(overlap_list', t)
        /\ IF t = last_type THEN UNCHANGED <<new_entries, last_type, last_addr>>
           ELSE /\ new_entries' = Emitted(p, t)
                /\ IF Len(Emitted(p, t)) = E820_MAX_ENTRIES
                   THEN UNCHANGED <<last_type, last_addr>>
                   ELSE Begun(p, t)
  BY <1>2 DEF sweep, Begun
<1>4. /\ collected = Len(raw) /\ sorted >= Len(change_points) /\ swept \in Nat
      /\ swept + 1 \in DOMAIN change_points
      /\ Len(new_entries) \in Nat /\ Len(new_entries) < E820_MAX_ENTRIES /\ ~Full
  BY <1>1, SweepFacts, MaxEntriesAssumption DEF Full
<1>5. /\ t \in Nat /\ p.addr \in Nat /\ p.addr < AddrMod /\ x \in DOMAIN raw
      /\ Frontier \in Nat /\ Frontier <= p.addr /\ Frontier' = p.addr
  <2>1. \A e \in DOMAIN raw : raw[e].type \in Nat
    BY <1>4, SortedFacts
  <2>2. Frontier' = p.addr
    BY <1>1, <1>2, <1>4 DEF Frontier
  <2> QED BY <1>2, <1>3, <1>4, <2>1, <2>2, SortedFacts, FrontierFacts
<1>6. /\ OverlapExact'
      /\ IsStart(p) => Active' = Active \cup {x} /\ raw[x].addr = p.addr
      /\ ~IsStart(p) => Active' = Active \ {x} /\ raw[x].addr < p.addr
  <2>1. /\ raw[x].size > 0 /\ raw[x].size \in Nat /\ raw[x].addr \in Nat
        /\ End(raw[x]) = raw[x].addr + raw[x].size
        /\ IsStart(p) => p.addr = raw[x].addr
        /\ ~IsStart(p) => p.addr = End(raw[x])
    <3>1. /\ raw[x].size > 0
          /\ IsStart(p) => p.addr = raw[x].addr
          /\ ~IsStart(p) => p.addr = End(raw[x])
      BY <1>1, <1>2, NextPoint, ZenonT(30)
    <3>2. /\ raw[x].size \in Nat /\ raw[x].addr \in Nat
          /\ End(raw[x]) = raw[x].addr + raw[x].size
      BY <1>4, <1>5, SortedFacts, ZenonT(30)
    <3> QED BY <3>1, <3>2, Zenon
  <2> QED BY <1>2, <2>1, OverlapStep
<1>7. /\ new_entries \in Seq(Entries) /\ DOMAIN new_entries = 1 .. Len(new_entries)
      /\ last_type \in Nat /\ last_addr \in Nat /\ last_addr < AddrMod
  BY TypeFacts DEF E820Inv, PointsInv, TypeOK
<1>8. /\ IsStart(p) => t >= last_type /\ (t > last_type => raw[x].type = t)
      /\ ~IsStart(p) => t <= last_type
  <2>1. /\ last_type # 0 => \E e \in Active : raw[e].type = last_type
        /\ \A e \in Active : raw[e].type <= last_type
    BY <1>4, CurrentType DEF E820Inv, SweepInv, TypeIsLargest, Active
  <2>2. /\ t # 0 => \E e \in Active' : raw[e].type = t
        /\ \A e \in Active' : raw[e].type <= t
    BY <1>3, CurrentType DEF Active
  <2> QED BY <1>5, <1>6, <1>7, <2>1, <2>2
<1>9. Advances(p, x, t)
  BY <1>1, <1>2, <1>3, <1>4, <1>5, <1>6, <1>7, <1>8, Zenon DEF Advances
<1>10. Stays(t) \/ Begins(p, t) \/ Finishes(p, t)
  <2>1. CASE t = last_type
    BY <1>3, <2>1 DEF Stays
  <2>2. CASE t # last_type /\ (last_type = 0 \/ p.addr = last_addr)
    BY <1>3, <1>4, <2>2 DEF Begins, Emitted
  <2>3. CASE t # last_type /\ last_type # 0 /\ p.addr # last_addr
    <3>1. Emitted(p, t) = Append(new_entries, Built(p))
      BY <2>3 DEF Emitted, Built
    <3>2. Len(Append(new_entries, Built(p))) = Len(new_entries) + 1
      BY <1>7
    <3> QED BY <1>3, <2>3, <3>1, <3>2 DEF Finishes
  <2> QED BY <2>1, <2>2, <2>3
<1> QED BY <1>9, <1>10

LEMMA FinishFacts ==
  ASSUME E820Inv, NEW p, NEW x, NEW t, Advances(p, x, t), Finishes(p, t), NEW n, n = Len(new_entries)
  PROVE  /\ n \in Nat /\ last_addr <= Frontier /\ last_addr < p.addr
         /\ Built(p) \in Entries /\ End(Built(p)) = p.addr
         /\ Built(p).addr = last_addr /\ Built(p).type = last_type /\ Built(p).size > 0
         /\ new_entries' \in Seq(Entries) /\ Len(new_entries') = n + 1
         /\ DOMAIN new_entries' = 1 .. n + 1 /\ DOMAIN new_entries = 1 .. n
         /\ \A m \in 1 .. n : new_entries'[m] = new_entries[m]
         /\ new_entries'[n + 1] = Built(p)
         /\ \A m \in 1 .. n : End(new_entries[m]) <= last_addr
<1>1. /\ n \in Nat /\ p.addr \in Nat /\ p.addr < AddrMod /\ last_addr \in Nat
      /\ last_type \in Nat /\ Frontier \in Nat /\ Frontier <= p.addr
      /\ new_entries \in Seq(Entries) /\ DOMAIN new_entries = 1 .. n
  BY Zenon DEF Advances
<1>2. /\ last_addr <= Frontier /\ \A m \in 1 .. n : End(new_entries[m]) <= last_addr
      /\ p.addr # last_addr
  <2>1. ~Full /\ last_type # 0 /\ p.addr # last_addr
    BY Zenon DEF Advances, Finishes
  <2> QED BY <1>1, <2>1, Zenon DEF E820Inv, SweepInv, BuiltBelow
<1>3. last_addr < p.addr
  BY <1>1, <1>2
<1>4. /\ Built(p) \in Entries /\ End(Built(p)) = p.addr
      /\ Built(p).addr = last_addr /\ Built(p).type = last_type /\ Built(p).size > 0
  <2>1. /\ Built(p).addr = last_addr /\ Built(p).size = p.addr - last_addr
        /\ Built(p).type = last_type
    BY DEF Built
  <2>2. p.addr - last_addr \in 0 .. AddrMod - 1 /\ p.addr - last_addr > 0
        /\ last_addr \in 0 .. AddrMod - 1 /\ (last_addr + (p.addr - last_addr)) = p.addr
    BY <1>1, <1>3, AddrModAssumption
  <2>3. Built(p) \in Entries
    BY <1>1, <2>2, Zenon DEF Built, Entries
  <2> QED BY <2>1, <2>2, <2>3 DEF End
<1>5. new_entries' = Append(new_entries, Built(p))
  BY DEF Finishes
<1>6. /\ new_entries' \in Seq(Entries) /\ Len(new_entries') = n + 1
      /\ \A m \in 1 .. n : new_entries'[m] = new_entries[m]
      /\ new_entries'[n + 1] = Built(p)
  BY <1>1, <1>4, <1>5, AppendFacts
<1>7. DOMAIN new_entries' = 1 .. n + 1
  BY <1>6, SeqFacts
<1> QED BY <1>1, <1>2, <1>3, <1>4, <1>6, <1>7, Zenon

\* The entries of the new table have numeric ends.
LEMMA NewEntryFacts ==
  ASSUME E820Inv, NEW m \in DOMAIN new_entries
  PROVE  /\ new_entries[m].addr \in Nat /\ new_entries[m].size \in Nat
         /\ new_entries[m].type \in Nat
         /\ End(new_entries[m]) \in Nat
         /\ End(new_entries[m]) = new_entries[m].addr + new_entries[m].size
<1>1. new_entries \in Seq(Entries) /\ DOMAIN new_entries = 1 .. Len(new_entries)
  BY TypeFacts DEF E820Inv, PointsInv, TypeOK
<1>2. new_entries[m] \in Entries
  BY <1>1, SeqElement
<1> QED BY <1>2, AddrModAssumption DEF Entries, End

LEMMA SweepTypes ==
  ASSUME E820Inv, sweep, NEW p, NEW x, NEW t, Advances(p, x, t),
         Stays(t) \/ Begins(p, t) \/ Finishes(p, t)
  PROVE  TypeOK' /\ Phases' /\ TypeIsLargest'
<1> USE DEF E820Inv, PointsInv
<1>1. /\ UNCHANGED <<raw, status, collected, change_points, sorted, last_ram_addr>>
      /\ swept' = swept + 1 /\ status = "sanitize" /\ collected = Len(raw)
      /\ sorted >= Len(change_points) /\ swept \in Nat /\ swept < Len(change_points)
  BY SweepFacts, Zenon DEF sweep, Sweeping, Sanitizing
<1>2. Len(change_points) \in Nat
  BY TypeFacts
<1>3. overlap_list' \in Seq(1 .. Len(raw)) /\ Len(overlap_list') <= E820_MAX_ENTRIES
  BY OverlapStep
<1>4. /\ last_type' \in Nat /\ last_addr' \in 0 .. AddrMod - 1
      /\ new_entries' \in Seq(Entries) /\ Len(new_entries') <= E820_MAX_ENTRIES
      /\ Len(new_entries') # E820_MAX_ENTRIES => last_type' = t
  <2>1. CASE Stays(t) \/ Begins(p, t)
    BY <2>1, MaxEntriesAssumption, AddrModAssumption DEF Advances, Stays, Begins, Begun
  <2>2. CASE Finishes(p, t)
    <3>1. new_entries' \in Seq(Entries) /\ Len(new_entries') = Len(new_entries) + 1
      BY <2>2, FinishFacts, ZenonT(30)
    <3> QED BY <2>2, <3>1, MaxEntriesAssumption, AddrModAssumption DEF Advances, Finishes, Begun
  <2> QED BY <2>1, <2>2
<1>5. TypeOK'
  <2>1. swept' \in 0 .. Len(change_points)
    BY <1>1, <1>2
  <2> QED BY <1>1, <1>3, <1>4, <2>1, Zenon DEF TypeOK
<1>6. Phases'
  BY <1>1, <1>2 DEF Phases
<1>7. TypeIsLargest'
  <2>1. IsCurrentType(overlap_list', t)
    BY DEF Advances
  <2> QED BY <1>1, <1>4, <2>1, Zenon DEF TypeIsLargest, Full, IsCurrentType
<1> QED BY <1>5, <1>6, <1>7

LEMMA SweepBuilds ==
  ASSUME E820Inv, NEW p, NEW x, NEW t, Advances(p, x, t),
         Stays(t) \/ Begins(p, t) \/ Finishes(p, t)
  PROVE  BuiltBelow' /\ SanitizedWellFormed'
<1>1. PICK n \in Nat : n = Len(new_entries) /\ DOMAIN new_entries = 1 .. n
  BY ZenonT(30) DEF Advances
<1>2. /\ p.addr \in Nat /\ Frontier \in Nat /\ Frontier <= p.addr /\ Frontier' = p.addr
      /\ n < E820_MAX_ENTRIES /\ last_addr \in Nat /\ t \in Nat /\ ~Full
  BY <1>1 DEF Advances
<1>3. /\ \A m \in 1 .. n : End(new_entries[m]) <= Frontier /\ End(new_entries[m]) \in Nat
      /\ last_type # 0 => /\ last_addr <= Frontier
                          /\ \A m \in 1 .. n : End(new_entries[m]) <= last_addr
      /\ WellFormed(new_entries)
  <2>1. \A m \in 1 .. n : End(new_entries[m]) \in Nat
    BY <1>1, NewEntryFacts, Zenon
  <2> QED BY <1>1, <1>2, <2>1, Zenon DEF E820Inv, SweepInv, BuiltBelow, SanitizedWellFormed
<1>4. CASE Stays(t) \/ Begins(p, t)
  <2>1. /\ new_entries' = new_entries
        /\ last_type' # 0 => last_addr' = p.addr \/ (last_type # 0 /\ last_addr' = last_addr)
    BY <1>4 DEF Stays, Begins, Begun
  <2>2. \A m \in 1 .. n : End(new_entries[m]) <= p.addr
    BY <1>2, <1>3
  <2>3. n # E820_MAX_ENTRIES
    BY <1>2, MaxEntriesAssumption
  <2>4. BuiltBelow'
    BY <1>1, <1>2, <1>3, <2>1, <2>2, <2>3 DEF BuiltBelow, Full, End
  <2> QED BY <1>3, <2>1, <2>4 DEF SanitizedWellFormed, WellFormed
<1>5. CASE Finishes(p, t)
  <2>1. /\ End(Built(p)) = p.addr /\ Built(p).addr = last_addr /\ Built(p).type = last_type
        /\ Built(p).size > 0 /\ last_type # 0 /\ last_addr < p.addr
        /\ Len(new_entries') = n + 1 /\ DOMAIN new_entries' = 1 .. n + 1
        /\ \A m \in 1 .. n : new_entries'[m] = new_entries[m]
        /\ new_entries'[n + 1] = Built(p)
        /\ \A m \in 1 .. n : End(new_entries[m]) <= last_addr
    BY <1>1, <1>5, FinishFacts, Zenon DEF Finishes
  <2>2. n + 1 # E820_MAX_ENTRIES => last_addr' = IF t = 0 THEN last_addr ELSE p.addr
    BY <1>1, <1>5 DEF Finishes, Begun
  <2>3. n + 1 # E820_MAX_ENTRIES => last_type' = t
    BY <1>1, <1>5 DEF Finishes, Begun
  <2>4. \A m \in 1 .. n + 1 : End(new_entries'[m]) <= p.addr
    <3> TAKE m \in 1 .. n + 1
    <3>1. CASE m \in 1 .. n
      BY <1>2, <1>3, <2>1, <3>1
    <3>2. CASE m = n + 1
      BY <1>2, <2>1, <3>2
    <3> QED BY <3>1, <3>2
  <2>5. BuiltBelow'
    <3>1. Len(new_entries') = n + 1 /\ DOMAIN new_entries' = 1 .. n + 1
      BY <2>1, Zenon
    <3>2. End(new_entries'[n + 1]) = p.addr
      BY <2>1
    <3>3. n + 1 # E820_MAX_ENTRIES /\ last_type' # 0 => last_addr' = p.addr
      BY <2>2, <2>3
    <3> QED BY <1>2, <2>4, <3>1, <3>2, <3>3 DEF BuiltBelow, Full, End
  <2>6. n > 0 /\ End(new_entries[n]) = last_addr => new_entries[n].type # last_type
    <3> SUFFICES ASSUME n > 0, End(new_entries[n]) = last_addr
                 PROVE  new_entries[n].type # last_type
      OBVIOUS
    <3>1. new_entries # <<>> /\ n \in DOMAIN new_entries
      BY <1>1
    <3>2. new_entries[n].type \in Nat /\ last_type \in Nat
      BY <3>1, NewEntryFacts DEF Advances
    <3>3. CASE End(new_entries[n]) < Frontier
      BY <1>1, <1>2, <2>1, <3>1, <3>3 DEF E820Inv, SweepInv, NotContinued
    <3>4. CASE End(new_entries[n]) = Frontier
      <4>1. last_type > new_entries[n].type \/ last_type < new_entries[n].type
        BY <1>1, <1>2, <3>1, <3>4, Zenon DEF E820Inv, SweepInv, NotContinued
      <4> QED BY <3>2, <4>1
    <3> QED BY <1>1, <1>2, <1>3, <3>1, <3>3, <3>4
  <2>7. WellFormed(new_entries')
    <3>1. \A m \in 1 .. n + 1 : new_entries'[m].size > 0 /\ new_entries'[m].type # 0
      <4> TAKE m \in 1 .. n + 1
      <4>1. CASE m \in 1 .. n
        BY <1>1, <1>3, <2>1, <4>1, Zenon DEF WellFormed
      <4>2. CASE m = n + 1
        BY <2>1, <4>2, Zenon
      <4> QED BY <4>1, <4>2
    <3>2. \A m, l \in 1 .. n + 1 : m < l =>
            \/ End(new_entries'[m]) < new_entries'[l].addr
            \/ /\ End(new_entries'[m]) = new_entries'[l].addr
               /\ l = m + 1 => new_entries'[m].type # new_entries'[l].type
      <4> SUFFICES ASSUME NEW m \in 1 .. n + 1, NEW l \in 1 .. n + 1, m < l
                   PROVE  \/ End(new_entries'[m]) < new_entries'[l].addr
                          \/ /\ End(new_entries'[m]) = new_entries'[l].addr
                             /\ l = m + 1 => new_entries'[m].type # new_entries'[l].type
        OBVIOUS
      <4>1. CASE l \in 1 .. n
        <5>1. m \in 1 .. n
          BY <4>1
        <5>2. new_entries'[m] = new_entries[m] /\ new_entries'[l] = new_entries[l]
              /\ m \in DOMAIN new_entries /\ l \in DOMAIN new_entries
          BY <1>1, <2>1, <4>1, <5>1
        <5> QED BY <1>3, <5>2 DEF WellFormed
      <4>2. CASE l = n + 1
        <5>1. m \in 1 .. n /\ new_entries'[l] = Built(p) /\ new_entries'[m] = new_entries[m]
          BY <2>1, <4>2
        <5>2. End(new_entries[m]) <= last_addr /\ End(new_entries[m]) \in Nat
          BY <1>3, <2>1, <5>1, Zenon
        <5>3. l = m + 1 => m = n /\ n > 0
          BY <4>2, <5>1
        <5> QED BY <1>2, <2>1, <2>6, <5>1, <5>2, <5>3
      <4> QED BY <4>1, <4>2
    <3> QED BY <2>1, <3>1, <3>2, Zenon DEF WellFormed
  <2> QED BY <2>5, <2>7 DEF SanitizedWellFormed
<1> QED BY <1>4, <1>5, SMTT(30)

LEMMA SweepNotContinued ==
  ASSUME E820Inv, sweep, NEW p, NEW x, NEW t, Advances(p, x, t),
         Stays(t) \/ Begins(p, t) \/ Finishes(p, t)
  PROVE  NotContinued'
<1>1. PICK n \in Nat : n = Len(new_entries) /\ DOMAIN new_entries = 1 .. n
  BY ZenonT(30) DEF Advances
<1>2. /\ p.addr \in Nat /\ Frontier \in Nat /\ Frontier <= p.addr /\ Frontier' = p.addr
      /\ t \in Nat /\ last_type \in Nat /\ last_addr \in Nat /\ ~Full /\ swept \in Nat
      /\ raw' = raw /\ x \in DOMAIN raw
      /\ IsStart(p) => /\ Active' = Active \cup {x} /\ raw[x].addr = p.addr
                       /\ t >= last_type /\ (t > last_type => raw[x].type = t)
      /\ ~IsStart(p) => Active' = Active \ {x} /\ raw[x].addr < p.addr /\ t <= last_type
      /\ IsStart(change_points'[swept']) <=> IsStart(p)
  BY Zenon DEF Advances
<1>a. /\ Frontier' = p.addr /\ raw' = raw
      /\ IsStart(change_points'[swept']) <=> IsStart(p)
  BY <1>2
<1>b. /\ IsStart(p) => Active' = Active \cup {x}
      /\ ~IsStart(p) => Active' = Active \ {x} /\ raw[x].addr < p.addr
  BY <1>2
<1>c. p.addr \in Nat
  BY <1>2, Zenon
<1>d. Frontier \in Nat /\ Frontier <= p.addr
  BY <1>2, Zenon
<1>e. /\ t \in Nat /\ last_type \in Nat
      /\ IsStart(p) => t >= last_type
      /\ ~IsStart(p) => t <= last_type
  BY <1>2, Zenon
<1>f. IsStart(p) /\ t > last_type => x \in Active' /\ raw[x].addr = p.addr /\ raw[x].type = t
  BY <1>2, Zenon
\* At the same address, a point that follows an end is an end.
<1>3. swept > 0 /\ Frontier = p.addr /\ IsStart(p) => IsStart(change_points[swept])
  <2> SUFFICES ASSUME swept > 0, Frontier = p.addr, IsStart(p)
               PROVE  IsStart(change_points[swept])
    OBVIOUS
  <2>1. /\ collected = Len(raw) /\ sorted >= Len(change_points)
        /\ swept + 1 \in DOMAIN change_points /\ DOMAIN change_points = 1 .. Len(change_points)
        /\ Len(change_points) \in Nat
    BY SweepFacts, SortedFacts, Zenon DEF sweep
  <2>a. swept \in Nat
    BY <1>2, Zenon
  <2>2. swept \in DOMAIN change_points /\ swept < swept + 1 /\ swept # 0
    BY <2>1, <2>a
  <2>3. Before(change_points[swept], p)
    BY <2>1, <2>2, SortedFacts, Zenon DEF Advances
  <2>4. change_points[swept].addr = p.addr
    BY <2>2, Zenon DEF Frontier
  <2> QED BY <1>c, <2>3, <2>4 DEF Before
<1>4. CASE Stays(t) \/ Begins(p, t)
  <2> SUFFICES ASSUME n > 0 PROVE NotContinued'
    <3>1. new_entries' = new_entries
      BY <1>4 DEF Stays, Begins
    <3>a. new_entries \in Seq(Entries)
      BY Zenon DEF Advances
    <3>2. n = 0 => new_entries' = <<>>
      BY <1>1, <3>1, <3>a
    <3>3. n = 0 => NotContinued'
      BY <3>2, Zenon DEF NotContinued
    <3>4. n = 0 \/ n > 0
      BY <1>1
    <3> QED BY <3>3, <3>4, Zenon
  <2> DEFINE e == new_entries[n]
  <2>1. /\ new_entries # <<>> /\ n \in DOMAIN new_entries /\ swept > 0
        /\ e.type \in Nat /\ End(e) \in Nat /\ End(e) <= Frontier
    <3>1. new_entries # <<>> /\ n \in DOMAIN new_entries
      BY <1>1
    <3>a. swept \in Nat /\ (swept = 0 => new_entries = <<>>)
      BY <1>2, Zenon DEF E820Inv, PointsInv, Phases
    <3>2. swept > 0
      BY <3>1, <3>a
    <3> QED BY <3>1, <3>2, NewEntryFacts, Zenon DEF E820Inv, SweepInv, BuiltBelow
  <2> HIDE DEF e
  <2>2. /\ End(e) < Frontier => (last_type # 0 /\ last_addr = End(e) => last_type # e.type)
        /\ End(e) = Frontier =>
             \/ /\ last_type > e.type
                /\ \E y \in Active : raw[y].addr = Frontier /\ raw[y].type = last_type
             \/ last_type < e.type /\ ~IsStart(change_points[swept])
    <3>1. ~Full
      BY <1>2, Zenon
    <3> QED BY <1>1, <2>1, <3>1, Zenon DEF E820Inv, SweepInv, NotContinued, e
  <2>3. SUFFICES
          /\ End(e) < p.addr => (last_type' # 0 /\ last_addr' = End(e) => last_type' # e.type)
          /\ End(e) = p.addr =>
               \/ /\ last_type' > e.type
                  /\ \E y \in Active' : raw[y].addr = p.addr /\ raw[y].type = last_type'
               \/ last_type' < e.type /\ ~IsStart(p)
    <3>1. new_entries' = new_entries
      BY <1>4, Zenon DEF Stays, Begins
    <3>2. new_entries'[Len(new_entries')] = e
      BY <1>1, <3>1, Zenon DEF e
    <3> QED BY <1>a, <3>2, Zenon DEF NotContinued, End, IsStart
  <2>4. \A y \in Active : raw[y].addr = p.addr => y \in Active'
    <3> SUFFICES ASSUME NEW y \in Active, raw[y].addr = p.addr
                 PROVE  y \in Active'
      OBVIOUS
    <3>1. CASE IsStart(p)
      BY <1>b, <3>1
    <3>2. CASE ~IsStart(p)
      <4>1. y # x
        BY <1>b, <1>c, <3>2
      <4> QED BY <1>b, <3>2, <4>1
    <3> QED BY <3>1, <3>2
  <2>5. CASE Stays(t)
    <3>1. last_type' = last_type /\ last_addr' = last_addr
      BY <2>5 DEF Stays
    <3>2. End(e) = p.addr => Frontier = p.addr
      BY <1>c, <1>d, <2>1
    <3>a. End(e) < Frontier \/ End(e) = Frontier
      BY <1>d, <2>1
    <3>b. last_type > e.type \/ last_type < e.type => last_type # e.type
      <4>1. e.type \in Nat /\ last_type \in Nat
        BY <1>e, <2>1, Zenon
      <4> QED BY <4>1
    <3>3. End(e) < p.addr => (last_type # 0 /\ last_addr = End(e) => last_type # e.type)
      BY <2>2, <3>a, <3>b, Zenon
    <3>4. End(e) = p.addr =>
            \/ /\ last_type > e.type
               /\ \E y \in Active' : raw[y].addr = p.addr /\ raw[y].type = last_type
            \/ last_type < e.type /\ ~IsStart(p)
      BY <1>3, <2>1, <2>2, <2>4, <3>2, Zenon
    <3> QED BY <3>1, <3>3, <3>4
  <2>6. CASE Begins(p, t)
    <3>1. t # last_type /\ last_type' = t /\ (t # 0 => last_addr' = p.addr)
      BY <2>6 DEF Begins, Begun
    <3>2. SUFFICES ASSUME End(e) = p.addr
                   PROVE  \/ /\ t > e.type
                             /\ \E y \in Active' : raw[y].addr = p.addr /\ raw[y].type = t
                          \/ t < e.type /\ ~IsStart(p)
      <4>1. ~(p.addr < p.addr)
        BY <1>c
      <4> QED BY <3>1, <4>1, Zenon
    <3>3. Frontier = p.addr
      BY <1>c, <1>d, <2>1, <3>2
    <3>4. CASE IsStart(p)
      <4>1. last_type > e.type
        BY <1>3, <2>1, <2>2, <3>2, <3>3, <3>4, Zenon
      <4>2. t > last_type /\ x \in Active' /\ raw[x].addr = p.addr /\ raw[x].type = t
        <5>1. t > last_type
          BY <1>e, <3>1, <3>4
        <5> QED BY <1>f, <3>4, <5>1, Zenon
      <4>3. t > e.type
        BY <1>e, <2>1, <4>1, <4>2
      <4> QED BY <4>2, <4>3, Zenon
    <3>5. CASE ~IsStart(p)
      <4>1. t < last_type
        BY <1>e, <3>1, <3>5
      <4>2. \A y \in Active' : raw[y].type <= t
        <5>1. IsCurrentType(overlap_list', t)
          BY DEF Advances
        <5> QED BY <5>1, CurrentType DEF Active
      <4>3. ~\E y \in Active : raw[y].addr = p.addr /\ raw[y].type = last_type
        <5>1. ~(last_type <= t)
          BY <1>e, <4>1
        <5> QED BY <2>4, <4>2, <5>1, Zenon
      <4>4. last_type < e.type
        BY <2>2, <3>2, <3>3, <4>3, Zenon
      <4>5. t < e.type
        BY <1>e, <2>1, <4>1, <4>4
      <4> QED BY <3>5, <4>5, Zenon
    <3> QED BY <3>4, <3>5, Zenon
  <2> QED BY <1>4, <2>5, <2>6, Zenon
<1>5. CASE Finishes(p, t)
  <2>1. /\ End(Built(p)) = p.addr /\ Built(p).type = last_type
        /\ Len(new_entries') = n + 1 /\ new_entries'[n + 1] = Built(p)
    BY <1>1, <1>5, FinishFacts, ZenonT(30)
  <2>2. SUFFICES ASSUME ~Full'
                 PROVE  \/ /\ last_type' > last_type
                           /\ \E y \in Active' : raw[y].addr = p.addr /\ raw[y].type = last_type'
                        \/ last_type' < last_type /\ ~IsStart(p)
    <3> DEFINE last == new_entries'[Len(new_entries')]
    <3>1. End(last) = p.addr /\ last.type = last_type
      BY <2>1
    <3>2. ~(p.addr < p.addr)
      BY <1>c
    <3> HIDE DEF last
    <3>3. last = new_entries'[Len(new_entries')]
      BY DEF last
    <3> QED BY <1>a, <2>2, <3>1, <3>2, <3>3, Zenon DEF NotContinued, End, IsStart
  <2>3. last_type' = t /\ t # last_type
    BY <1>1, <1>5, <2>1, <2>2, Zenon DEF Finishes, Begun, Full
  <2>a. IF IsStart(p) THEN t > last_type ELSE t < last_type
    BY <1>e, <2>3
  <2>4. CASE IsStart(p)
    BY <1>f, <2>3, <2>4, <2>a, Zenon
  <2>5. CASE ~IsStart(p)
    BY <2>3, <2>5, <2>a, Zenon
  <2> QED BY <2>4, <2>5, Zenon
<1> QED BY <1>4, <1>5, SMTT(30)

LEMMA SweepContent ==
  ASSUME E820Inv, sweep, NEW p, NEW x, NEW t, Advances(p, x, t),
         Stays(t) \/ Begins(p, t) \/ Finishes(p, t)
  PROVE  ContentExact'
<1>1. PICK n \in Nat : n = Len(new_entries) /\ DOMAIN new_entries = 1 .. n
  BY Zenon DEF Advances
<1>2. /\ p.addr \in Nat /\ Frontier \in Nat /\ Frontier <= p.addr /\ Frontier' = p.addr
      /\ t \in Nat /\ last_type \in Nat /\ last_addr \in Nat /\ ~Full /\ raw' = raw
      /\ AddrMod \in Nat
  BY AddrModAssumption, Zenon DEF Advances
<1>a. last_addr \in Nat
  BY <1>2, Zenon
<1>3. SUFFICES ASSUME NEW a \in Nat, a < AddrMod, a < p.addr
               PROVE  IF ~Full' /\ last_type' # 0 /\ last_addr' <= a
                      THEN IsTypeAt(raw, a, last_type')
                      ELSE \E u \in Nat : IsTypeAt(raw, a, u) /\ IsTypeAt(new_entries', a, u)
  BY <1>2 DEF ContentExact, IsTypeAt, Covers, End
<1>4. Frontier <= a => IsTypeAt(raw, a, last_type)
  <2> SUFFICES ASSUME Frontier <= a PROVE IsTypeAt(raw, a, last_type)
    OBVIOUS
  <2>1. collected = Len(raw) /\ sorted >= Len(change_points) /\ swept + 1 \in DOMAIN change_points
        /\ swept \in Nat
    BY SweepFacts, Zenon DEF sweep
  <2>2. \A i \in DOMAIN change_points : i > swept => a < change_points[i].addr
    <3> TAKE i \in DOMAIN change_points
    <3> HAVE i > swept
    <3>1. i \in Nat /\ change_points[i].addr \in Nat
      BY <2>1, SortedFacts
    <3>2. swept + 1 <= i
      BY <2>1, <3>1
    <3>3. p.addr <= change_points[i].addr
      BY <2>1, <3>2, FrontierFacts, Zenon DEF Advances
    <3> QED BY <1>2, <1>3, <3>1, <3>3
  <2> QED BY <1>2, <2>1, <2>2, TypeAtByActive, Zenon
<1>5. a < Frontier =>
        IF last_type # 0 /\ last_addr <= a THEN IsTypeAt(raw, a, last_type)
        ELSE \E u \in Nat : IsTypeAt(raw, a, u) /\ IsTypeAt(new_entries, a, u)
  <2>1. a \in 0 .. AddrMod - 1
    BY <1>2, <1>3
  <2> QED BY <1>2, <2>1 DEF E820Inv, SweepInv, ContentExact
<1>6. /\ \A m \in 1 .. n : End(new_entries[m]) \in Nat /\ End(new_entries[m]) <= Frontier
      /\ last_type # 0 => /\ last_addr <= Frontier
                          /\ \A m \in 1 .. n : End(new_entries[m]) <= last_addr
  <2>1. \A m \in 1 .. n : End(new_entries[m]) \in Nat
    BY <1>1, NewEntryFacts, Zenon
  <2> QED BY <1>1, <1>2, <2>1, Zenon DEF E820Inv, SweepInv, BuiltBelow
\* Below the entry being built the new table was right and remains so.
<1>7. ~(last_type # 0 /\ last_addr <= a) =>
        \E u \in Nat : IsTypeAt(raw, a, u) /\ IsTypeAt(new_entries, a, u)
  <2>1. CASE a < Frontier
    BY <1>5, <2>1
  <2>2. CASE Frontier <= a
    <3> SUFFICES ASSUME last_type = 0
                 PROVE  IsTypeAt(raw, a, 0) /\ IsTypeAt(new_entries, a, 0)
      BY <1>2, <1>6, <2>2
    <3>1. \A m \in 1 .. n : ~Covers(new_entries[m], a)
      BY <1>2, <1>6, <2>2 DEF Covers
    <3> QED BY <1>1, <1>4, <2>2, <3>1 DEF IsTypeAt
  <2> QED BY <1>2, <2>1, <2>2
<1>8. last_type # 0 /\ last_addr <= a => IsTypeAt(raw, a, last_type)
  BY <1>2, <1>4, <1>5
<1>9. CASE Stays(t)
  BY <1>1, <1>2, <1>7, <1>8, <1>9 DEF Stays, Full
<1>10. CASE Begins(p, t)
  <2>1. /\ new_entries' = new_entries /\ last_type' = t /\ (t # 0 => last_addr' = p.addr)
        /\ last_type = 0 \/ p.addr = last_addr
    BY <1>10 DEF Begins, Begun
  <2>2. ~(last_type # 0 /\ last_addr <= a)
    BY <1>2, <1>3, <2>1
  <2>3. ~(last_type' # 0 /\ last_addr' <= a)
    BY <1>2, <1>3, <2>1
  <2> QED BY <1>7, <2>1, <2>2, <2>3
<1>11. CASE Finishes(p, t)
  <2>1. /\ End(Built(p)) = p.addr /\ Built(p).addr = last_addr /\ Built(p).type = last_type
        /\ Len(new_entries') = n + 1 /\ DOMAIN new_entries' = 1 .. n + 1
        /\ \A m \in 1 .. n : new_entries'[m] = new_entries[m]
        /\ new_entries'[n + 1] = Built(p) /\ last_type # 0
    BY <1>1, <1>11, FinishFacts, Zenon DEF Finishes
  <2>2. ~(~Full' /\ last_type' # 0 /\ last_addr' <= a)
    <3>1. ~Full' => last_type' = t /\ (t # 0 => last_addr' = p.addr)
      BY <1>1, <1>11, <2>1, Zenon DEF Finishes, Begun, Full
    <3> QED BY <1>2, <1>3, <3>1
  <2>3. CASE a < last_addr
    <3>1. PICK u \in Nat : IsTypeAt(raw, a, u) /\ IsTypeAt(new_entries, a, u)
      BY <1>2, <1>7, <2>3
    <3>2. ~Covers(new_entries'[n + 1], a)
      <4>1. ~(last_addr <= a)
        BY <1>a, <2>3
      <4> QED BY <2>1, <4>1, Zenon DEF Covers
    <3>3. IsTypeAt(new_entries', a, u)
      <4>1. u # 0 => \E m \in 1 .. n : Covers(new_entries[m], a) /\ new_entries[m].type = u
        BY <1>1, <3>1, Zenon DEF IsTypeAt
      <4>2. \A m \in 1 .. n : Covers(new_entries[m], a) => new_entries[m].type <= u
        BY <1>1, <3>1, Zenon DEF IsTypeAt
      <4>3. \A m \in 1 .. n : m \in 1 .. n + 1
        BY <1>1
      <4>4. \A m \in 1 .. n + 1 : m \in 1 .. n \/ m = n + 1
        BY <1>1
      <4> QED BY <2>1, <3>2, <4>1, <4>2, <4>3, <4>4, ZenonT(30) DEF IsTypeAt
    <3> QED BY <2>2, <3>1, <3>3
  <2>4. CASE last_addr <= a
    <3>1. IsTypeAt(raw, a, last_type)
      BY <1>8, <2>1, <2>4, Zenon
    <3>2. Covers(new_entries'[n + 1], a) /\ new_entries'[n + 1].type = last_type
      BY <1>3, <2>1, <2>4, Zenon DEF Covers
    <3>3. \A m \in 1 .. n : ~Covers(new_entries[m], a)
      <4> SUFFICES ASSUME NEW m \in 1 .. n PROVE ~(a < End(new_entries[m]))
        BY DEF Covers
      <4>1. PICK b : b = End(new_entries[m])
        OBVIOUS
      <4>2. b \in Nat /\ b <= last_addr
        BY <1>6, <2>1, <4>1, Zenon
      <4> QED BY <1>a, <2>4, <4>1, <4>2
    <3>4. IsTypeAt(new_entries', a, last_type)
      <4>1. n + 1 \in 1 .. n + 1 /\ \A m \in 1 .. n + 1 : m \in 1 .. n \/ m = n + 1
        BY <1>1
      <4>2. last_type <= last_type
        BY <1>2
      <4> QED BY <2>1, <3>2, <3>3, <4>1, <4>2, Zenon DEF IsTypeAt
    <3> QED BY <1>2, <2>2, <3>1, <3>4
  <2>5. a < last_addr \/ last_addr <= a
    BY <1>a
  <2> QED BY <2>3, <2>4, <2>5, Zenon
<1> QED BY <1>9, <1>10, <1>11, Zenon

-----------------------------------------------------------------------------
LEMMA SweepKeeps == E820Inv /\ sweep => E820Inv'
<1> SUFFICES ASSUME E820Inv, sweep PROVE E820Inv'
  OBVIOUS
<1>1. PICK p, x, t : Advances(p, x, t) /\ (Stays(t) \/ Begins(p, t) \/ Finishes(p, t))
  BY SweepAdvances
<1>2. TypeOK' /\ Phases' /\ TypeIsLargest'
  BY <1>1, SweepTypes
<1>3. PointsSound' /\ PointsDistinct' /\ PointsComplete' /\ NoWrap' /\ Sorted'
  <2>1. UNCHANGED <<raw, collected, change_points, sorted>>
    BY DEF sweep
  <2>2. PointsSound' /\ NoWrap'
    BY <2>1 DEF E820Inv, PointsInv, PointsSound, NoWrap, End
  <2>3. PointsDistinct' /\ PointsComplete'
    BY <2>1 DEF E820Inv, PointsInv, PointsDistinct, PointsComplete, IsPoint, End
  <2>4. Sorted'
    BY <2>1 DEF E820Inv, PointsInv, Sorted, Before, IsStart
  <2> QED BY <2>2, <2>3, <2>4
<1>4. OverlapExact'
  BY <1>1 DEF Advances
<1>5. BuiltBelow' /\ SanitizedWellFormed'
  BY <1>1, SweepBuilds
<1>6. NotContinued'
  BY <1>1, SweepNotContinued
<1>7. ContentExact'
  BY <1>1, SweepContent
<1> QED BY <1>2, <1>3, <1>4, <1>5, <1>6, <1>7 DEF E820Inv, PointsInv, SweepInv

\* Before the sweep begins.
LEMMA PrepareKeeps == E820Inv /\ (collect \/ insert) => E820Inv'
<1> SUFFICES ASSUME E820Inv, collect \/ insert PROVE E820Inv'
  OBVIOUS
<1>1. PointsInv'
  BY CollectKeeps, InsertKeeps DEF E820Inv
<1>2. swept' = 0
  <2>1. /\ swept \in Nat /\ Len(raw) \in Nat /\ collected \in Nat /\ swept' = swept
        /\ sorted \in Nat /\ Len(change_points) \in Nat
    BY TypeFacts, Zenon DEF E820Inv, PointsInv, collect, insert
  <2>2. swept > 0 => collected = Len(raw) /\ sorted >= Len(change_points)
    BY DEF E820Inv, PointsInv, Phases
  <2>3. collected < Len(raw) \/ sorted < Len(change_points)
    BY DEF collect, insert
  <2> QED BY <2>1, <2>2, <2>3
<1>3. (TypeOK /\ Phases /\ swept = 0 => SweepInv)'
  BY NothingSwept, PTL
<1> QED BY <1>1, <1>2, <1>3 DEF E820Inv, PointsInv

\* The steps that leave the loops' variables alone.
LEMMA RestKeeps ==
  E820Inv /\ (e820_sanitize_fails \/ find_last_ram \/ UNCHANGED vars) => E820Inv'
<1> SUFFICES ASSUME E820Inv, e820_sanitize_fails \/ find_last_ram \/ UNCHANGED vars
             PROVE  E820Inv'
  OBVIOUS
<1>1. UNCHANGED <<raw, collected, change_points, sorted, swept, overlap_list,
                  last_type, last_addr, new_entries>>
  BY DEF e820_sanitize_fails, find_last_ram, vars
<1>2. PointsSound' /\ NoWrap' /\ PointsDistinct' /\ PointsComplete' /\ Sorted'
  <2>1. PointsSound' /\ NoWrap'
    BY <1>1 DEF E820Inv, PointsInv, PointsSound, NoWrap, End
  <2>2. PointsDistinct' /\ PointsComplete'
    BY <1>1 DEF E820Inv, PointsInv, PointsDistinct, PointsComplete, IsPoint, End
  <2>3. Sorted'
    BY <1>1 DEF E820Inv, PointsInv, Sorted, Before, IsStart
  <2> QED BY <2>1, <2>2, <2>3
<1>3. SweepInv'
  <2>1. Active' = Active /\ Frontier' = Frontier /\ (\A a, e : Swept(a, e)' <=> Swept(a, e))
    BY <1>1, Zenon DEF Active, Frontier, Swept, IsPoint
  <2>2. OverlapExact'
    BY <1>1, <2>1 DEF E820Inv, SweepInv, OverlapExact, End
  <2>3. TypeIsLargest'
    BY <1>1, Zenon DEF E820Inv, SweepInv, TypeIsLargest, Full, IsCurrentType
  <2>7. SanitizedWellFormed'
    BY <1>1 DEF E820Inv, SweepInv, SanitizedWellFormed, WellFormed, End
  <2>4. BuiltBelow'
    BY <1>1, <2>1 DEF E820Inv, SweepInv, BuiltBelow, Full, End
  <2>6. NotContinued'
    BY <1>1, <2>1, Zenon DEF E820Inv, SweepInv, NotContinued, Full, End, IsStart
  <2>5. ContentExact'
    BY <1>1, <2>1 DEF E820Inv, SweepInv, ContentExact, Full, IsTypeAt, Covers, End
  <2> QED BY <2>2, <2>3, <2>4, <2>5, <2>6, <2>7, Zenon DEF SweepInv
<1>4. TypeOK'
  <2>1. status' \in {"sanitize", "ready", "panic"} /\ last_ram_addr' \in 0 .. AddrMod - 1
    <3>1. status \in {"sanitize", "ready", "panic"} /\ last_ram_addr \in 0 .. AddrMod - 1
      BY DEF E820Inv, PointsInv, TypeOK
    <3>2. CASE e820_sanitize_fails
      BY <3>1, <3>2, Zenon DEF e820_sanitize_fails
    <3>3. CASE find_last_ram
      <4>1. PICK a \in 0 .. AddrMod - 1 :
              last_ram_addr' = a /\ status' = IF a = 0 THEN "panic" ELSE "ready"
        BY <3>3, Zenon DEF find_last_ram
      <4> QED BY <4>1
    <3>4. CASE UNCHANGED vars
      BY <3>1, <3>4 DEF vars
    <3> QED BY <3>2, <3>3, <3>4
  <2> QED BY <1>1, <2>1, SMTT(30) DEF E820Inv, PointsInv, TypeOK
<1>5. Phases'
  <2>1. CASE e820_sanitize_fails \/ UNCHANGED vars
    BY <1>1, <2>1, Zenon DEF E820Inv, PointsInv, Phases, e820_sanitize_fails, vars,
                      EndOfLastRam, IsRam, End
  <2>2. CASE find_last_ram
    <3>1. /\ Sanitized /\ EndOfLastRam(last_ram_addr')
          /\ status' = IF last_ram_addr' = 0 THEN "panic" ELSE "ready"
          /\ last_ram_addr' \in Nat
      BY <2>2, AddrModAssumption DEF find_last_ram
    <3>2. EndOfLastRam(last_ram_addr)'
      BY <1>1, <3>1 DEF EndOfLastRam, IsRam, End
    <3>3. last_ram_addr' > 0 => Len(raw) >= 2
      <4> SUFFICES ASSUME ~(Len(raw) >= 2) PROVE last_ram_addr' = 0
        BY <3>1
      <4>1. /\ Len(raw) \in Nat /\ collected \in Nat /\ collected <= Len(raw)
            /\ swept \in Nat /\ swept <= Len(change_points) /\ Len(change_points) \in Nat
            /\ Len(change_points) <= 2 * collected
        BY TypeFacts DEF E820Inv, PointsInv
      <4>2. collected > 0 => Len(raw) \in 2 .. E820_MAX_ENTRIES
        BY DEF E820Inv, PointsInv, Phases
      <4>3. swept = 0
        BY <4>1, <4>2, MaxEntriesAssumption
      <4>4. new_entries = <<>>
        BY <4>3 DEF E820Inv, PointsInv, Phases
      <4> QED BY <3>1, <4>4 DEF EndOfLastRam
    <3>4. last_ram_addr' > 0 =>
            /\ collected = Len(raw) /\ sorted >= Len(change_points)
            /\ swept = Len(change_points) \/ Len(new_entries) = E820_MAX_ENTRIES
      <4> SUFFICES ASSUME last_ram_addr' > 0
                   PROVE  /\ collected = Len(raw) /\ sorted >= Len(change_points)
                          /\ swept = Len(change_points) \/ Len(new_entries) = E820_MAX_ENTRIES
        OBVIOUS
      <4>1. /\ swept \in Nat /\ swept <= Len(change_points) /\ Len(change_points) \in Nat
            /\ Len(raw) \in Nat
            /\ Len(new_entries) \in Nat /\ Len(new_entries) <= E820_MAX_ENTRIES
        BY TypeFacts DEF E820Inv, PointsInv, TypeOK
      <4>2. /\ Sanitizing /\ collected = Len(raw) /\ sorted >= Len(change_points) /\ ~Sweeping
        BY <3>1, <3>3, <4>1 DEF Sanitized
      <4>3. ~(swept < Len(change_points) /\ Len(new_entries) < E820_MAX_ENTRIES)
        BY <4>2 DEF Sweeping
      <4> QED BY <4>1, <4>2, <4>3, MaxEntriesAssumption
    <3>5. status' = "ready" => last_ram_addr' > 0
      BY <3>1
    <3> QED BY <1>1, <3>2, <3>4, <3>5 DEF E820Inv, PointsInv, Phases
  <2> QED BY <2>1, <2>2
<1> QED BY <1>2, <1>3, <1>4, <1>5 DEF E820Inv, PointsInv

-----------------------------------------------------------------------------
\* The type at an address is unique.
LEMMA TypeAtUnique ==
  ASSUME NEW map, NEW a, NEW t \in Nat, NEW u \in Nat,
         \A m \in DOMAIN map : map[m].type \in Nat,
         IsTypeAt(map, a, t), IsTypeAt(map, a, u)
  PROVE  t = u
<1>1. t # 0 => t <= u
  BY DEF IsTypeAt
<1>2. u # 0 => u <= t
  BY Zenon DEF IsTypeAt
<1> QED BY <1>1, <1>2

\* Once the map is ready the two tables have the same type at every address the
\* new one describes.
LEMMA ReadyContent ==
  ASSUME E820Inv, status = "ready", NEW a \in 0 .. AddrMod - 1, Described(a)
  PROVE  \E t \in Nat : IsTypeAt(raw, a, t) /\ IsTypeAt(new_entries, a, t)
<1>1. /\ collected = Len(raw) /\ sorted >= Len(change_points)
      /\ swept = Len(change_points) \/ Full
      /\ EndOfLastRam(last_ram_addr) /\ last_ram_addr > 0
  BY DEF E820Inv, PointsInv, Phases, Full
<1>2. /\ DOMAIN raw = 1 .. Len(raw) /\ Len(raw) \in Nat
      /\ DOMAIN change_points = 1 .. Len(change_points) /\ Len(change_points) \in Nat
      /\ swept \in Nat /\ swept <= Len(change_points)
      /\ \A e \in DOMAIN raw : raw[e].addr \in Nat /\ End(raw[e]) \in Nat
      /\ \A e \in DOMAIN raw : raw[e].size \in Nat /\ End(raw[e]) = raw[e].addr + raw[e].size
      /\ \A i \in DOMAIN change_points : change_points[i].addr \in Nat
      /\ a \in Nat /\ a < AddrMod
  BY <1>1, SortedFacts, AddrModAssumption
<1>3. \A i \in 1 .. swept : change_points[i].addr <= Frontier /\ Frontier \in Nat
  BY <1>1, FrontierFacts
<1>4. ASSUME swept = Len(change_points), NEW e \in DOMAIN raw, raw[e].size > 0
      PROVE  End(raw[e]) <= Frontier /\ Swept(End(raw[e]), e)
  <2>1. \E i \in DOMAIN change_points : IsPoint(i, End(raw[e]), e)
    BY <1>1, <1>2, <1>4, Zenon DEF E820Inv, PointsInv, PointsComplete
  <2>2. PICK i \in 1 .. swept : IsPoint(i, End(raw[e]), e)
    BY <1>2, <1>4, <2>1
  <2> QED BY <1>3, <2>2 DEF IsPoint, Swept
<1>5. CASE a < Frontier
  <2>1. ~Full => last_type = 0
    <3> SUFFICES ASSUME ~Full, last_type # 0 PROVE FALSE
      OBVIOUS
    <3>1. PICK m \in DOMAIN overlap_list : raw[overlap_list[m]].type = last_type
      BY DEF E820Inv, SweepInv, TypeIsLargest, IsCurrentType
    <3>2. PICK e \in Active : TRUE
      BY <3>1, Zenon DEF Active, Members
    <3>3. e \in DOMAIN raw /\ Swept(raw[e].addr, e) /\ ~Swept(End(raw[e]), e)
      BY DEF E820Inv, SweepInv, OverlapExact
    <3>4. raw[e].size > 0
      <4>1. raw[e].size = 0 => End(raw[e]) = raw[e].addr
        BY <1>2, <3>3
      <4>2. End(raw[e]) # raw[e].addr
        BY <3>3
      <4>3. PICK s \in Nat : s = raw[e].size
        BY <1>2, <3>3, Zenon
      <4> QED BY <4>1, <4>2, <4>3
    <3> QED BY <1>1, <1>4, <3>3, <3>4
  <2> QED BY <1>5, <2>1 DEF E820Inv, SweepInv, ContentExact
<1>6. CASE ~(a < Frontier)
  <2>1. \A m \in DOMAIN new_entries :
          /\ End(new_entries[m]) <= Frontier /\ End(new_entries[m]) \in Nat
    BY NewEntryFacts DEF E820Inv, SweepInv, BuiltBelow
  <2>2. Frontier \in Nat
    BY <1>1, FrontierFacts
  <2>3. Len(new_entries) \in DOMAIN new_entries
    <3>1. new_entries \in Seq(Entries)
      BY DEF E820Inv, PointsInv, TypeOK
    <3>2. new_entries # <<>>
      BY <1>1 DEF EndOfLastRam
    <3> QED BY <3>1, <3>2
  <2>4. swept = Len(change_points)
    <3>1. ~(a < End(new_entries[Len(new_entries)]))
      <4>1. /\ End(new_entries[Len(new_entries)]) <= Frontier
            /\ End(new_entries[Len(new_entries)]) \in Nat
        BY <2>1, <2>3
      <4>2. a \in Nat /\ Frontier \in Nat /\ ~(a < Frontier)
        BY <1>2, <1>6, <2>2
      <4> QED BY <4>1, <4>2
    <3> QED BY <3>1 DEF Described
  <2>5. \A m \in DOMAIN new_entries : ~Covers(new_entries[m], a)
    BY <1>2, <1>6, <2>1, <2>2 DEF Covers
  <2>6. \A e \in DOMAIN raw : ~Covers(raw[e], a)
    <3> SUFFICES ASSUME NEW e \in DOMAIN raw, Covers(raw[e], a) PROVE FALSE
      OBVIOUS
    <3>1. raw[e].addr <= a /\ a < End(raw[e])
      BY DEF Covers
    <3>2. raw[e].size > 0
      BY <1>2, <3>1
    <3>3. End(raw[e]) <= Frontier
      BY <1>4, <2>4, <3>2
    <3> QED BY <1>2, <1>6, <2>2, <3>1, <3>3
  <2> QED BY <2>5, <2>6 DEF IsTypeAt
<1> QED BY <1>5, <1>6

\* In the new table at most one entry covers an address.
LEMMA OneCovers ==
  ASSUME E820Inv, NEW a \in Nat,
         NEW m \in DOMAIN new_entries, Covers(new_entries[m], a),
         NEW l \in DOMAIN new_entries, Covers(new_entries[l], a)
  PROVE  m = l
<1>1. /\ new_entries[m].addr \in Nat /\ End(new_entries[m]) \in Nat /\ m \in Nat
      /\ new_entries[l].addr \in Nat /\ End(new_entries[l]) \in Nat /\ l \in Nat
  <2>1. new_entries \in Seq(Entries)
    BY DEF E820Inv, PointsInv, TypeOK
  <2> QED BY <2>1, NewEntryFacts
<1>2. /\ m < l => End(new_entries[m]) <= new_entries[l].addr
      /\ l < m => End(new_entries[l]) <= new_entries[m].addr
  BY <1>1 DEF E820Inv, SweepInv, SanitizedWellFormed, WellFormed
<1> QED BY <1>1, <1>2 DEF Covers

\* E820Inv implies the two properties of the finished map.
LEMMA ReadyTypes == E820Inv => LargestTypeWins
<1> SUFFICES ASSUME E820Inv, status = "ready",
                    NEW a \in 0 .. AddrMod - 1, Described(a),
                    NEW t \in {0} \cup {raw[m].type : m \in DOMAIN raw}, IsTypeAt(raw, a, t)
             PROVE  IsTypeAt(new_entries, a, t)
  BY DEF LargestTypeWins
<1>1. PICK u \in Nat : IsTypeAt(raw, a, u) /\ IsTypeAt(new_entries, a, u)
  BY ReadyContent
<1>2. \A m \in DOMAIN raw : raw[m].type \in Nat
  BY SortedFacts, Zenon DEF E820Inv, PointsInv, Phases
<1>3. t \in Nat
  BY <1>2
<1>4. t = u
  BY <1>1, <1>2, <1>3, TypeAtUnique
<1> QED BY <1>1, <1>4

LEMMA ReadyTop == E820Inv => LastRamIsTop
<1> SUFFICES ASSUME E820Inv, status = "ready"
             PROVE  /\ IsTypeAt(raw, last_ram_addr - 1, E820_TYPE_RAM)
                    /\ \A a \in last_ram_addr .. AddrMod - 1 :
                         Described(a) => ~IsTypeAt(raw, a, E820_TYPE_RAM)
  BY DEF LastRamIsTop
<1>1. /\ collected = Len(raw) /\ sorted >= Len(change_points)
      /\ swept = Len(change_points) \/ Full
      /\ EndOfLastRam(last_ram_addr) /\ last_ram_addr > 0
      /\ last_ram_addr \in Nat /\ last_ram_addr < AddrMod
      /\ new_entries \in Seq(Entries)
  BY AddrModAssumption DEF E820Inv, PointsInv, Phases, Full, TypeOK
<1>2. \A m \in DOMAIN raw : raw[m].type \in Nat
  BY <1>1, SortedFacts
<1>3. \A m \in DOMAIN new_entries : new_entries[m].type \in Nat
  BY NewEntryFacts
<1>4. PICK m \in DOMAIN new_entries :
        /\ IsRam(m) /\ last_ram_addr = End(new_entries[m])
        /\ \A l \in m + 1 .. Len(new_entries) : ~IsRam(l)
  BY <1>1 DEF EndOfLastRam
<1>5. IsTypeAt(raw, last_ram_addr - 1, E820_TYPE_RAM)
  <2>1. PICK x \in Nat : x = last_ram_addr - 1
    BY <1>1
  <2>2. x \in 0 .. AddrMod - 1
    BY <1>1, <2>1, AddrModAssumption
  <2>3. Covers(new_entries[m], x)
    <3>1. new_entries[m].size > 0
      BY DEF E820Inv, SweepInv, SanitizedWellFormed, WellFormed
    <3>2. /\ new_entries[m].addr \in Nat /\ new_entries[m].size \in Nat
          /\ End(new_entries[m]) = new_entries[m].addr + new_entries[m].size
      BY NewEntryFacts
    <3> QED BY <1>1, <1>4, <2>1, <3>1, <3>2 DEF Covers
  <2>4. IsTypeAt(new_entries, x, E820_TYPE_RAM)
    <3>1. new_entries[m].type = E820_TYPE_RAM
      BY <1>4 DEF IsRam
    <3>2. \A l \in DOMAIN new_entries : Covers(new_entries[l], x) => l = m
      BY <2>3, OneCovers
    <3> QED BY <2>3, <3>1, <3>2 DEF IsTypeAt, E820_TYPE_RAM
  <2>5. Described(x)
    <3>1. CASE swept = Len(change_points)
      BY <3>1 DEF Described
    <3>2. CASE Full
      <4>1. /\ End(new_entries[Len(new_entries)]) = Frontier
            /\ End(new_entries[m]) <= Frontier
        BY <3>2 DEF E820Inv, SweepInv, BuiltBelow
      <4>2. Frontier \in Nat
        BY <1>1, FrontierFacts
      <4>3. x < Frontier
        BY <1>1, <1>4, <2>1, <4>1, <4>2
      <4> QED BY <4>1, <4>3 DEF Described
    <3> QED BY <1>1, <3>1, <3>2
  <2>6. PICK u \in Nat : IsTypeAt(raw, x, u) /\ IsTypeAt(new_entries, x, u)
    BY <2>2, <2>5, ReadyContent
  <2>7. E820_TYPE_RAM \in Nat
    BY DEF E820_TYPE_RAM
  <2>8. u = E820_TYPE_RAM
    BY <1>3, <2>4, <2>6, <2>7, TypeAtUnique
  <2> QED BY <2>1, <2>6, <2>8
<1>6. ASSUME NEW a \in last_ram_addr .. AddrMod - 1, Described(a),
             IsTypeAt(raw, a, E820_TYPE_RAM)
      PROVE  FALSE
  <2>1. a \in 0 .. AddrMod - 1 /\ a \in Nat /\ last_ram_addr <= a
    BY <1>1, AddrModAssumption
  <2>2. PICK u \in Nat : IsTypeAt(raw, a, u) /\ IsTypeAt(new_entries, a, u)
    BY <1>6, <2>1, ReadyContent
  <2>3. E820_TYPE_RAM \in Nat
    BY DEF E820_TYPE_RAM
  <2>4. u = E820_TYPE_RAM
    BY <1>2, <1>6, <2>2, <2>3, TypeAtUnique
  <2>5. PICK l \in DOMAIN new_entries : Covers(new_entries[l], a) /\ IsRam(l)
    BY <2>2, <2>4 DEF IsTypeAt, IsRam, E820_TYPE_RAM
  <2>6. DOMAIN new_entries = 1 .. Len(new_entries) /\ Len(new_entries) \in Nat
    BY <1>1
  <2>7. ~(l > m)
    BY <1>4, <2>5, <2>6
  <2>8. /\ End(new_entries[l]) \in Nat /\ new_entries[m].addr \in Nat
        /\ new_entries[m].size \in Nat
        /\ End(new_entries[m]) = new_entries[m].addr + new_entries[m].size
    BY NewEntryFacts
  <2>9. l < m => End(new_entries[l]) <= new_entries[m].addr
    BY <2>8 DEF E820Inv, SweepInv, SanitizedWellFormed, WellFormed
  <2>10. End(new_entries[l]) <= End(new_entries[m])
    BY <2>6, <2>7, <2>8, <2>9
  <2> QED BY <1>4, <2>1, <2>5, <2>8, <2>10 DEF Covers
<1> QED BY <1>5, <1>6

-----------------------------------------------------------------------------
\* e820_sanitize keeps its invariant for every table the firmware may pass.
THEOREM E820Invariant == Spec => []E820Inv
<1>1. Init => E820Inv
  <2>1. Init => PointsInv /\ swept = 0
    BY InitPoints DEF Init
  <2> QED BY <2>1, NothingSwept DEF E820Inv, PointsInv
<1>2. E820Inv /\ [Next]_vars => E820Inv'
  BY SweepKeeps, PrepareKeeps, RestKeeps DEF Next, Returned
<1> QED BY <1>1, <1>2, PTL DEF Spec

\* e820_sanitize stays inside its arrays: change_points, overlap_list and
\* new_entries never outgrow them, whatever table the firmware passes.
THEOREM E820TypeCorrect == Spec => []TypeOK
<1>1. E820Inv => TypeOK
  BY DEF E820Inv, PointsInv
<1> QED BY <1>1, E820Invariant, PTL

\* At every step of the sweep the table that e820_sanitize has built is sorted,
\* disjoint, without empty entries, and adjoining entries of a type are merged.
THEOREM E820WellFormed == Spec => []SanitizedWellFormed
<1>1. E820Inv => SanitizedWellFormed
  BY DEF E820Inv, SweepInv
<1> QED BY <1>1, E820Invariant, PTL

\* When e820_init is done, every address the new table describes has there the
\* largest type of the firmware's entries that cover it.
THEOREM E820LargestTypeWins == Spec => []LargestTypeWins
  BY ReadyTypes, E820Invariant, PTL

\* The last_ram_addr that e820_init computes is the end of the firmware's RAM.
THEOREM E820LastRam == Spec => []LastRamIsTop
  BY ReadyTop, E820Invariant, PTL
=============================================================================
