---------------------------- MODULE ConsoleProofs ---------------------------
(***************************************************************************)
(* Proofs about Console, for every screen, all texts and any number of     *)
(* messages and ticks; and what accesses and the paper come to, which      *)
(* ConsoleScreenProofs needs.                                              *)
(***************************************************************************)
EXTENDS Console, WellFoundedInduction, TLAPS

\* Every nonempty set of natural numbers has a least element.
LEMMA LeastNat ==
  ASSUME NEW T \in SUBSET Nat, T # {}
  PROVE  \E x \in T : \A y \in T : x <= y
<1> DEFINE R == OpToRel(<, Nat)
<1>1. IsWellFoundedOn(R, Nat)
  BY NatLessThanWellFounded, ZenonT(30)
<1>2. \A x, y \in Nat : <<y, x>> \in R <=> y < x
  BY DEF OpToRel
<1> HIDE DEF R
<1>3. PICK x \in T : \A y \in T : ~(<<y, x>> \in R)
  BY <1>1, WFMin, ZenonT(30)
<1>4. \A y \in T : ~(y < x)
  BY <1>2, <1>3, Zenon
<1> QED BY <1>4

\* A set of numbers up to n that has 0 and with every number below n the next one
\* has them all.
LEMMA UpTo ==
  ASSUME NEW n \in Nat, NEW T, 0 \in T, \A i \in 0 .. n - 1 : i \in T => i + 1 \in T
  PROVE  \A i \in 0 .. n : i \in T
<1> SUFFICES ASSUME NEW j \in 0 .. n, j \notin T PROVE FALSE
  OBVIOUS
<1> DEFINE U == {i \in 0 .. n : i \notin T}
<1>0. U \in SUBSET Nat /\ U # {} /\ \A i : i \in U <=> i \in 0 .. n /\ i \notin T
  OBVIOUS
<1> HIDE DEF U
<1>1. PICK x \in U : \A y \in U : x <= y
  BY <1>0, LeastNat
<1>2. x # 0 /\ x - 1 \in 0 .. n - 1 /\ ~(x <= x - 1)
  BY <1>0, <1>1
<1>3. x - 1 \in T
  BY <1>0, <1>1, <1>2
<1> QED BY <1>0, <1>2, <1>3

\* A function defined by recursion on a number.
Recurs(f, n, S, a, g) ==
  f \in [0 .. n -> S] /\ f[0] = a /\ \A i \in 1 .. n : f[i] = g[i][f[i - 1]]

LEMMA Recursion ==
  ASSUME NEW n \in Nat, NEW S, NEW a \in S, NEW g \in [1 .. n -> [S -> S]]
  PROVE  \E f : Recurs(f, n, S, a, g)
<1> DEFINE P(m) == \E f \in [0 .. m -> S] : f[0] = a /\ \A i \in 1 .. m : f[i] = g[i][f[i - 1]]
           T == {m \in 0 .. n : P(m)}
<1>1. 0 \in T
  <2>1. PICK f \in [0 .. 0 -> S] : f[0] = a
    <3>1. [i \in 0 .. 0 |-> a] \in [0 .. 0 -> S] /\ [i \in 0 .. 0 |-> a][0] = a
      OBVIOUS
    <3> QED BY <3>1, Zenon
  <2>2. \A i \in 1 .. 0 : f[i] = g[i][f[i - 1]]
    OBVIOUS
  <2>3. P(0) /\ 0 \in 0 .. n
    BY <2>1, <2>2
  <2> QED BY <2>3, Zenon
<1>2. ASSUME NEW m \in 0 .. n - 1, m \in T PROVE m + 1 \in T
  <2>1. PICK f \in [0 .. m -> S] : f[0] = a /\ \A i \in 1 .. m : f[i] = g[i][f[i - 1]]
    BY <1>2, Zenon
  <2>2. m \in Nat /\ m + 1 \in 1 .. n /\ m + 1 \in 0 .. n /\ f[m] \in S
    OBVIOUS
  <2>3. PICK x \in S : x = g[m + 1][f[m]]
    BY <2>2
  <2>4. PICK h \in [0 .. m + 1 -> S] : \A i \in 0 .. m + 1 : h[i] = IF i = m + 1 THEN x ELSE f[i]
    <3>1. [i \in 0 .. m + 1 |-> IF i = m + 1 THEN x ELSE f[i]] \in [0 .. m + 1 -> S]
      BY <2>2
    <3> QED BY <3>1, Zenon
  <2>5. ASSUME NEW i \in 1 .. m + 1 PROVE h[i] = g[i][h[i - 1]]
    <3>1. i - 1 \in 0 .. m /\ h[i - 1] = f[i - 1]
      BY <2>2, <2>4
    <3>2. CASE i = m + 1
      BY <2>2, <2>3, <2>4, <3>1, <3>2
    <3>3. CASE i # m + 1
      <4>1. i \in 1 .. m /\ h[i] = f[i]
        BY <2>2, <2>4, <3>3
      <4> QED BY <2>1, <3>1, <4>1, Zenon
    <3> QED BY <3>2, <3>3
  <2>6. h[0] = a
    BY <2>1, <2>2, <2>4
  <2>7. P(m + 1)
    BY <2>5, <2>6, Zenon
  <2> QED BY <2>2, <2>7, Zenon
<1>3. n \in T
  <2> HIDE DEF T
  <2>1. \A m \in 0 .. n : m \in T
    BY <1>1, <1>2, UpTo, Zenon
  <2> QED BY <2>1
<1> QED BY <1>3, Zenon DEF Recurs

(***************************************************************************)
(* Concatenations.                                                         *)
(***************************************************************************)

\* What is printed and sent; the provers are not told that a quoted string is in STRING.
Tokens == STRING \cup Codes \cup {"ESC[", "0m", "\n"}

LEMMA TokensHold == Codes \subseteq Tokens /\ "ESC[" \in Tokens /\ "0m" \in Tokens /\ "\n" \in Tokens
BY Zenon DEF Tokens

LEMMA Concat ==
  ASSUME NEW S, NEW a \in Seq(S), NEW b \in Seq(S)
  PROVE  /\ a \o b \in Seq(S) /\ Len(a \o b) = Len(a) + Len(b)
         /\ \A i \in 1 .. Len(a) : (a \o b)[i] = a[i]
         /\ \A i \in 1 .. Len(b) : (a \o b)[Len(a) + i] = b[i]
OBVIOUS

LEMMA Elements ==
  ASSUME NEW S, NEW a \in Seq(S)
  PROVE  Len(a) \in Nat /\ DOMAIN a = 1 .. Len(a) /\ \A i \in 1 .. Len(a) : a[i] \in S
OBVIOUS

LEMMA Appended ==
  ASSUME NEW S, NEW a \in Seq(S), NEW c \in S
  PROVE  /\ Append(a, c) \in Seq(S) /\ Len(Append(a, c)) = Len(a) + 1
         /\ Append(a, c)[Len(a) + 1] = c /\ \A i \in 1 .. Len(a) : Append(a, c)[i] = a[i]
         /\ <<c>> \in Seq(S)
OBVIOUS

\* g[k] is the first k sequences of ss joined.
IsJoin(g, ss, S) ==
  /\ g \in [0 .. Len(ss) -> Seq(S)] /\ g[0] = <<>>
  /\ \A k \in 1 .. Len(ss) : g[k] = g[k - 1] \o ss[k]

JoinStep(f, ss) == [k \in 0 .. Len(ss) |-> IF k = 0 THEN <<>> ELSE f[k - 1] \o ss[k]]
Join(ss) == CHOOSE f : f = JoinStep(f, ss)

LEMMA JoinedIsJoin ==
  ASSUME NEW ss
  PROVE  Joined(ss) = Join(ss)[Len(ss)]
BY Zenon DEF Joined, Join, JoinStep

LEMMA JoinSteps ==
  ASSUME NEW S, NEW ss \in Seq(Seq(S))
  PROVE  IsJoin(Join(ss), ss, S)
<1>1. PICK n \in Nat : n = Len(ss)
  OBVIOUS
<1>2. \A k \in 1 .. n : ss[k] \in Seq(S)
  BY <1>1
<1>20. PICK Q : Q = Seq(S)
  OBVIOUS
<1>21. PICK e \in Q : e = <<>>
  <2>1. <<>> \in Seq(S)
    OBVIOUS
  <2> QED BY <1>20, <2>1, Zenon
<1>3. PICK h \in [0 .. n -> Q] : h[0] = e /\ \A k \in 1 .. n : h[k] = h[k - 1] \o ss[k]
  <2>1. PICK g : g = [k \in 1 .. n |-> [x \in Q |-> x \o ss[k]]]
    BY Zenon
  <2>2. \A k \in 1 .. n : \A x \in Q : x \o ss[k] \in Q
    BY <1>2, <1>20, Concat
  <2>3. g \in [1 .. n -> [Q -> Q]] /\ \A k \in 1 .. n : \A x \in Q : g[k][x] = x \o ss[k]
    BY <2>1, <2>2, Zenon
  <2>4. PICK h : Recurs(h, n, Q, e, g)
    BY <2>3, Recursion, Zenon
  <2>5. h \in [0 .. n -> Q] /\ h[0] = e /\ \A k \in 1 .. n : h[k] = g[k][h[k - 1]]
    BY <2>4 DEF Recurs
  <2>6. ASSUME NEW k \in 1 .. n PROVE h[k] = h[k - 1] \o ss[k]
    <3>1. k - 1 \in 0 .. n
      OBVIOUS
    <3>2. h[k - 1] \in Q
      BY <2>5, <3>1, Zenon
    <3> QED BY <2>3, <2>5, <3>2, Zenon
  <2> QED BY <2>5, <2>6, Zenon
<1>4. h = JoinStep(h, ss)
  <2>1. ASSUME NEW k \in 0 .. n PROVE h[k] = IF k = 0 THEN <<>> ELSE h[k - 1] \o ss[k]
    <3>1. k = 0 \/ k \in 1 .. n
      OBVIOUS
    <3>2. k \in 1 .. n => k # 0
      OBVIOUS
    <3> QED BY <1>3, <1>21, <3>1, <3>2, Zenon
  <2>2. h = [k \in 0 .. n |-> h[k]]
    OBVIOUS
  <2> QED BY <1>1, <2>1, <2>2, Zenon DEF JoinStep
<1>5. PICK f : f = Join(ss) /\ f = JoinStep(f, ss)
  BY <1>4, Zenon DEF Join
<1>6. /\ f = [k \in 0 .. n |-> f[k]] /\ f[0] = <<>>
      /\ \A k \in 1 .. n : f[k] = f[k - 1] \o ss[k]
  <2>1. f = [k \in 0 .. n |-> IF k = 0 THEN <<>> ELSE f[k - 1] \o ss[k]]
    BY <1>1, <1>5, Zenon DEF JoinStep
  <2>2. \A k \in 0 .. n : f[k] = IF k = 0 THEN <<>> ELSE f[k - 1] \o ss[k]
    BY <2>1, Zenon
  <2>3. 0 \in 0 .. n /\ \A k \in 1 .. n : k \in 0 .. n /\ k # 0
    OBVIOUS
  <2>4. f = [k \in 0 .. n |-> f[k]]
    BY <2>1
  <2> QED BY <2>2, <2>3, <2>4, Zenon
<1>7. \A k \in 0 .. n : f[k] \in Seq(S)
  <2>1. PICK T : T = {k \in 0 .. n : f[k] \in Seq(S)}
    BY Zenon
  <2>2. 0 \in T
    <3>1. 0 \in 0 .. n
      OBVIOUS
    <3> QED BY <1>6, <1>20, <1>21, <2>1, <3>1, Zenon
  <2>3. ASSUME NEW k \in 0 .. n - 1, k \in T PROVE k + 1 \in T
    <3>1. k + 1 \in 1 .. n /\ k + 1 \in 0 .. n /\ (k + 1) - 1 = k
      OBVIOUS
    <3>2. f[k + 1] = f[k] \o ss[k + 1] /\ f[k] \in Seq(S) /\ ss[k + 1] \in Seq(S)
      BY <1>2, <1>6, <2>1, <2>3, <3>1, Zenon
    <3>3. \A a, b \in Seq(S) : a \o b \in Seq(S)
      BY Concat
    <3> QED BY <2>1, <3>1, <3>2, <3>3, Zenon
  <2>4. \A k \in 0 .. n : k \in T
    BY <2>2, <2>3, UpTo, Zenon
  <2> QED BY <2>1, <2>4
<1>8. f \in [0 .. n -> Seq(S)]
  BY <1>6, <1>7, Zenon
<1> QED BY <1>1, <1>5, <1>6, <1>8, Zenon DEF IsJoin

\* A set of sequences that is closed under concatenation is closed under Joined.
LEMMA JoinedIn ==
  ASSUME NEW S, NEW W \in SUBSET Seq(S), <<>> \in W, \A a, b \in W : a \o b \in W,
         NEW ss \in Seq(W)
  PROVE  Joined(ss) \in W
<1>1. ss \in Seq(Seq(S))
  OBVIOUS
<1>20. PICK g : g = Join(ss)
  OBVIOUS
<1>2. PICK n \in Nat : n = Len(ss) /\ IsJoin(g, ss, S) /\ Joined(ss) = g[n]
  BY <1>1, <1>20, JoinSteps, JoinedIsJoin
<1>3. PICK T : T = {k \in 0 .. n : g[k] \in W}
  BY Zenon
<1>4. 0 \in T
  BY <1>2, <1>3 DEF IsJoin
<1>5. ASSUME NEW k \in 0 .. n - 1, k \in T PROVE k + 1 \in T
  <2>1. k + 1 \in 1 .. n /\ k + 1 \in 0 .. n /\ (k + 1) - 1 = k
    OBVIOUS
  <2>2. g[k + 1] = g[k] \o ss[k + 1]
    BY <1>2, <2>1, Zenon DEF IsJoin
  <2>3. ss[k + 1] \in W /\ g[k] \in W
    BY <1>2, <1>3, <1>5, <2>1
  <2> QED BY <1>3, <2>1, <2>2, <2>3, Zenon
<1>6. \A k \in 0 .. n : k \in T
  BY <1>4, <1>5, UpTo
<1> QED BY <1>2, <1>3, <1>6

LEMMA Single ==
  ASSUME NEW S, NEW a \in S
  PROVE  <<a>> \in Seq(S) /\ Len(<<a>>) = 1 /\ <<a>>[1] = a
OBVIOUS

LEMMA Associative ==
  ASSUME NEW S, NEW a \in Seq(S), NEW b \in Seq(S), NEW c \in Seq(S)
  PROVE  (a \o b) \o c = a \o (b \o c)
OBVIOUS

LEMMA ConcatEmpty ==
  ASSUME NEW S, NEW a \in Seq(S)
  PROVE  a \o <<>> = a /\ <<>> \o a = a
OBVIOUS

LEMMA JoinedConcat ==
  ASSUME NEW S, NEW a \in Seq(Seq(S)), NEW b \in Seq(Seq(S))
  PROVE  /\ Joined(a) \in Seq(S) /\ Joined(b) \in Seq(S)
         /\ Joined(a \o b) = Joined(a) \o Joined(b)
<1>0. \A d, e, w \in Seq(S) : (d \o e) \o w = d \o (e \o w)
  BY Associative
<1>1. PICK c \in Seq(Seq(S)) : c = a \o b
  BY Concat, Zenon
<1>2. PICK m \in Nat : m = Len(a)
  OBVIOUS
<1>3. PICK n \in Nat : n = Len(b)
  OBVIOUS
<1>4. /\ Len(c) = m + n /\ \A i \in 1 .. m : c[i] = a[i]
      /\ \A i \in 1 .. n : c[m + i] = b[i] /\ b[i] \in Seq(S)
  BY <1>1, <1>2, <1>3, Concat
<1>5. PICK f : f = Join(a) /\ IsJoin(f, a, S) /\ Joined(a) = f[m]
  BY <1>2, JoinSteps, JoinedIsJoin
<1>6. PICK g : g = Join(b) /\ IsJoin(g, b, S) /\ Joined(b) = g[n]
  BY <1>3, JoinSteps, JoinedIsJoin
<1>7. PICK h : h = Join(c) /\ IsJoin(h, c, S) /\ Joined(c) = h[m + n]
  BY <1>4, JoinSteps, JoinedIsJoin, Zenon
<1>8. /\ f \in [0 .. m -> Seq(S)] /\ f[0] = <<>> /\ \A k \in 1 .. m : f[k] = f[k - 1] \o a[k]
      /\ g \in [0 .. n -> Seq(S)] /\ g[0] = <<>> /\ \A k \in 1 .. n : g[k] = g[k - 1] \o b[k]
      /\ h \in [0 .. m + n -> Seq(S)] /\ h[0] = <<>>
      /\ \A k \in 1 .. m + n : h[k] = h[k - 1] \o c[k]
  BY <1>2, <1>3, <1>4, <1>5, <1>6, <1>7, Zenon DEF IsJoin
<1>9. \A k \in 0 .. m : h[k] = f[k]
  <2>1. PICK T : T = {k \in 0 .. m : h[k] = f[k]}
    BY Zenon
  <2>2. 0 \in T
    BY <1>8, <2>1
  <2>3. ASSUME NEW k \in 0 .. m - 1, k \in T PROVE k + 1 \in T
    <3>1. k + 1 \in 1 .. m /\ k + 1 \in 0 .. m /\ (k + 1) - 1 = k /\ k + 1 \in 1 .. m + n
      OBVIOUS
    <3>2. h[k + 1] = h[k] \o c[k + 1] /\ f[k + 1] = f[k] \o a[k + 1]
      BY <1>8, <3>1, Zenon
    <3>3. c[k + 1] = a[k + 1] /\ h[k] = f[k]
      BY <1>4, <2>1, <2>3, <3>1, Zenon
    <3> QED BY <2>1, <3>1, <3>2, <3>3, Zenon
  <2>4. \A k \in 0 .. m : k \in T
    BY <2>2, <2>3, UpTo, Zenon
  <2> QED BY <2>1, <2>4
<1>10. PICK p \in Seq(S) : p = f[m] /\ h[m] = p
  <2>1. m \in 0 .. m
    OBVIOUS
  <2> QED BY <1>8, <1>9, <2>1, Zenon
<1>11. \A k \in 0 .. n : h[m + k] = p \o g[k]
  <2>1. PICK T : T = {k \in 0 .. n : h[m + k] = p \o g[k]}
    BY Zenon
  <2>2. 0 \in T
    <3>1. 0 \in 0 .. n /\ m + 0 = m
      OBVIOUS
    <3>2. h[m + 0] = p \o g[0]
      BY <1>8, <1>10, <3>1, ConcatEmpty
    <3> QED BY <2>1, <3>1, <3>2, Zenon
  <2>3. ASSUME NEW k \in 0 .. n - 1, k \in T PROVE k + 1 \in T
    <3>1. /\ k + 1 \in 1 .. n /\ k + 1 \in 0 .. n /\ (k + 1) - 1 = k /\ k \in 0 .. n
          /\ m + (k + 1) \in 1 .. m + n /\ (m + (k + 1)) - 1 = m + k
      OBVIOUS
    <3>2. h[m + (k + 1)] = h[m + k] \o b[k + 1] /\ g[k + 1] = g[k] \o b[k + 1]
      BY <1>4, <1>8, <3>1, Zenon
    <3>3. h[m + k] = p \o g[k] /\ g[k] \in Seq(S) /\ b[k + 1] \in Seq(S)
      BY <1>4, <1>8, <2>1, <2>3, <3>1, Zenon
    <3>4. (p \o g[k]) \o b[k + 1] = p \o (g[k] \o b[k + 1])
      <4>1. PICK u \in Seq(S), v \in Seq(S) : u = g[k] /\ v = b[k + 1]
        BY <3>3
      <4>2. (p \o u) \o v = p \o (u \o v)
        BY <1>0, Zenon
      <4> QED BY <4>1, <4>2
    <3> QED BY <2>1, <3>1, <3>2, <3>3, <3>4, Zenon
  <2>4. \A k \in 0 .. n : k \in T
    BY <2>2, <2>3, UpTo, Zenon
  <2> QED BY <2>1, <2>4, Zenon
<1>12. n \in 0 .. n
  OBVIOUS
<1>13. g[n] \in Seq(S)
  BY <1>8, <1>12
<1> QED BY <1>1, <1>5, <1>6, <1>7, <1>10, <1>11, <1>12, <1>13, Zenon

\* A relation that is kept by concatenation is kept by Joined.
LEMMA JoinedRelated ==
  ASSUME NEW S, NEW U, NEW R, <<<<>>, <<>>>> \in R,
         \A a, c \in Seq(S), b, d \in Seq(U) :
           <<a, b>> \in R /\ <<c, d>> \in R => <<a \o c, b \o d>> \in R,
         NEW ss \in Seq(Seq(S)), NEW tt \in Seq(Seq(U)), Len(ss) = Len(tt),
         \A k \in 1 .. Len(ss) : <<ss[k], tt[k]>> \in R
  PROVE  <<Joined(ss), Joined(tt)>> \in R
<1>1. PICK n \in Nat : n = Len(ss) /\ n = Len(tt)
  OBVIOUS
<1>2. PICK f : f = Join(ss) /\ IsJoin(f, ss, S) /\ Joined(ss) = f[n]
  BY <1>1, JoinSteps, JoinedIsJoin
<1>3. PICK g : g = Join(tt) /\ IsJoin(g, tt, U) /\ Joined(tt) = g[n]
  BY <1>1, JoinSteps, JoinedIsJoin
<1>4. /\ f \in [0 .. n -> Seq(S)] /\ f[0] = <<>> /\ \A k \in 1 .. n : f[k] = f[k - 1] \o ss[k]
      /\ g \in [0 .. n -> Seq(U)] /\ g[0] = <<>> /\ \A k \in 1 .. n : g[k] = g[k - 1] \o tt[k]
  BY <1>1, <1>2, <1>3, Zenon DEF IsJoin
<1>5. \A k \in 1 .. n : ss[k] \in Seq(S) /\ tt[k] \in Seq(U) /\ <<ss[k], tt[k]>> \in R
  BY <1>1
<1>6. PICK T : T = {k \in 0 .. n : <<f[k], g[k]>> \in R}
  BY Zenon
<1>7. 0 \in T
  <2>1. 0 \in 0 .. n
    OBVIOUS
  <2> QED BY <1>4, <1>6, <2>1, Zenon
<1>8. ASSUME NEW k \in 0 .. n - 1, k \in T PROVE k + 1 \in T
  <2>1. k + 1 \in 1 .. n /\ k + 1 \in 0 .. n /\ (k + 1) - 1 = k /\ k \in 0 .. n
    OBVIOUS
  <2>2. f[k + 1] = f[k] \o ss[k + 1] /\ g[k + 1] = g[k] \o tt[k + 1]
    BY <1>4, <2>1, Zenon
  <2>3. f[k] \in Seq(S) /\ g[k] \in Seq(U) /\ <<f[k], g[k]>> \in R
    BY <1>4, <1>6, <1>8, <2>1, Zenon
  <2>4. <<f[k] \o ss[k + 1], g[k] \o tt[k + 1]>> \in R
    BY <1>5, <2>1, <2>3, Zenon
  <2> QED BY <1>6, <2>1, <2>2, <2>4, Zenon
<1>9. \A k \in 0 .. n : k \in T
  BY <1>7, <1>8, UpTo, Zenon
<1>10. n \in 0 .. n
  OBVIOUS
<1> QED BY <1>2, <1>3, <1>6, <1>9, <1>10, Zenon

\* Few sequences.
LEMMA JoinedFew ==
  ASSUME NEW S
  PROVE  /\ Joined(<<>>) = <<>>
         /\ \A x \in Seq(S) : Joined(<<x>>) = x
         /\ \A ss \in Seq(Seq(S)), x \in Seq(S) : Joined(Append(ss, x)) = Joined(ss) \o x
<1>1. ASSUME NEW x \in Seq(S) PROVE Joined(<<x>>) = x
  <2>0. PICK ss : ss = <<x>>
    BY Zenon
  <2>1. ss \in Seq(Seq(S)) /\ ss = <<x>> /\ Len(ss) = 1 /\ ss[1] = x
    BY <2>0, Single
  <2>2. PICK g : g = Join(ss) /\ IsJoin(g, ss, S) /\ Joined(ss) = g[1]
    BY <2>1, JoinSteps, JoinedIsJoin, Zenon
  <2>3. 1 \in 1 .. 1 /\ 1 - 1 = 0
    OBVIOUS
  <2>4. g[1] = <<>> \o x
    BY <2>1, <2>2, <2>3, Zenon DEF IsJoin
  <2> QED BY <2>1, <2>2, <2>4, ConcatEmpty
<1>2. Joined(<<>>) = <<>>
  <2>0. PICK ss : ss = <<>>
    OBVIOUS
  <2>1. ss \in Seq(Seq(S)) /\ ss = <<>> /\ Len(ss) = 0
    BY <2>0
  <2>2. PICK g : g = Join(ss) /\ IsJoin(g, ss, S) /\ Joined(ss) = g[0]
    BY <2>1, JoinSteps, JoinedIsJoin, Zenon
  <2> QED BY <2>1, <2>2, Zenon DEF IsJoin
<1>3. ASSUME NEW ss \in Seq(Seq(S)), NEW x \in Seq(S) PROVE Joined(Append(ss, x)) = Joined(ss) \o x
  <2>0. PICK o : o = <<x>>
    BY Zenon
  <2>1. o \in Seq(Seq(S)) /\ o = <<x>>
    BY <2>0, Single
  <2>2. Append(ss, x) = ss \o o
    BY <2>1
  <2>3. Joined(ss \o o) = Joined(ss) \o Joined(o)
    BY <2>1, JoinedConcat, Zenon
  <2> QED BY <1>1, <2>1, <2>2, <2>3, Zenon
<1> QED BY <1>1, <1>2, <1>3

(***************************************************************************)
(* How a text is cut.                                                      *)
(***************************************************************************)

Contexts == [flushed : Seq(Seq(Tokens)), buffer : Seq(Tokens)]
NewContext == [flushed |-> <<>>, buffer |-> <<>>]

LEMMA PutcContext ==
  ASSUME NEW x \in Contexts, NEW c \in Tokens
  PROVE  _putc(x, c) \in Contexts
<1>1. /\ Append(x.flushed, x.buffer) \in Seq(Seq(Tokens))
      /\ Append(x.buffer, c) \in Seq(Tokens) /\ <<c>> \in Seq(Tokens)
  BY Appended DEF Contexts
<1> QED BY <1>1, Zenon DEF Contexts, _putc

\* f[i] is the context when i characters of the text have been put.
IsCut(f, text) ==
  /\ f \in [0 .. Len(text) -> Contexts] /\ f[0] = NewContext
  /\ \A i \in 1 .. Len(text) : f[i] = _putc(f[i - 1], text[i])

CutStep(f, text) == [i \in 0 .. Len(text) |-> IF i = 0 THEN NewContext ELSE _putc(f[i - 1], text[i])]
Cut(text) == CHOOSE f : f = CutStep(f, text)

LEMMA ChunksIsCut ==
  ASSUME NEW text
  PROVE  Chunks(text) = LET end == Cut(text)[Len(text)]
                        IN  IF end.buffer = <<>> THEN end.flushed ELSE Append(end.flushed, end.buffer)
BY Zenon DEF Chunks, Cut, CutStep, NewContext

LEMMA CutSteps ==
  ASSUME NEW text \in Seq(Tokens)
  PROVE  IsCut(Cut(text), text)
<1>1. PICK n \in Nat : n = Len(text)
  OBVIOUS
<1>2. \A k \in 1 .. n : text[k] \in Tokens
  BY <1>1
<1>3. NewContext \in Contexts
  BY DEF NewContext, Contexts
<1>4. PICK h \in [0 .. n -> Contexts] :
        h[0] = NewContext /\ \A k \in 1 .. n : h[k] = _putc(h[k - 1], text[k])
  <2>1. PICK g : g = [k \in 1 .. n |-> [x \in Contexts |-> _putc(x, text[k])]]
    BY Zenon
  <2>2. \A k \in 1 .. n : \A x \in Contexts : _putc(x, text[k]) \in Contexts
    BY <1>2, PutcContext
  <2>3. /\ g \in [1 .. n -> [Contexts -> Contexts]]
        /\ \A k \in 1 .. n : \A x \in Contexts : g[k][x] = _putc(x, text[k])
    BY <2>1, <2>2, Zenon
  <2>4. PICK h : Recurs(h, n, Contexts, NewContext, g)
    BY <1>3, <2>3, Recursion, Zenon
  <2>5. /\ h \in [0 .. n -> Contexts] /\ h[0] = NewContext
        /\ \A k \in 1 .. n : h[k] = g[k][h[k - 1]]
    BY <2>4 DEF Recurs
  <2>6. ASSUME NEW k \in 1 .. n PROVE h[k] = _putc(h[k - 1], text[k])
    <3>1. k - 1 \in 0 .. n
      OBVIOUS
    <3>2. h[k - 1] \in Contexts
      BY <2>5, <3>1, Zenon
    <3> QED BY <2>3, <2>5, <3>2, Zenon
  <2> QED BY <2>5, <2>6, Zenon
<1>5. h = CutStep(h, text)
  <2>1. ASSUME NEW k \in 0 .. n PROVE h[k] = IF k = 0 THEN NewContext ELSE _putc(h[k - 1], text[k])
    <3>1. k = 0 \/ k \in 1 .. n
      OBVIOUS
    <3>2. k \in 1 .. n => k # 0
      OBVIOUS
    <3> QED BY <1>4, <3>1, <3>2, Zenon
  <2>2. h = [k \in 0 .. n |-> h[k]]
    OBVIOUS
  <2> QED BY <1>1, <2>1, <2>2, Zenon DEF CutStep
<1>6. PICK f : f = Cut(text) /\ f = CutStep(f, text)
  BY <1>5, Zenon DEF Cut
<1>7. /\ f = [k \in 0 .. n |-> f[k]] /\ f[0] = NewContext
      /\ \A k \in 1 .. n : f[k] = _putc(f[k - 1], text[k])
  <2>1. f = [k \in 0 .. n |-> IF k = 0 THEN NewContext ELSE _putc(f[k - 1], text[k])]
    BY <1>1, <1>6, Zenon DEF CutStep
  <2>2. \A k \in 0 .. n : f[k] = IF k = 0 THEN NewContext ELSE _putc(f[k - 1], text[k])
    BY <2>1, Zenon
  <2>3. 0 \in 0 .. n /\ \A k \in 1 .. n : k \in 0 .. n /\ k # 0
    OBVIOUS
  <2>4. f = [k \in 0 .. n |-> f[k]]
    BY <2>1
  <2> QED BY <2>2, <2>3, <2>4, Zenon
<1>8. \A k \in 0 .. n : f[k] \in Contexts
  <2>1. PICK T : T = {k \in 0 .. n : f[k] \in Contexts}
    BY Zenon
  <2>2. 0 \in T
    BY <1>3, <1>7, <2>1
  <2>3. ASSUME NEW k \in 0 .. n - 1, k \in T PROVE k + 1 \in T
    <3>1. k + 1 \in 1 .. n /\ k + 1 \in 0 .. n /\ (k + 1) - 1 = k
      OBVIOUS
    <3>2. f[k + 1] = _putc(f[k], text[k + 1]) /\ f[k] \in Contexts /\ text[k + 1] \in Tokens
      BY <1>2, <1>7, <2>1, <2>3, <3>1, Zenon
    <3>3. f[k + 1] \in Contexts
      BY <3>2, PutcContext
    <3> QED BY <2>1, <3>1, <3>3, Zenon
  <2>4. \A k \in 0 .. n : k \in T
    BY <2>2, <2>3, UpTo
  <2> QED BY <2>1, <2>4
<1>9. f \in [0 .. n -> Contexts]
  BY <1>7, <1>8, Zenon
<1> QED BY <1>1, <1>6, <1>7, <1>9, Zenon DEF IsCut

\* No colour codes, and a newline only at the end.
IsText(c) ==
  /\ c \in Seq(Tokens)
  /\ \A k \in 1 .. Len(c) : c[k] \notin Codes \cup {"ESC["}
  /\ \A k \in 1 .. Len(c) - 1 : c[k] # "\n"

Texts == {c \in Seq(Tokens) : IsText(c)}
Lines == {c \in Texts : \A k \in 1 .. Len(c) : c[k] # "\n"}

LEMMA AppendText ==
  ASSUME NEW s \in Lines, NEW c \in Tokens, c \notin Codes \cup {"ESC["}
  PROVE  Append(s, c) \in Texts /\ (c # "\n" => Append(s, c) \in Lines)
<1>1. /\ s \in Seq(Tokens) /\ \A k \in 1 .. Len(s) : s[k] # "\n" /\ s[k] \notin Codes \cup {"ESC["}
  BY DEF Lines, Texts, IsText
<1>2. PICK t \in Seq(Tokens) : t = Append(s, c)
  BY <1>1, Appended, Zenon
<1>3. Len(t) = Len(s) + 1 /\ t[Len(t)] = c /\ \A k \in 1 .. Len(s) : t[k] = s[k]
  BY <1>1, <1>2, Appended
<1>4. \A k \in 1 .. Len(t) : k = Len(t) \/ k \in 1 .. Len(s)
  BY <1>1, <1>3
<1>5. \A k \in 1 .. Len(t) - 1 : k \in 1 .. Len(s)
  BY <1>1, <1>3
<1>6. IsText(t)
  BY <1>1, <1>3, <1>4, <1>5, Zenon DEF IsText
<1>7. c # "\n" => \A k \in 1 .. Len(t) : t[k] # "\n"
  BY <1>1, <1>3, <1>4, Zenon
<1> QED BY <1>2, <1>6, <1>7, Zenon DEF Texts, Lines

LEMMA EmptyText == <<>> \in Lines /\ \A c \in Lines : c \in Texts
<1>1. <<>> \in Seq(Tokens) /\ Len(<<>>) = 0 /\ \A k \in 1 .. 0 : FALSE
  OBVIOUS
<1>2. \A k \in 1 .. 0 - 1 : FALSE
  OBVIOUS
<1> QED BY <1>1, <1>2 DEF Lines, Texts, IsText

\* The chunks of a text are texts.
LEMMA ChunksAreTexts ==
  ASSUME NEW text \in Texts
  PROVE  Chunks(text) \in Seq(Texts)
<1>1. /\ text \in Seq(Tokens)
      /\ \A k \in 1 .. Len(text) : text[k] \notin Codes \cup {"ESC["}
      /\ \A k \in 1 .. Len(text) - 1 : text[k] # "\n"
  BY DEF Texts, IsText
<1>2. PICK f : f = Cut(text) /\ IsCut(f, text)
  BY <1>1, CutSteps
<1>3. PICK n \in Nat : n = Len(text)
  BY <1>1
<1>4. PICK T : T = {i \in 0 .. n : /\ f[i].flushed \in Seq(Texts) /\ f[i].buffer \in Texts
                                   /\ i # n => f[i].buffer \in Lines}
  BY Zenon
<1>5. 0 \in T
  <2>1. f[0].flushed = <<>> /\ f[0].buffer = <<>>
    BY <1>2 DEF IsCut, NewContext
  <2>2. <<>> \in Seq(Texts) /\ 0 \in 0 .. n
    OBVIOUS
  <2> QED BY <1>4, <2>1, <2>2, EmptyText, Zenon
<1>6. ASSUME NEW i \in 0 .. n - 1, i \in T PROVE i + 1 \in T
  <2>1. i + 1 \in 1 .. n /\ i + 1 \in 0 .. n /\ (i + 1) - 1 = i /\ i # n
    OBVIOUS
  <2>2. PICK x, c : x = f[i] /\ c = text[i + 1]
    OBVIOUS
  <2>3. x \in Contexts /\ f[i + 1] = _putc(x, c)
    BY <1>2, <1>3, <2>1, <2>2 DEF IsCut
  <2>4. c \in Tokens /\ c \notin Codes \cup {"ESC["} /\ (i + 1 # n => c # "\n")
    <3>1. i + 1 # n => i + 1 \in 1 .. n - 1
      OBVIOUS
    <3> QED BY <1>1, <1>3, <2>1, <2>2, <3>1
  <2>5. x.flushed \in Seq(Texts) /\ x.buffer \in Texts /\ x.buffer \in Lines
    BY <1>4, <1>6, <2>1, <2>2
  <2>6. \A s \in Lines : Append(s, c) \in Texts /\ (i + 1 # n => Append(s, c) \in Lines)
    BY <2>4, AppendText
  <2>7. <<c>> \in Texts /\ (i + 1 # n => <<c>> \in Lines)
    <3>1. Append(<<>>, c) = <<c>>
      OBVIOUS
    <3> QED BY <2>6, <3>1, EmptyText, Zenon
  <2>8. PICK y : y = _putc(x, c)
    OBVIOUS
  <2>9. y.flushed \in Seq(Texts) /\ y.buffer \in Texts /\ (i + 1 # n => y.buffer \in Lines)
    <3>1. CASE Len(x.buffer) >= PRINTK_BUFFER_SIZE
      <4>1. y.flushed = Append(x.flushed, x.buffer) /\ y.buffer = <<c>>
        BY <2>8, <3>1 DEF _putc
      <4>2. Append(x.flushed, x.buffer) \in Seq(Texts)
        BY <2>5
      <4> QED BY <2>7, <4>1, <4>2
    <3>2. CASE ~(Len(x.buffer) >= PRINTK_BUFFER_SIZE)
      <4>1. y.flushed = x.flushed /\ y.buffer = Append(x.buffer, c)
        BY <2>3, <2>8, <3>2 DEF _putc, Contexts
      <4> QED BY <2>5, <2>6, <4>1, Zenon
    <3> QED BY <3>1, <3>2
  <2> QED BY <1>4, <2>1, <2>3, <2>8, <2>9, Zenon
<1>7. n \in T
  <2>1. \A i \in 0 .. n : i \in T
    BY <1>5, <1>6, UpTo
  <2> QED BY <2>1
<1>8. PICK e : e = f[n] /\ e.flushed \in Seq(Texts) /\ e.buffer \in Texts
  BY <1>4, <1>7
<1>9. Chunks(text) = IF e.buffer = <<>> THEN e.flushed ELSE Append(e.flushed, e.buffer)
  BY <1>2, <1>3, <1>8, ChunksIsCut, Zenon
<1> QED BY <1>8, <1>9

(***************************************************************************)
(* The accesses of a message.  Those of an early_vga_putc come together    *)
(* and in their order (Shaped); every newline on the serial line comes     *)
(* after a reset code, and what is sent in one go ends with one (Closed).  *)
(***************************************************************************)

PutcOps == {"switch", "cell", "column", "row", "scroll", "cursor"}
Accesses == [op : {"color"}, arg : Nat] \cup [op : PutcOps \cup {"serial"}, arg : Tokens]

Starts(a) == a.op \in {"serial", "color", "switch"}
Ends(a) == a.op \in {"serial", "color", "cursor"}

Follows(a, b) ==
  \/ Ends(a) /\ Starts(b)
  \/ a.op = "switch" /\ b.op = "cell"
  \/ a.op = "cell" /\ b.op = "column"
  \/ a.op = "column" /\ b.op = "row"
  \/ a.op = "row" /\ b.op = "scroll"
  \/ a.op = "scroll" /\ b.op = "cursor"

Shaped(t) ==
  /\ \A i \in 1 .. Len(t) - 1 : Follows(t[i], t[i + 1])
  /\ Len(t) > 0 => Starts(t[1]) /\ Ends(t[Len(t)])

Sends(a, c) == a.op = "serial" /\ a.arg = c

Closed(t) ==
  \A i \in 1 .. Len(t) :
    /\ Sends(t[i], "\n") => i >= 2 /\ Sends(t[i - 1], "0m")
    /\ Sends(t[i], "0m") => i >= 2 /\ Sends(t[i - 1], "ESC[")
    /\ t[i].op = "serial" /\ (i = Len(t) \/ t[i + 1].op # "serial") =>
         Sends(t[i], "\n") \/ Sends(t[i], "0m")

Wholes == {t \in Seq(Accesses) : Shaped(t) /\ Closed(t)}

LEMMA ShapedConcat ==
  ASSUME NEW a \in Seq(Accesses), NEW b \in Seq(Accesses), Shaped(a), Shaped(b)
  PROVE  Shaped(a \o b)
<1>a. PICK m \in Nat : m = Len(a)
  OBVIOUS
<1>b. PICK n \in Nat : n = Len(b)
  OBVIOUS
<1>c. PICK c \in Seq(Accesses) : c = a \o b
  BY Concat, Zenon
<1>1. /\ m = Len(a) /\ n = Len(b) /\ c = a \o b /\ Len(c) = m + n
      /\ (\A i \in 1 .. m : c[i] = a[i]) /\ \A i \in 1 .. n : c[m + i] = b[i]
  BY <1>a, <1>b, <1>c, Concat
<1>2. CASE m = 0
  <2>1. \A i \in 1 .. n : c[i] = b[i]
    BY <1>1, <1>2
  <2>2. \A i \in 1 .. n - 1 : i \in 1 .. n /\ i + 1 \in 1 .. n
    OBVIOUS
  <2>3. n > 0 => 1 \in 1 .. n /\ n \in 1 .. n
    OBVIOUS
  <2> QED BY <1>1, <1>2, <2>1, <2>2, <2>3 DEF Shaped
<1>3. CASE n = 0
  <2>2. \A i \in 1 .. m - 1 : i \in 1 .. m /\ i + 1 \in 1 .. m
    OBVIOUS
  <2>3. m > 0 => 1 \in 1 .. m /\ m \in 1 .. m
    OBVIOUS
  <2> QED BY <1>1, <1>3, <2>2, <2>3 DEF Shaped
<1>4. CASE m > 0 /\ n > 0
  <2>1. Starts(a[1]) /\ Ends(a[m]) /\ Starts(b[1]) /\ Ends(b[n])
    BY <1>1, <1>4 DEF Shaped
  <2>2. c[1] = a[1] /\ c[m] = a[m] /\ c[m + 1] = b[1] /\ c[m + n] = b[n]
    BY <1>1, <1>4
  <2>3. ASSUME NEW i \in 1 .. m + n - 1 PROVE Follows(c[i], c[i + 1])
    <3>1. CASE i < m
      <4>1. i \in 1 .. m - 1 /\ c[i] = a[i] /\ c[i + 1] = a[i + 1]
        BY <1>1, <3>1
      <4> QED BY <1>1, <4>1 DEF Shaped
    <3>2. CASE i = m
      BY <2>1, <2>2, <3>2 DEF Follows
    <3>3. CASE i > m
      <4>1. PICK j \in 1 .. n - 1 : i = m + j
        <5>1. i - m \in 1 .. n - 1 /\ i = m + (i - m)
          BY <3>3
        <5> QED BY <5>1
      <4>20. j \in 1 .. n /\ j + 1 \in 1 .. n /\ m + (j + 1) = i + 1
        BY <4>1
      <4>2. c[m + j] = b[j] /\ c[m + (j + 1)] = b[j + 1] /\ m + (j + 1) = i + 1
        BY <1>1, <4>20
      <4>3. Follows(b[j], b[j + 1])
        BY <1>1 DEF Shaped
      <4> QED BY <4>1, <4>2, <4>3
    <3> QED BY <3>1, <3>2, <3>3
  <2> QED BY <1>1, <2>1, <2>2, <2>3 DEF Shaped
<1> QED BY <1>2, <1>3, <1>4

LEMMA ClosedConcat ==
  ASSUME NEW a \in Seq(Accesses), NEW b \in Seq(Accesses), Closed(a), Closed(b)
  PROVE  Closed(a \o b)
<1>a. PICK m \in Nat : m = Len(a)
  OBVIOUS
<1>b. PICK n \in Nat : n = Len(b)
  OBVIOUS
<1>c. PICK c \in Seq(Accesses) : c = a \o b
  BY Concat, Zenon
<1>1. /\ m = Len(a) /\ n = Len(b) /\ c = a \o b /\ Len(c) = m + n
      /\ (\A i \in 1 .. m : c[i] = a[i]) /\ \A i \in 1 .. n : c[m + i] = b[i]
  BY <1>a, <1>b, <1>c, Concat
<1>2. ASSUME NEW i \in 1 .. m + n
      PROVE  /\ Sends(c[i], "\n") => i >= 2 /\ Sends(c[i - 1], "0m")
             /\ Sends(c[i], "0m") => i >= 2 /\ Sends(c[i - 1], "ESC[")
             /\ c[i].op = "serial" /\ (i = m + n \/ c[i + 1].op # "serial") =>
                  Sends(c[i], "\n") \/ Sends(c[i], "0m")
  <2>1. CASE i <= m
    <3>1. i \in 1 .. m /\ c[i] = a[i]
      BY <1>1, <2>1
    <3>2. i >= 2 => c[i - 1] = a[i - 1]
      BY <1>1, <2>1
    <3>4. i # m => c[i + 1] = a[i + 1]
      BY <1>1, <2>1
    <3>5. i = m + n => i = m
      BY <2>1
    <3>6. /\ Sends(a[i], "\n") => i >= 2 /\ Sends(a[i - 1], "0m")
          /\ Sends(a[i], "0m") => i >= 2 /\ Sends(a[i - 1], "ESC[")
          /\ a[i].op = "serial" /\ (i = m \/ a[i + 1].op # "serial") =>
               Sends(a[i], "\n") \/ Sends(a[i], "0m")
      BY <1>1, <3>1, Zenon DEF Closed
    <3> QED BY <3>1, <3>2, <3>4, <3>5, <3>6, Zenon
  <2>2. CASE i > m
    <3>1. PICK j \in 1 .. n : i = m + j
      <4>1. i - m \in 1 .. n /\ i = m + (i - m)
        BY <2>2
      <4> QED BY <4>1
    <3>2. c[i] = b[j]
      BY <1>1, <3>1
    <3>3. j >= 2 => c[i - 1] = b[j - 1] /\ i >= 2
      <4>1. j >= 2 => j - 1 \in 1 .. n /\ m + (j - 1) = i - 1 /\ i >= 2
        BY <3>1
      <4> QED BY <1>1, <4>1
    <3>5. j # n => c[i + 1] = b[j + 1]
      <4>1. j # n => j + 1 \in 1 .. n /\ m + (j + 1) = i + 1
        BY <3>1
      <4> QED BY <1>1, <4>1
    <3>6. i = m + n => j = n
      BY <3>1
    <3>7. /\ Sends(b[j], "\n") => j >= 2 /\ Sends(b[j - 1], "0m")
          /\ Sends(b[j], "0m") => j >= 2 /\ Sends(b[j - 1], "ESC[")
          /\ b[j].op = "serial" /\ (j = n \/ b[j + 1].op # "serial") =>
               Sends(b[j], "\n") \/ Sends(b[j], "0m")
      BY <1>1, <3>1, Zenon DEF Closed
    <3> QED BY <3>2, <3>3, <3>5, <3>6, <3>7, Zenon
  <2> QED BY <2>1, <2>2
<1> QED BY <1>1, <1>2, Zenon DEF Closed

LEMMA WholesJoin ==
  /\ Wholes \in SUBSET Seq(Accesses) /\ <<>> \in Wholes
  /\ \A a, b \in Wholes : a \o b \in Wholes
  /\ \A ss \in Seq(Wholes) : Joined(ss) \in Wholes
<1>1. Wholes \in SUBSET Seq(Accesses)
  BY DEF Wholes
<1>2. <<>> \in Wholes
  <2>1. <<>> \in Seq(Accesses) /\ Len(<<>>) = 0 /\ (\A i \in 1 .. 0 : FALSE) /\ ~(0 > 0)
    OBVIOUS
  <2>2. \A i \in 1 .. 0 - 1 : FALSE
    OBVIOUS
  <2> QED BY <2>1, <2>2 DEF Wholes, Shaped, Closed
<1>3. ASSUME NEW a \in Wholes, NEW b \in Wholes PROVE a \o b \in Wholes
  BY ShapedConcat, ClosedConcat, Concat DEF Wholes
<1>4. ASSUME NEW ss \in Seq(Wholes) PROVE Joined(ss) \in Wholes
  BY <1>1, <1>2, <1>3, JoinedIn
<1> QED BY <1>1, <1>2, <1>3, <1>4

\* The codes that start a colour are no text.
LEMMA CodesAre ==
  /\ Codes = {"1;37;41m", "1;31m", "0;91m", "0;93m", "0;97m", "0m"}
  /\ "0m" \in Codes /\ "\n" \notin Codes /\ "ESC[" \notin Codes
  /\ \A l \in Nat : get_level_ansi(l) \in Codes
<1>1. /\ get_level_ansi(0) = "1;37;41m" /\ get_level_ansi(1) = "1;31m" /\ get_level_ansi(2) = "0;91m"
      /\ get_level_ansi(3) = "0;91m" /\ get_level_ansi(4) = "0;93m" /\ get_level_ansi(5) = "0;97m"
      /\ get_level_ansi(6) = "0m"
  BY SMT DEF get_level_ansi
<1>2. \A l \in Nat : l \notin 0 .. 5 => get_level_ansi(l) = "0m"
  BY DEF get_level_ansi
<1>3. \A l \in 0 .. 6 : l = 0 \/ l = 1 \/ l = 2 \/ l = 3 \/ l = 4 \/ l = 5 \/ l = 6
  BY SMT
<1>30. 0 \in 0 .. 6 /\ 1 \in 0 .. 6 /\ 2 \in 0 .. 6 /\ 3 \in 0 .. 6 /\ 4 \in 0 .. 6 /\ 5 \in 0 .. 6 /\ 6 \in 0 .. 6
  BY SMT
<1>4. Codes = {"1;37;41m", "1;31m", "0;91m", "0;93m", "0;97m", "0m"}
  BY <1>1, <1>3, <1>30, Zenon DEF Codes
<1>5. \A l \in Nat : l \in 0 .. 5 => l \in 0 .. 6
  OBVIOUS
<1>6. \A l \in Nat : get_level_ansi(l) \in Codes
  BY <1>1, <1>2, <1>30, <1>5, Zenon DEF Codes
<1>8. "0m" \in Codes /\ "\n" \notin Codes /\ "ESC[" \notin Codes
  BY <1>4, Zenon
<1> QED BY <1>4, <1>6, <1>8, Zenon

LEMMA PutcWhole ==
  ASSUME NEW ch \in Tokens
  PROVE  early_vga_putc(ch) \in Wholes
<1>1. PICK t : t = early_vga_putc(ch)
  OBVIOUS
<1>2. /\ Access("switch", ch) \in Accesses /\ Access("cell", ch) \in Accesses
      /\ Access("column", ch) \in Accesses /\ Access("row", ch) \in Accesses
      /\ Access("scroll", ch) \in Accesses /\ Access("cursor", ch) \in Accesses
  BY DEF Access, Accesses, PutcOps
<1>3. t \in Seq(Accesses) /\ Len(t) = 6
  BY <1>1, <1>2 DEF early_vga_putc
<1>4. /\ t[1].op = "switch" /\ t[2].op = "cell" /\ t[3].op = "column"
      /\ t[4].op = "row" /\ t[5].op = "scroll" /\ t[6].op = "cursor"
  BY <1>1 DEF early_vga_putc, Access
<1>5. /\ \A i \in 1 .. 6 : i = 1 \/ i = 2 \/ i = 3 \/ i = 4 \/ i = 5 \/ i = 6
      /\ \A i \in 1 .. 6 - 1 : i = 1 \/ i = 2 \/ i = 3 \/ i = 4 \/ i = 5
      /\ 1 + 1 = 2 /\ 2 + 1 = 3 /\ 3 + 1 = 4 /\ 4 + 1 = 5 /\ 5 + 1 = 6
  OBVIOUS
<1>6. \A i \in 1 .. 6 : t[i].op # "serial"
  BY <1>4, <1>5
<1>7. Shaped(t)
  <2>1. \A i \in 1 .. 6 - 1 : Follows(t[i], t[i + 1])
    BY <1>4, <1>5 DEF Follows
  <2>2. Starts(t[1]) /\ Ends(t[6])
    BY <1>4 DEF Starts, Ends
  <2> QED BY <1>3, <2>1, <2>2 DEF Shaped
<1>8. Closed(t)
  BY <1>3, <1>6 DEF Closed, Sends
<1> QED BY <1>1, <1>3, <1>7, <1>8 DEF Wholes

LEMMA ColorWhole ==
  ASSUME NEW c \in Nat
  PROVE  <<Access("color", c)>> \in Wholes
<1>1. PICK t : t = <<Access("color", c)>>
  BY Zenon
<1>2. Access("color", c) \in Accesses
  BY DEF Access, Accesses
<1>3. t \in Seq(Accesses) /\ Len(t) = 1 /\ t[1] = Access("color", c)
  BY <1>1, <1>2
<1>4. t[1].op = "color" /\ (\A i \in 1 .. 1 : i = 1) /\ \A i \in 1 .. 1 - 1 : FALSE
  BY <1>3 DEF Access
<1> QED BY <1>1, <1>3, <1>4 DEF Wholes, Shaped, Closed, Starts, Ends, Sends

LEMMA LevelColor == \A l \in Nat : get_level_color(l) \in Nat
<1>1. /\ <<64, 4, 12, 12, 14, 15>>[1] \in Nat /\ <<64, 4, 12, 12, 14, 15>>[2] \in Nat
      /\ <<64, 4, 12, 12, 14, 15>>[3] \in Nat /\ <<64, 4, 12, 12, 14, 15>>[4] \in Nat
      /\ <<64, 4, 12, 12, 14, 15>>[5] \in Nat /\ <<64, 4, 12, 12, 14, 15>>[6] \in Nat
  OBVIOUS
<1>2. \A l \in 0 .. 5 : l + 1 = 1 \/ l + 1 = 2 \/ l + 1 = 3 \/ l + 1 = 4 \/ l + 1 = 5 \/ l + 1 = 6
  OBVIOUS
<1>3. DEFAULT_COLOR \in Nat
  BY DEF DEFAULT_COLOR
<1> QED BY <1>1, <1>2, <1>3 DEF get_level_color

LEMMA VgaWhole ==
  ASSUME NEW level \in Nat, NEW str \in Seq(Tokens)
  PROVE  early_vga_log_write(level, str) \in Wholes
<1>1. PICK ss : ss = [k \in DOMAIN str |-> early_vga_putc(str[k])]
  BY Zenon
<1>2. \A k \in 1 .. Len(str) : early_vga_putc(str[k]) \in Wholes
  <2>1. \A k \in 1 .. Len(str) : str[k] \in Tokens
    BY Elements
  <2> QED BY <2>1, PutcWhole, Zenon
<1>3. ss \in Seq(Wholes)
  BY <1>1, <1>2
<1>4. Joined(ss) \in Wholes
  BY <1>3, WholesJoin
<1>5. /\ <<Access("color", get_level_color(level))>> \in Wholes
      /\ <<Access("color", DEFAULT_COLOR)>> \in Wholes
  BY ColorWhole, LevelColor DEF DEFAULT_COLOR
<1>6. <<Access("color", get_level_color(level))>> \o Joined(ss) \in Wholes
  BY <1>4, <1>5, WholesJoin
<1>7. <<Access("color", get_level_color(level))>> \o Joined(ss) \o <<Access("color", DEFAULT_COLOR)>> \in Wholes
  BY <1>5, <1>6, WholesJoin
<1> QED BY <1>1, <1>7 DEF early_vga_log_write

\* What early_uart_log_write sends: the code of the level, all but the last character,
\* and the last one with the reset before it if it is a newline and after it if not.
IsSent(t, code, str) ==
  /\ t \in Seq(Tokens) /\ Len(t) = Len(str) + 4
  /\ t[1] = "ESC[" /\ t[2] = code
  /\ \A k \in 1 .. Len(str) - 1 : t[k + 2] = str[k]
  /\ LET n == Len(str)
     IN  IF str[n] = "\n" THEN t[n + 2] = "ESC[" /\ t[n + 3] = "0m" /\ t[n + 4] = "\n"
         ELSE t[n + 2] = str[n] /\ t[n + 3] = "ESC[" /\ t[n + 4] = "0m"

LEMMA Initial ==
  ASSUME NEW S, NEW a \in Seq(S), a # <<>>
  PROVE  /\ SubSeq(a, 1, Len(a) - 1) \in Seq(S) /\ Len(SubSeq(a, 1, Len(a) - 1)) = Len(a) - 1
         /\ \A k \in 1 .. Len(a) - 1 : SubSeq(a, 1, Len(a) - 1)[k] = a[k]
         /\ Len(a) >= 1 /\ a[Len(a)] \in S
<1>1. Len(a) \in Nat /\ Len(a) # 0
  OBVIOUS
<1>2. Len(a) >= 1 /\ Len(a) \in 1 .. Len(a) /\ Len(a) - 1 \in Nat
  BY <1>1
<1>3. a[Len(a)] \in S
  BY <1>2, Elements
<1>4. PICK n \in Nat : n = Len(a) - 1 /\ \A k \in 1 .. n : k \in 1 .. Len(a)
  BY <1>1, <1>2
<1>5. /\ SubSeq(a, 1, n) \in Seq(S) /\ Len(SubSeq(a, 1, n)) = n
      /\ \A k \in 1 .. n : SubSeq(a, 1, n)[k] = a[k]
  BY <1>4
<1> QED BY <1>2, <1>3, <1>4, <1>5

LEMMA Pair ==
  ASSUME NEW S, NEW a \in S, NEW b \in S
  PROVE  \E h \in Seq(S) : h = <<a, b>> /\ Len(h) = 2 /\ h[1] = a /\ h[2] = b
<1>1. <<a, b>> \in Seq(S) /\ Len(<<a, b>>) = 2 /\ <<a, b>>[1] = a /\ <<a, b>>[2] = b
  OBVIOUS
<1> QED BY <1>1, Zenon

LEMMA UartSent ==
  ASSUME NEW level \in Nat, NEW str \in Seq(Tokens), uart_present, str # <<>>
  PROVE  IsSent(early_uart_log_write(level, str), get_level_ansi(level), str)
<1>1. PICK code \in Tokens : code = get_level_ansi(level)
  BY CodesAre, TokensHold, Zenon
<1>2. PICK h \in Seq(Tokens) : h = Ansi(code) /\ Len(h) = 2 /\ h[1] = "ESC[" /\ h[2] = code
  <2>1. PICK esc \in Tokens : esc = "ESC["
    BY TokensHold
  <2>2. PICK h \in Seq(Tokens) : h = <<esc, code>> /\ Len(h) = 2 /\ h[1] = esc /\ h[2] = code
    BY Pair
  <2> QED BY <2>1, <2>2, Zenon DEF Ansi
<1>3. PICK z \in Seq(Tokens) : z = Ansi("0m") /\ Len(z) = 2 /\ z[1] = "ESC[" /\ z[2] = "0m"
  <2>1. PICK esc \in Tokens : esc = "ESC["
    BY TokensHold
  <2>2. PICK reset \in Tokens : reset = "0m"
    BY TokensHold
  <2>3. PICK z \in Seq(Tokens) : z = <<esc, reset>> /\ Len(z) = 2 /\ z[1] = esc /\ z[2] = reset
    BY Pair
  <2> QED BY <2>1, <2>2, <2>3, Zenon DEF Ansi
<1>40. PICK n \in Nat : n = Len(str) /\ n >= 1
  BY Initial, Elements
<1>4. PICK s \in Seq(Tokens) : s = SubSeq(str, 1, Len(str) - 1)
  BY Initial, Zenon
<1>5. Len(s) = n - 1 /\ \A k \in 1 .. n - 1 : s[k] = str[k]
  BY <1>4, <1>40, Initial
<1>6. PICK last \in Tokens : last = str[n]
  BY <1>40, Initial
<1>7. PICK e \in Seq(Tokens) :
        /\ e = (IF last = "\n" THEN Append(Ansi("0m"), "\n") ELSE <<last>> \o Ansi("0m"))
        /\ Len(e) = 3
        /\ IF last = "\n" THEN e[1] = "ESC[" /\ e[2] = "0m" /\ e[3] = "\n"
           ELSE e[1] = last /\ e[2] = "ESC[" /\ e[3] = "0m"
  <2>1. CASE last = "\n"
    <3>0. PICK nl \in Tokens : nl = "\n"
      BY TokensHold
    <3>1. PICK e \in Seq(Tokens) : e = Append(z, nl)
      BY Appended, Zenon
    <3>3. Len(e) = Len(z) + 1 /\ e[Len(z) + 1] = nl /\ \A i \in 1 .. Len(z) : e[i] = z[i]
      BY <3>1, Appended
    <3>4. 2 + 1 = 3 /\ 1 \in 1 .. 2 /\ 2 \in 1 .. 2
      OBVIOUS
    <3>5. Len(e) = 3 /\ e[3] = nl /\ e[1] = z[1] /\ e[2] = z[2]
      BY <1>3, <3>3, <3>4, Zenon
    <3> QED BY <1>3, <2>1, <3>0, <3>1, <3>5, Zenon
  <2>2. CASE last # "\n"
    <3>1. PICK o \in Seq(Tokens) : o = <<last>> /\ Len(o) = 1 /\ o[1] = last
      BY Single, Zenon
    <3>2. PICK e \in Seq(Tokens) : e = o \o z
      BY Concat, Zenon
    <3>3. /\ Len(e) = Len(o) + Len(z) /\ \A i \in 1 .. Len(o) : e[i] = o[i]
          /\ \A i \in 1 .. Len(z) : e[Len(o) + i] = z[i]
      BY <3>2, Concat
    <3>4. Len(e) = 3 /\ e[1] = o[1] /\ e[1 + 1] = z[1] /\ e[1 + 2] = z[2]
      <4>1. 1 + 2 = 3 /\ 1 \in 1 .. 1 /\ 1 \in 1 .. 2 /\ 2 \in 1 .. 2
        OBVIOUS
      <4> QED BY <1>3, <3>1, <3>3, <4>1, Zenon
    <3>5. 1 + 1 = 2 /\ 1 + 2 = 3
      OBVIOUS
    <3> QED BY <1>3, <2>2, <3>1, <3>2, <3>4, <3>5, Zenon
  <2> QED BY <2>1, <2>2, Zenon
<1>8. PICK u \in Seq(Tokens) : u = h \o s
  BY Concat, Zenon
<1>9. Len(u) = n + 1 /\ u[1] = "ESC[" /\ u[2] = code /\ \A k \in 1 .. n - 1 : u[k + 2] = str[k]
  <2>1. /\ Len(u) = Len(h) + Len(s) /\ \A i \in 1 .. Len(h) : u[i] = h[i]
        /\ \A i \in 1 .. Len(s) : u[Len(h) + i] = s[i]
    BY <1>8, Concat
  <2>2. Len(u) = n + 1 /\ u[1] = h[1] /\ u[2] = h[2] /\ \A i \in 1 .. n - 1 : u[2 + i] = s[i]
    BY <1>2, <1>5, <2>1
  <2>3. \A k \in 1 .. n - 1 : k + 2 = 2 + k
    OBVIOUS
  <2> QED BY <1>2, <1>5, <2>2, <2>3, Zenon
<1>10. PICK t \in Seq(Tokens) : t = u \o e
  BY Concat, Zenon
<1>11. /\ Len(t) = n + 4 /\ t[n + 2] = e[1] /\ t[n + 3] = e[2] /\ t[n + 4] = e[3]
       /\ t[1] = u[1] /\ t[2] = u[2] /\ \A k \in 1 .. n - 1 : t[k + 2] = u[k + 2]
  <2>1. /\ Len(t) = Len(u) + Len(e) /\ \A i \in 1 .. Len(u) : t[i] = u[i]
        /\ \A i \in 1 .. Len(e) : t[Len(u) + i] = e[i]
    BY <1>10, Concat
  <2>2. Len(t) = n + 4 /\ t[(n + 1) + 1] = e[1] /\ t[(n + 1) + 2] = e[2] /\ t[(n + 1) + 3] = e[3]
    <3>1. (n + 1) + 3 = n + 4 /\ 1 \in 1 .. 3 /\ 2 \in 1 .. 3 /\ 3 \in 1 .. 3
      OBVIOUS
    <3> QED BY <1>7, <1>9, <2>1, <3>1, Zenon
  <2>3. (n + 1) + 1 = n + 2 /\ (n + 1) + 2 = n + 3 /\ (n + 1) + 3 = n + 4
    OBVIOUS
  <2>4. 1 \in 1 .. n + 1 /\ 2 \in 1 .. n + 1 /\ \A k \in 1 .. n - 1 : k + 2 \in 1 .. n + 1
    BY <1>40
  <2> QED BY <1>9, <2>1, <2>2, <2>3, <2>4, Zenon
<1>12. t = early_uart_log_write(level, str)
  BY <1>1, <1>2, <1>40, <1>4, <1>6, <1>7, <1>8, <1>10, Zenon DEF early_uart_log_write
<1> QED BY <1>1, <1>40, <1>6, <1>7, <1>9, <1>11, <1>12, Zenon DEF IsSent

\* The sequence t as accesses to the serial line.
IsSerial(s, t) ==
  /\ s \in Seq(Accesses) /\ Len(s) = Len(t)
  /\ \A k \in 1 .. Len(t) : s[k].op = "serial" /\ s[k].arg = t[k]

LEMMA SerialOf ==
  ASSUME NEW t \in Seq(Tokens)
  PROVE  IsSerial([k \in DOMAIN t |-> Access("serial", t[k])], t)
<1>1. PICK n \in Nat : n = Len(t) /\ DOMAIN t = 1 .. n /\ \A k \in 1 .. n : t[k] \in Tokens
  BY Elements
<1>2. PICK s : s = [k \in 1 .. n |-> Access("serial", t[k])]
  BY Zenon
<1>3. \A k \in 1 .. n : /\ Access("serial", t[k]) \in Accesses
                        /\ Access("serial", t[k]).op = "serial" /\ Access("serial", t[k]).arg = t[k]
  BY <1>1 DEF Access, Accesses
<1>4. s \in [1 .. n -> Accesses] /\ \A k \in 1 .. n : s[k] = Access("serial", t[k])
  BY <1>2, <1>3, Zenon
<1>5. s \in Seq(Accesses) /\ Len(s) = n
  BY <1>4
<1> QED BY <1>1, <1>2, <1>3, <1>4, <1>5, Zenon DEF IsSerial

LEMMA UartWhole ==
  ASSUME NEW level \in Nat, NEW str \in Texts, uart_present, str # <<>>,
         NEW s, NEW t, t = early_uart_log_write(level, str), IsSerial(s, t)
  PROVE  s \in Wholes
<1>1. /\ str \in Seq(Tokens) /\ \A k \in 1 .. Len(str) : str[k] \notin Codes \cup {"ESC["}
      /\ \A k \in 1 .. Len(str) - 1 : str[k] # "\n"
  BY DEF Texts, IsText
<1>2. PICK code \in Codes : code = get_level_ansi(level)
  BY CodesAre, Zenon
<1>3. IsSent(t, code, str)
  BY <1>1, <1>2, UartSent
<1>4. PICK n \in Nat : n = Len(str) /\ n >= 1
  BY <1>1, Initial, Elements
<1>5. /\ t \in Seq(Tokens) /\ Len(t) = n + 4 /\ t[1] = "ESC[" /\ t[2] = code
      /\ \A k \in 1 .. n - 1 : t[k + 2] = str[k]
      /\ IF str[n] = "\n" THEN t[n + 2] = "ESC[" /\ t[n + 3] = "0m" /\ t[n + 4] = "\n"
         ELSE t[n + 2] = str[n] /\ t[n + 3] = "ESC[" /\ t[n + 4] = "0m"
  BY <1>3, <1>4, Zenon DEF IsSent
<1>6. s \in Seq(Accesses) /\ Len(s) = n + 4 /\ \A k \in 1 .. n + 4 : s[k].op = "serial" /\ s[k].arg = t[k]
  BY <1>5, Zenon DEF IsSerial
<1>7. \A i \in 1 .. n + 4 : \/ i = 1 \/ i = 2 \/ i = n + 2 \/ i = n + 3 \/ i = n + 4
                            \/ \E k \in 1 .. n - 1 : i = k + 2
  <2> SUFFICES ASSUME NEW i \in 1 .. n + 4, i # 1, i # 2, i # n + 2, i # n + 3, i # n + 4
               PROVE  \E k \in 1 .. n - 1 : i = k + 2
    OBVIOUS
  <2>1. i - 2 \in 1 .. n - 1 /\ i = (i - 2) + 2
    OBVIOUS
  <2> QED BY <2>1
<1>8. "\n" # "ESC[" /\ "\n" # "0m" /\ code # "\n"
  BY CodesAre, Zenon
<1>9. \A i \in 1 .. n + 4 : t[i] = "\n" => i = n + 4 /\ t[n + 3] = "0m"
  <2> SUFFICES ASSUME NEW i \in 1 .. n + 4, t[i] = "\n"
               PROVE  i = n + 4 /\ t[n + 3] = "0m"
    OBVIOUS
  <2>1. i # 1 /\ i # 2 /\ i # n + 3
    BY <1>5, <1>8, Zenon
  <2>2. i # n + 2
    BY <1>5, <1>8, Zenon
  <2>3. ASSUME NEW k \in 1 .. n - 1, i = k + 2 PROVE FALSE
    BY <1>1, <1>4, <1>5, <2>3, Zenon
  <2>4. i = n + 4
    BY <1>7, <2>1, <2>2, <2>3, Zenon
  <2> QED BY <1>5, <1>8, <2>4, Zenon
<1>10. t[n + 4] = "\n" \/ t[n + 4] = "0m"
  BY <1>5, Zenon
<1>11. /\ n + 4 >= 2 /\ n + 3 >= 2 /\ 2 >= 2 /\ (n + 4) - 1 = n + 3 /\ (n + 3) - 1 = n + 2 /\ 2 - 1 = 1
       /\ n \in 1 .. n /\ \A k \in 1 .. n - 1 : k \in 1 .. n
  BY <1>4
<1>12. n + 4 \in 1 .. n + 4 /\ n + 3 \in 1 .. n + 4 /\ n + 2 \in 1 .. n + 4 /\ 1 \in 1 .. n + 4
  OBVIOUS
<1>17. \A i \in 1 .. n + 4 : t[i] = "0m" => i >= 2 /\ i - 1 \in 1 .. n + 4 /\ t[i - 1] = "ESC["
  <2> SUFFICES ASSUME NEW i \in 1 .. n + 4, t[i] = "0m"
               PROVE  i >= 2 /\ i - 1 \in 1 .. n + 4 /\ t[i - 1] = "ESC["
    OBVIOUS
  <2>0. "0m" \in Codes /\ "0m" # "ESC["
    BY CodesAre, Zenon
  <2>1. i # 1
    BY <1>5, <2>0, Zenon
  <2>2. i # n + 2
    <3>1. str[n] # "0m"
      BY <1>1, <1>4, <1>11, <2>0, Zenon
    <3> QED BY <1>5, <2>0, <3>1, Zenon
  <2>3. ASSUME NEW k \in 1 .. n - 1, i = k + 2 PROVE FALSE
    <3>1. t[i] = str[k] /\ k \in 1 .. n
      BY <1>5, <1>11, <2>3, Zenon
    <3>2. str[k] # "0m"
      BY <1>1, <1>4, <2>0, <3>1, Zenon
    <3> QED BY <3>1, <3>2
  <2>4. i = 2 \/ i = n + 3 \/ i = n + 4
    BY <1>7, <2>1, <2>2, <2>3, Zenon
  <2>5. i = n + 3 => t[n + 2] = "ESC["
    BY <1>5, <2>0, Zenon
  <2>6. i = n + 4 => t[n + 3] = "ESC["
    BY <1>5, <1>8, Zenon
  <2> QED BY <1>5, <1>11, <1>12, <2>4, <2>5, <2>6, Zenon
<1>13. \A i \in 1 .. n + 4 : /\ Sends(s[i], "\n") => i >= 2 /\ Sends(s[i - 1], "0m")
                             /\ Sends(s[i], "0m") => i >= 2 /\ Sends(s[i - 1], "ESC[")
  <2>1. \A i \in 1 .. n + 4 : Sends(s[i], "\n") => i >= 2 /\ Sends(s[i - 1], "0m")
    BY <1>6, <1>9, <1>11, <1>12, Zenon DEF Sends
  <2>2. \A i \in 1 .. n + 4 : Sends(s[i], "0m") => i >= 2 /\ Sends(s[i - 1], "ESC[")
    <3> SUFFICES ASSUME NEW i \in 1 .. n + 4, Sends(s[i], "0m")
                 PROVE  i >= 2 /\ Sends(s[i - 1], "ESC[")
      OBVIOUS
    <3>1. t[i] = "0m"
      BY <1>6, Zenon DEF Sends
    <3>2. PICK h : h = i - 1
      OBVIOUS
    <3>3. i >= 2 /\ h \in 1 .. n + 4 /\ t[h] = "ESC["
      BY <1>17, <3>1, <3>2, Zenon
    <3>4. Sends(s[h], "ESC[")
      BY <1>6, <3>3, Zenon DEF Sends
    <3> QED BY <3>2, <3>3, <3>4, Zenon
  <2> QED BY <2>1, <2>2, Zenon
<1>14. \A i \in 1 .. n + 4 : s[i].op = "serial" /\ (i = n + 4 \/ s[i + 1].op # "serial") =>
         Sends(s[i], "\n") \/ Sends(s[i], "0m")
  <2>0. \A i \in 1 .. n + 4 : i # n + 4 => i + 1 \in 1 .. n + 4
    OBVIOUS
  <2> QED BY <1>6, <1>10, <1>12, <2>0, Zenon DEF Sends
<1>15. Closed(s)
  BY <1>6, <1>13, <1>14, Zenon DEF Closed
<1>16. Shaped(s)
  <2>1. \A i \in 1 .. (n + 4) - 1 : i \in 1 .. n + 4 /\ i + 1 \in 1 .. n + 4
    OBVIOUS
  <2>2. \A i \in 1 .. (n + 4) - 1 : Follows(s[i], s[i + 1])
    BY <1>6, <2>1, Zenon DEF Follows, Starts, Ends
  <2>3. Starts(s[1]) /\ Ends(s[n + 4])
    BY <1>6, <1>12, Zenon DEF Starts, Ends
  <2> QED BY <1>6, <2>2, <2>3, Zenon DEF Shaped
<1> QED BY <1>6, <1>15, <1>16, Zenon DEF Wholes

LEMMA EmptySerial == [k \in DOMAIN <<>> |-> Access("serial", <<>>[k])] = <<>>
OBVIOUS

LEMMA WriteWhole ==
  ASSUME NEW level \in Nat, NEW str \in Texts, NEW sink \in Sinks \cup {""}
  PROVE  WriteTo(sink, level, str) \in Wholes
<1>0. str \in Seq(Tokens)
  BY Zenon DEF Texts, IsText
<1>1. CASE sink = ""
  BY <1>1, WholesJoin, Zenon DEF WriteTo
<1>2. CASE sink = "VGA"
  BY <1>0, <1>2, VgaWhole DEF WriteTo
<1>3. CASE sink = "UART"
  <2>0. PICK t : t = early_uart_log_write(level, str)
    BY Zenon
  <2>1. PICK s : s = [k \in DOMAIN t |-> Access("serial", t[k])]
    BY Zenon
  <2>2. WriteTo(sink, level, str) = s
    BY <1>3, <2>0, <2>1 DEF WriteTo
  <2>3. CASE ~uart_present \/ str = <<>>
    <3>1. t = <<>>
      BY <2>0, <2>3, Zenon DEF early_uart_log_write
    <3>2. s = <<>>
      BY <2>1, <3>1, EmptySerial, Zenon
    <3> QED BY <2>2, <3>2, WholesJoin, Zenon
  <2>4. CASE uart_present /\ str # <<>>
    <3>1. t \in Seq(Tokens)
      BY <1>0, <2>0, <2>4, UartSent, Zenon DEF IsSent
    <3>2. IsSerial(s, t)
      BY <2>1, <3>1, SerialOf, Zenon
    <3>3. s \in Wholes
      BY <2>0, <2>4, <3>2, UartWhole, Zenon
    <3> QED BY <2>2, <3>3, Zenon
  <2> QED BY <2>3, <2>4, Zenon
<1> QED BY <1>1, <1>2, <1>3, Zenon DEF Sinks

\* The sinks that are registered have names; a slot is free or one of them.
SinksTyped == sinks \in [Slots -> Sinks \cup {""}]

LEMMA FlushWhole ==
  ASSUME NEW level \in Nat, NEW str \in Texts, SinksTyped
  PROVE  _flush(level, str) \in Wholes
<1>1. PICK ss : ss = [i \in 1 .. MAX_SINKS |-> WriteTo(sinks[i - 1], level, str)]
  BY Zenon
<1>2. MAX_SINKS \in Nat
  BY ScreenAssumption
<1>3. \A i \in 1 .. MAX_SINKS : sinks[i - 1] \in Sinks \cup {""}
  <2>1. \A i \in 1 .. MAX_SINKS : i - 1 \in Slots
    BY <1>2 DEF Slots
  <2> QED BY <2>1, Zenon DEF SinksTyped
<1>4. \A i \in 1 .. MAX_SINKS : WriteTo(sinks[i - 1], level, str) \in Wholes
  BY <1>3, WriteWhole, Zenon
<1>5. ss \in Seq(Wholes)
  BY <1>1, <1>2, <1>4
<1> QED BY <1>1, <1>5, WholesJoin DEF _flush

LEMMA MessageWhole ==
  ASSUME NEW m \in Messages \cup {TickMessage}, SinksTyped
  PROVE  _vprintkl(m) \in Wholes
<1>1. m.level \in Nat /\ m.text \in Texts
  <2>1. /\ m.level \in Nat /\ m.text \in Seq(STRING)
        /\ \A k \in 1 .. Len(m.text) : m.text[k] \notin Codes \cup {"ESC["}
        /\ \A k \in 1 .. Len(m.text) - 1 : m.text[k] # "\n"
    BY MessagesAssumption, Zenon
  <2>2. m.text \in Seq(Tokens)
    BY <2>1 DEF Tokens
  <2> QED BY <2>1, <2>2, Zenon DEF Texts, IsText
<1>2. PICK chunks \in Seq(Texts) : chunks = Chunks(m.text)
  BY <1>1, ChunksAreTexts
<1>3. PICK ss : ss = [k \in DOMAIN chunks |-> _flush(m.level, chunks[k])]
  BY Zenon
<1>4. \A k \in 1 .. Len(chunks) : _flush(m.level, chunks[k]) \in Wholes
  BY <1>1, <1>2, FlushWhole, Elements
<1>5. ss \in Seq(Wholes)
  BY <1>3, <1>4
<1> QED BY <1>2, <1>3, <1>5, WholesJoin DEF _vprintkl

(***************************************************************************)
(* The inductive invariant.  Of an interrupted message nothing is known    *)
(* about the variables when it is in the middle of early_vga_putc: it goes *)
(* on from its registers.  Between characters the tick has to leave cx, cy *)
(* and the colours as a message expects them.                              *)
(***************************************************************************)

\* What may be left of a message.
Remains(t) ==
  /\ t \in Seq(Accesses)
  /\ \A i \in 1 .. Len(t) - 1 : Follows(t[i], t[i + 1])
  /\ Len(t) > 0 => Ends(t[Len(t)])
  /\ \A i \in 1 .. Len(t) :
       /\ Sends(t[i], "\n") /\ i >= 2 => Sends(t[i - 1], "0m")
       /\ Sends(t[i], "0m") /\ i >= 2 => Sends(t[i - 1], "ESC[")
       /\ t[i].op = "serial" /\ (i = Len(t) \/ t[i + 1].op # "serial") =>
            Sends(t[i], "\n") \/ Sends(t[i], "0m")

Regs == [x : Nat, y : Nat, wrapped : BOOLEAN, position : Nat]

IsDev(d) ==
  /\ d = [cells |-> d.cells, cx |-> d.cx, cy |-> d.cy, color |-> d.color, serial |-> d.serial]
  /\ d.cx \in Nat /\ d.cy \in Nat /\ d.serial \in Seq(Tokens)

OnScreen(d) == d.cx < WIDTH /\ d.cy < HEIGHT

\* What the access a needs of cx, cy and the registers for the cursor to end on screen.
Ready(a, d, r) ==
  /\ Starts(a) => OnScreen(d)
  /\ a.op \in {"cell", "column"} => r.x <= WIDTH /\ r.y <= HEIGHT /\ (r.x = WIDTH => r.y < HEIGHT)
  /\ a.op \in {"row", "scroll"} => r.x < WIDTH /\ r.y <= HEIGHT
  /\ a.op = "cursor" => r.x < WIDTH /\ r.y < HEIGHT

Boundary(t) == t = <<>> \/ Starts(t[1])
Place(t, d, r) == IF t = <<>> THEN OnScreen(d) ELSE Ready(t[1], d, r)

\* The colours of the terminal are reset; the line ends with the start of a code.
Quiet(s) ==
  \E j \in 1 .. Len(s) - 1 :
    /\ s[j] = "ESC[" /\ s[j + 1] = "0m"
    /\ \A i \in j + 1 .. Len(s) - 1 : ~(s[i] = "ESC[" /\ s[i + 1] \in Codes)
Half(s) == Len(s) > 0 /\ s[Len(s)] = "ESC["

\* What the message left needs of what has been sent.
Tinted(t, s) ==
  t # <<>> => /\ Sends(t[1], "\n") => Quiet(s)
              /\ Sends(t[1], "0m") => Quiet(s) \/ Half(s)

TypeInv ==
  /\ SinksTyped /\ IsDev(dev) /\ regs \in Regs /\ Remains(todo)
  /\ interrupted # None =>
       /\ Remains(interrupted[1].todo) /\ interrupted[1].regs \in Regs

CursorInv ==
  /\ interrupted = None => Place(todo, dev, regs)
  /\ interrupted # None =>
       IF Boundary(interrupted[1].todo) THEN Place(todo, dev, regs)
       ELSE Ready(interrupted[1].todo[1], dev, interrupted[1].regs)

SerialInv ==
  /\ NoBleeding
  /\ Tinted(todo, dev.serial)
  /\ interrupted # None /\ (todo = <<>> \/ todo[1].op # "serial") =>
       Tinted(interrupted[1].todo, dev.serial)

\* What an access leaves.
Effect(a, d, r, e) ==
  /\ IsDev(e[1]) /\ e[2] \in Regs
  /\ e[1].serial = IF a.op = "serial" THEN Append(d.serial, a.arg) ELSE d.serial
  /\ Ready(a, d, r) /\ Ends(a) => OnScreen(e[1])
  /\ Ready(a, d, r) => \A b \in Accesses : Follows(a, b) => Ready(b, e[1], e[2])

\* A tab goes to the next multiple of TAB_WIDTH, which is at most the end of the line.
LEMMA NextTab ==
  ASSUME NEW x \in Nat, NEW w \in Nat, NEW t \in Nat \ {0}, w % t = 0, x < w
  PROVE  x + t - (x % t) <= w
<1>1. PICK q \in Nat : w = t * q
  <2>1. w = t * (w \div t) + (w % t) /\ w \div t \in Nat
    OBVIOUS
  <2> QED BY <2>1
<1>2. PICK p \in Nat : x = t * p + (x % t)
  <2>1. x = t * (x \div t) + (x % t) /\ x \div t \in Nat
    OBVIOUS
  <2> QED BY <2>1, Zenon
<1>3. x % t \in 0 .. t - 1
  OBVIOUS
<1>4. t * p \in Nat /\ t * q \in Nat
  OBVIOUS
<1>5. t * p < t * q
  BY <1>1, <1>2, <1>3, <1>4
<1>6. p < q
  <2>1. ASSUME q <= p PROVE t * q <= t * p
    BY <2>1
  <2> QED BY <1>4, <1>5, <2>1
<1>7. p + 1 <= q
  BY <1>6
<1>8. t * (p + 1) <= t * q /\ t * (p + 1) = t * p + t
  BY <1>7
<1> QED BY <1>1, <1>2, <1>3, <1>4, <1>8

LEMMA AccessEffect ==
  ASSUME NEW a \in Accesses, NEW d, NEW r \in Regs, IsDev(d)
  PROVE  Effect(a, d, r, Done(a, d, r))
<1>0. WIDTH \in Nat \ {0} /\ HEIGHT \in Nat \ {0} /\ TAB_WIDTH \in Nat \ {0} /\ WIDTH % TAB_WIDTH = 0
  BY ScreenAssumption
<1>1. CASE a.op = "serial"
  <2>1. PICK d2 : d2 = [d EXCEPT !.serial = Append(d.serial, a.arg)]
    BY Zenon
  <2>2. Done(a, d, r) = <<d2, r>>
    BY <1>1, <2>1 DEF Done
  <2>3. a.arg \in Tokens
    BY <1>1 DEF Accesses
  <2>4. Append(d.serial, a.arg) \in Seq(Tokens)
    BY <2>3, Appended DEF IsDev
  <2>5. IsDev(d2) /\ d2.serial = Append(d.serial, a.arg) /\ d2.cx = d.cx /\ d2.cy = d.cy
    BY <2>1, <2>4, Zenon DEF IsDev
  <2>6. Ready(a, d, r) => OnScreen(d2)
    BY <1>1, <2>5 DEF Ready, Starts, OnScreen
  <2>7. \A b \in Accesses : Follows(a, b) => Starts(b)
    BY <1>1 DEF Follows
  <2>8. Ready(a, d, r) => \A b \in Accesses : Follows(a, b) => Ready(b, d2, r)
    BY <2>6, <2>7 DEF Ready, Starts
  <2> QED BY <1>1, <2>2, <2>5, <2>6, <2>8 DEF Effect
<1>2. CASE a.op = "color"
  <2>1. PICK d2 : d2 = [d EXCEPT !.color = a.arg]
    BY Zenon
  <2>2. Done(a, d, r) = <<d2, r>>
    BY <1>2, <2>1 DEF Done
  <2>5. IsDev(d2) /\ d2.serial = d.serial /\ d2.cx = d.cx /\ d2.cy = d.cy
    BY <2>1 DEF IsDev
  <2>6. Ready(a, d, r) => OnScreen(d2)
    BY <1>2, <2>5 DEF Ready, Starts, OnScreen
  <2>7. \A b \in Accesses : Follows(a, b) => Starts(b)
    BY <1>2 DEF Follows
  <2>8. Ready(a, d, r) => \A b \in Accesses : Follows(a, b) => Ready(b, d2, r)
    BY <2>6, <2>7 DEF Ready, Starts
  <2> QED BY <1>2, <2>2, <2>5, <2>6, <2>8 DEF Effect
<1>3. CASE a.op = "switch"
  <2>1. PICK x : x = CASE a.arg \in {"\n", "\r"} -> 0
                       [] a.arg = "\t" -> d.cx + TAB_WIDTH - (d.cx % TAB_WIDTH)
                       [] OTHER -> d.cx + 1
    OBVIOUS
  <2>2. PICK y : y = IF a.arg = "\n" THEN d.cy + 1 ELSE d.cy
    OBVIOUS
  <2>3. PICK d2 : d2 = [d EXCEPT !.cx = x, !.cy = y]
    OBVIOUS
  <2>4. PICK r2 : r2 = [x |-> x, y |-> y, wrapped |-> FALSE, position |-> d.cy * WIDTH + d.cx]
    BY Zenon
  <2>5. Done(a, d, r) = <<d2, r2>>
    BY <1>3, <2>1, <2>2, <2>3, <2>4, Zenon DEF Done, Switch
  <2>6. d.cx \in Nat /\ d.cy \in Nat
    BY DEF IsDev
  <2>70. d.cx + TAB_WIDTH - (d.cx % TAB_WIDTH) \in Nat
    <3>1. d.cx % TAB_WIDTH \in 0 .. TAB_WIDTH - 1
      BY <1>0, <2>6
    <3> QED BY <1>0, <2>6, <3>1
  <2>7. x \in Nat /\ y \in Nat
    BY <2>1, <2>2, <2>6, <2>70
  <2>8. d.cx < WIDTH => d.cx + TAB_WIDTH - (d.cx % TAB_WIDTH) <= WIDTH
    BY <1>0, <2>6, NextTab
  <2>9. OnScreen(d) => x <= WIDTH /\ y <= HEIGHT /\ (x = WIDTH => y < HEIGHT)
    <3>1. CASE a.arg = "\n"
      BY <1>0, <2>1, <2>2, <2>6, <3>1 DEF OnScreen
    <3>2. CASE a.arg # "\n"
      <4>1. OnScreen(d) => x <= WIDTH
        BY <1>0, <2>1, <2>6, <2>8 DEF OnScreen
      <4> QED BY <1>0, <2>2, <2>6, <3>2, <4>1 DEF OnScreen
    <3> QED BY <3>1, <3>2
  <2>10. IsDev(d2) /\ d2.serial = d.serial
    BY <2>3, <2>7, Zenon DEF IsDev
  <2>11. d.cy * WIDTH + d.cx \in Nat
    <3>1. d.cy * WIDTH \in Nat
      BY <1>0, <2>6
    <3> QED BY <2>6, <3>1
  <2>12. r2 \in Regs /\ r2.x = x /\ r2.y = y
    BY <2>4, <2>7, <2>11 DEF Regs
  <2>13. \A b \in Accesses : Follows(a, b) => b.op = "cell"
    BY <1>3 DEF Follows, Ends
  <2>14. Ready(a, d, r) => OnScreen(d)
    BY <1>3 DEF Ready, Starts
  <2>15. Ready(a, d, r) => \A b \in Accesses : Follows(a, b) => Ready(b, d2, r2)
    BY <2>9, <2>12, <2>13, <2>14 DEF Ready, Starts
  <2>16. ~Ends(a)
    BY <1>3 DEF Ends
  <2> QED BY <1>3, <2>5, <2>10, <2>12, <2>15, <2>16 DEF Effect
<1>4. CASE a.op = "cell"
  <2>1. PICK d2 : Done(a, d, r) = <<d2, r>> /\ IsDev(d2) /\ d2.serial = d.serial
    <3>1. Done(a, d, r) = PutCell(a.arg, d, r)
      BY <1>4 DEF Done
    <3>2. PICK d3 : d3 = [d EXCEPT !.cells[r.position] = <<a.arg, d.color>>]
      BY Zenon
    <3>3. IsDev(d3) /\ d3.serial = d.serial
      BY <3>2, Zenon DEF IsDev
    <3> QED BY <3>1, <3>2, <3>3, Zenon DEF PutCell
  <2>2. \A b \in Accesses : Follows(a, b) => b.op = "column"
    BY <1>4 DEF Follows, Ends
  <2>3. Ready(a, d, r) => \A b \in Accesses : Follows(a, b) => Ready(b, d2, r)
    BY <1>4, <2>2 DEF Ready, Starts
  <2>4. ~Ends(a)
    BY <1>4 DEF Ends
  <2> QED BY <1>4, <2>1, <2>3, <2>4 DEF Effect
<1>5. CASE a.op = "column"
  <2>1. \A b \in Accesses : Follows(a, b) => b.op = "row"
    BY <1>5 DEF Follows, Ends
  <2>2. ~Ends(a)
    BY <1>5 DEF Ends
  <2>3. Done(a, d, r) = WrapColumn(d, r)
    BY <1>5 DEF Done
  <2>4. CASE r.x >= WIDTH
    <3>1. PICK d2 : d2 = [d EXCEPT !.cx = 0]
      BY Zenon
    <3>2. PICK r2 : r2 = [r EXCEPT !.x = 0, !.y = r.y + 1, !.wrapped = TRUE]
      OBVIOUS
    <3>3. Done(a, d, r) = <<d2, r2>>
      BY <2>3, <2>4, <3>1, <3>2 DEF WrapColumn
    <3>4. IsDev(d2) /\ d2.serial = d.serial
      BY <3>1 DEF IsDev
    <3>50. r.y + 1 \in Nat
      BY DEF Regs
    <3>51. r2 = [x |-> 0, y |-> r.y + 1, wrapped |-> TRUE, position |-> r.position]
      BY <3>2, Zenon DEF Regs
    <3>5. r2 \in Regs /\ r2.x = 0 /\ r2.y = r.y + 1
      BY <3>50, <3>51 DEF Regs
    <3>6. Ready(a, d, r) => r2.x < WIDTH /\ r2.y <= HEIGHT
      BY <1>0, <1>5, <2>4, <3>5 DEF Ready, Regs
    <3>7. Ready(a, d, r) => \A b \in Accesses : Follows(a, b) => Ready(b, d2, r2)
      BY <2>1, <3>6 DEF Ready, Starts
    <3> QED BY <1>5, <2>2, <3>3, <3>4, <3>5, <3>7 DEF Effect
  <2>5. CASE ~(r.x >= WIDTH)
    <3>1. Done(a, d, r) = <<d, r>>
      BY <2>3, <2>5 DEF WrapColumn
    <3>2. Ready(a, d, r) => r.x < WIDTH /\ r.y <= HEIGHT
      BY <1>0, <1>5, <2>5 DEF Ready, Regs
    <3>3. Ready(a, d, r) => \A b \in Accesses : Follows(a, b) => Ready(b, d, r)
      BY <2>1, <3>2 DEF Ready, Starts
    <3> QED BY <1>5, <2>2, <3>1, <3>3 DEF Effect
  <2> QED BY <2>4, <2>5
<1>6. CASE a.op = "row"
  <2>1. PICK d2 : Done(a, d, r) = <<d2, r>> /\ IsDev(d2) /\ d2.serial = d.serial
    <3>1. Done(a, d, r) = WrapRow(d, r)
      BY <1>6 DEF Done
    <3>2. PICK d3 : d3 = [d EXCEPT !.cy = r.y]
      BY Zenon
    <3>3. IsDev(d3) /\ d3.serial = d.serial
      BY <3>2 DEF IsDev, Regs
    <3> QED BY <3>1, <3>2, <3>3, Zenon DEF WrapRow
  <2>2. \A b \in Accesses : Follows(a, b) => b.op = "scroll"
    BY <1>6 DEF Follows, Ends
  <2>3. Ready(a, d, r) => \A b \in Accesses : Follows(a, b) => Ready(b, d2, r)
    BY <1>6, <2>2 DEF Ready, Starts
  <2>4. ~Ends(a)
    BY <1>6 DEF Ends
  <2> QED BY <1>6, <2>1, <2>3, <2>4 DEF Effect
<1>7. CASE a.op = "scroll"
  <2>1. \A b \in Accesses : Follows(a, b) => b.op = "cursor"
    BY <1>7 DEF Follows, Ends
  <2>2. ~Ends(a)
    BY <1>7 DEF Ends
  <2>3. Done(a, d, r) = Scroll(d, r)
    BY <1>7 DEF Done
  <2>4. CASE r.y >= HEIGHT
    <3>1. PICK d2 : d2 = [d EXCEPT !.cells = Shifted(d.cells), !.cx = r.x, !.cy = r.y - 1]
      OBVIOUS
    <3>2. PICK r2 : r2 = [r EXCEPT !.y = r.y - 1]
      BY Zenon
    <3>3. Done(a, d, r) = <<d2, r2>>
      BY <2>3, <2>4, <3>1, <3>2 DEF Scroll
    <3>4. r.x \in Nat /\ r.y - 1 \in Nat
      BY <1>0, <2>4 DEF Regs
    <3>5. IsDev(d2) /\ d2.serial = d.serial
      BY <3>1, <3>4, Zenon DEF IsDev
    <3>6. r2 \in Regs /\ r2.x = r.x /\ r2.y = r.y - 1
      BY <3>2, <3>4 DEF Regs
    <3>7. Ready(a, d, r) => r2.x < WIDTH /\ r2.y < HEIGHT
      BY <1>0, <1>7, <2>4, <3>6 DEF Ready, Regs
    <3>8. Ready(a, d, r) => \A b \in Accesses : Follows(a, b) => Ready(b, d2, r2)
      BY <2>1, <3>7 DEF Ready, Starts
    <3> QED BY <1>7, <2>2, <3>3, <3>5, <3>6, <3>8 DEF Effect
  <2>5. CASE ~(r.y >= HEIGHT)
    <3>1. Done(a, d, r) = <<d, r>>
      BY <2>3, <2>5 DEF Scroll
    <3>2. Ready(a, d, r) => r.x < WIDTH /\ r.y < HEIGHT
      BY <1>0, <1>7, <2>5 DEF Ready, Regs
    <3>3. Ready(a, d, r) => \A b \in Accesses : Follows(a, b) => Ready(b, d, r)
      BY <2>1, <3>2 DEF Ready, Starts
    <3> QED BY <1>7, <2>2, <3>1, <3>3 DEF Effect
  <2> QED BY <2>4, <2>5
<1>8. CASE a.op = "cursor"
  <2>1. PICK d2 : d2 = [d EXCEPT !.cx = r.x, !.cy = r.y]
    OBVIOUS
  <2>2. Done(a, d, r) = <<d2, r>>
    BY <1>8, <2>1 DEF Done, set_cursor
  <2>3. IsDev(d2) /\ d2.serial = d.serial /\ d2.cx = r.x /\ d2.cy = r.y
    BY <2>1, Zenon DEF IsDev, Regs
  <2>4. Ready(a, d, r) => OnScreen(d2)
    BY <1>8, <2>3 DEF Ready, OnScreen
  <2>5. \A b \in Accesses : Follows(a, b) => Starts(b)
    BY <1>8 DEF Follows
  <2>6. Ready(a, d, r) => \A b \in Accesses : Follows(a, b) => Ready(b, d2, r)
    BY <2>4, <2>5 DEF Ready, Starts
  <2> QED BY <1>8, <2>2, <2>3, <2>4, <2>6 DEF Effect
<1> QED BY <1>1, <1>2, <1>3, <1>4, <1>5, <1>6, <1>7, <1>8 DEF Accesses, PutcOps

LEMMA TailOf ==
  ASSUME NEW S, NEW t \in Seq(S), t # <<>>
  PROVE  /\ Head(t) = t[1] /\ t[1] \in S /\ Tail(t) \in Seq(S) /\ Len(Tail(t)) = Len(t) - 1
         /\ Len(t) \in Nat /\ Len(t) >= 1 /\ (Tail(t) = <<>> <=> Len(t) = 1)
         /\ \A i \in 1 .. Len(t) - 1 : Tail(t)[i] = t[i + 1]
<1>1. Len(t) \in Nat /\ Len(t) >= 1
  OBVIOUS
<1>2. Head(t) = t[1] /\ Tail(t) \in Seq(S) /\ Len(Tail(t)) = Len(t) - 1
  OBVIOUS
<1>3. t[1] \in S
  BY <1>1
<1>4. \A i \in 1 .. Len(t) - 1 : Tail(t)[i] = t[i + 1]
  OBVIOUS
<1>6. Tail(t) = <<>> <=> Len(t) = 1
  <2>1. PICK u \in Seq(S) : u = Tail(t) /\ Len(u) = Len(t) - 1
    BY <1>2, Zenon
  <2>2. u = <<>> <=> Len(u) = 0
    OBVIOUS
  <2> QED BY <1>1, <2>1, <2>2
<1> QED BY <1>1, <1>2, <1>3, <1>4, <1>6

LEMMA RemainsTail ==
  ASSUME NEW t, Remains(t), t # <<>>
  PROVE  /\ Remains(Tail(t)) /\ Head(t) = t[1] /\ t[1] \in Accesses
         /\ Tail(t) = <<>> => Ends(t[1])
         /\ Tail(t) # <<>> => Tail(t)[1] = t[2] /\ t[2] \in Accesses /\ Follows(t[1], t[2])
<1>1. t \in Seq(Accesses)
  BY DEF Remains
<1>2. PICK n \in Nat : n = Len(t) /\ n >= 1
  BY <1>1, TailOf
<1>3. PICK u : u = Tail(t)
  BY Zenon
<1>4. /\ Head(t) = t[1] /\ t[1] \in Accesses /\ u \in Seq(Accesses) /\ Len(u) = n - 1
      /\ (u = <<>> <=> n = 1) /\ \A i \in 1 .. n - 1 : u[i] = t[i + 1]
  BY <1>1, <1>2, <1>3, TailOf
<1>5. /\ \A i \in 1 .. n - 1 : Follows(t[i], t[i + 1])
      /\ Ends(t[n])
      /\ \A i \in 1 .. n :
           /\ Sends(t[i], "\n") /\ i >= 2 => Sends(t[i - 1], "0m")
           /\ Sends(t[i], "0m") /\ i >= 2 => Sends(t[i - 1], "ESC[")
           /\ t[i].op = "serial" /\ (i = n \/ t[i + 1].op # "serial") =>
                Sends(t[i], "\n") \/ Sends(t[i], "0m")
  <2>1. n > 0
    BY <1>2
  <2> QED BY <1>2, <2>1, Zenon DEF Remains
<1>6. \A i \in 1 .. (n - 1) - 1 : Follows(u[i], u[i + 1])
  <2>1. \A i \in 1 .. (n - 1) - 1 : i \in 1 .. n - 1 /\ i + 1 \in 1 .. n - 1
    OBVIOUS
  <2> QED BY <1>4, <1>5, <2>1, Zenon
<1>7. n - 1 > 0 => Ends(u[n - 1])
  <2>1. n - 1 > 0 => n - 1 \in 1 .. n - 1 /\ (n - 1) + 1 = n
    OBVIOUS
  <2> QED BY <1>4, <1>5, <2>1, Zenon
<1>8. ASSUME NEW i \in 1 .. n - 1
      PROVE  /\ Sends(u[i], "\n") /\ i >= 2 => Sends(u[i - 1], "0m")
             /\ Sends(u[i], "0m") /\ i >= 2 => Sends(u[i - 1], "ESC[")
             /\ u[i].op = "serial" /\ (i = n - 1 \/ u[i + 1].op # "serial") =>
                  Sends(u[i], "\n") \/ Sends(u[i], "0m")
  <2>1. /\ i + 1 \in 1 .. n /\ i + 1 >= 2 /\ (i = n - 1 => i + 1 = n) /\ (i + 1) - 1 = i
        /\ i # n - 1 => i + 1 \in 1 .. n - 1
    OBVIOUS
  <2>2. u[i] = t[i + 1] /\ (i # n - 1 => u[i + 1] = t[(i + 1) + 1])
    BY <1>4, <2>1, Zenon
  <2>3. i >= 2 => u[i - 1] = t[i]
    <3>1. i >= 2 => i - 1 \in 1 .. n - 1 /\ (i - 1) + 1 = i
      OBVIOUS
    <3> QED BY <1>4, <3>1, Zenon
  <2>4. PICK k \in 1 .. n : k = i + 1 /\ k >= 2 /\ (i = n - 1 => k = n) /\ k - 1 = i
    BY <2>1
  <2>5. /\ Sends(t[k], "\n") /\ k >= 2 => Sends(t[k - 1], "0m")
        /\ Sends(t[k], "0m") /\ k >= 2 => Sends(t[k - 1], "ESC[")
        /\ t[k].op = "serial" /\ (k = n \/ t[k + 1].op # "serial") =>
             Sends(t[k], "\n") \/ Sends(t[k], "0m")
    BY <1>5, Zenon
  <2>6. u[i] = t[k] /\ (i # n - 1 => u[i + 1] = t[k + 1])
    BY <2>2, <2>4, Zenon
  <2> QED BY <2>3, <2>4, <2>5, <2>6, Zenon
<1>9. Remains(u)
  BY <1>4, <1>6, <1>7, <1>8, Zenon DEF Remains
<1>10. u = <<>> => Ends(t[1])
  BY <1>4, <1>5
<1>11. u # <<>> => u[1] = t[2] /\ t[2] \in Accesses /\ Follows(t[1], t[2])
  <2>1. u # <<>> => 1 \in 1 .. n - 1 /\ 1 + 1 = 2 /\ 2 \in 1 .. n
    BY <1>2, <1>4
  <2>2. u # <<>> => u[1] = t[2] /\ Follows(t[1], t[2])
    BY <1>4, <1>5, <2>1, Zenon
  <2>3. u # <<>> => t[2] \in Accesses
    BY <1>1, <1>2, <2>1, Elements
  <2> QED BY <2>2, <2>3
<1> QED BY <1>3, <1>4, <1>9, <1>10, <1>11

LEMMA WholeRemains ==
  ASSUME NEW t \in Wholes
  PROVE  Remains(t) /\ Boundary(t) /\ \A s : Tinted(t, s)
<1>1. t \in Seq(Accesses) /\ Shaped(t) /\ Closed(t)
  BY DEF Wholes
<1>2. Remains(t)
  BY <1>1, Zenon DEF Remains, Shaped, Closed
<1>3. t # <<>> => Len(t) > 0 /\ 1 \in 1 .. Len(t) /\ ~(1 >= 2)
  BY <1>1
<1>4. Boundary(t)
  BY <1>1, <1>3, Zenon DEF Boundary, Shaped
<1>5. \A s : Tinted(t, s)
  BY <1>1, <1>3, Zenon DEF Tinted, Closed
<1> QED BY <1>2, <1>4, <1>5

LEMMA QuietSend ==
  ASSUME NEW s \in Seq(Tokens), NEW c \in Tokens
  PROVE  /\ Quiet(s) /\ c \notin Codes => Quiet(Append(s, c))
         /\ (Quiet(s) \/ Half(s)) /\ c = "0m" => Quiet(Append(s, c))
         /\ c = "ESC[" => Half(Append(s, c))
<1>a. PICK z \in Seq(Tokens) : z = Append(s, c)
  BY Appended, Zenon
<1>b. PICK n \in Nat : n = Len(s)
  BY Elements
<1>0. /\ z = Append(s, c) /\ n = Len(s) /\ Len(z) = n + 1
      /\ z[n + 1] = c /\ \A i \in 1 .. n : z[i] = s[i]
  BY <1>a, <1>b, Appended
<1>1. c = "ESC[" => Half(z)
  BY <1>0 DEF Half
<1>2. ASSUME Quiet(s), c \notin Codes \/ s[n] # "ESC[" PROVE Quiet(z)
  <2>1. PICK j \in 1 .. n - 1 :
          /\ s[j] = "ESC[" /\ s[j + 1] = "0m"
          /\ \A i \in j + 1 .. n - 1 : ~(s[i] = "ESC[" /\ s[i + 1] \in Codes)
    BY <1>0, <1>2, Zenon DEF Quiet
  <2>2. j \in 1 .. (n + 1) - 1 /\ j \in 1 .. n /\ j + 1 \in 1 .. n /\ n \in 1 .. n
    OBVIOUS
  <2>3. z[j] = "ESC[" /\ z[j + 1] = "0m"
    BY <1>0, <2>1, <2>2, Zenon
  <2>4. ASSUME NEW i \in j + 1 .. (n + 1) - 1, z[i] = "ESC[", z[i + 1] \in Codes PROVE FALSE
    <3>1. CASE i = n
      BY <1>0, <1>2, <2>2, <2>4, <3>1, Zenon
    <3>2. CASE i # n
      <4>1. i \in j + 1 .. n - 1 /\ i \in 1 .. n /\ i + 1 \in 1 .. n
        BY <3>2
      <4> QED BY <1>0, <2>1, <2>4, <4>1, Zenon
    <3> QED BY <3>1, <3>2
  <2>5. \A i \in j + 1 .. (n + 1) - 1 : ~(z[i] = "ESC[" /\ z[i + 1] \in Codes)
    BY <2>4, Zenon
  <2> QED BY <1>0, <2>2, <2>3, <2>5, Zenon DEF Quiet
<1>3. ASSUME Half(s), c = "0m" PROVE Quiet(z)
  <2>1. n > 0 /\ s[n] = "ESC["
    BY <1>0, <1>3 DEF Half
  <2>2. n \in 1 .. n /\ n \in 1 .. (n + 1) - 1 /\ \A i \in n + 1 .. (n + 1) - 1 : FALSE
    BY <2>1
  <2>3. z[n] = "ESC[" /\ z[n + 1] = "0m"
    BY <1>0, <1>3, <2>1, <2>2, Zenon
  <2> QED BY <1>0, <2>2, <2>3, Zenon DEF Quiet
<1>4. Quiet(s) => s[n] # "ESC[" \/ Half(s)
  <2>1. ASSUME Quiet(s) PROVE n > 0
    <3>1. PICK j \in 1 .. n - 1 : TRUE
      BY <1>0, <2>1, Zenon DEF Quiet
    <3> QED BY <1>0, <3>1
  <2> QED BY <1>0, <2>1, Zenon DEF Half
<1> QED BY <1>0, <1>1, <1>2, <1>3, <1>4, Zenon

\* One access of a message, as the terminal sees it.
LEMMA TintedStep ==
  ASSUME NEW t, Remains(t), t # <<>>, NEW s \in Seq(Tokens), NEW z,
         z = IF t[1].op = "serial" THEN Append(s, t[1].arg) ELSE s,
         Tinted(t, s)
  PROVE  /\ Tinted(Tail(t), z)
         /\ t[1].op = "serial" /\ (Tail(t) = <<>> \/ Tail(t)[1].op # "serial") => Quiet(z)
<1>1. t \in Seq(Accesses)
  BY DEF Remains
<1>2. PICK n \in Nat : n = Len(t) /\ n >= 1 /\ (Tail(t) = <<>> <=> n = 1)
  BY <1>1, TailOf
<1>3. t[1] \in Accesses /\ (Tail(t) # <<>> => Tail(t)[1] = t[2])
  BY RemainsTail
<1>4. t[1].op = "serial" => t[1].arg \in Tokens
  BY <1>3 DEF Accesses
<1>5. n # 1 => 2 \in 1 .. n /\ 2 >= 2 /\ 2 - 1 = 1
  BY <1>2
<1>6. 1 \in 1 .. n /\ 1 + 1 = 2
  BY <1>2
<1>7. ASSUME n # 1, Sends(t[2], "\n") PROVE Quiet(z)
  <2>1. Sends(t[1], "0m")
    BY <1>2, <1>5, <1>7, Zenon DEF Remains
  <2>2. Quiet(s) \/ Half(s)
    BY <2>1, Zenon DEF Tinted
  <2> QED BY <1>4, <2>1, <2>2, QuietSend, Zenon DEF Sends
<1>8. ASSUME n # 1, Sends(t[2], "0m") PROVE Half(z)
  <2>1. Sends(t[1], "ESC[")
    BY <1>2, <1>5, <1>8, Zenon DEF Remains
  <2> QED BY <1>4, <2>1, QuietSend, Zenon DEF Sends
<1>9. Tinted(Tail(t), z)
  BY <1>2, <1>3, <1>7, <1>8, Zenon DEF Tinted
<1>10. ASSUME t[1].op = "serial", Tail(t) = <<>> \/ Tail(t)[1].op # "serial" PROVE Quiet(z)
  <2>1. 1 = n \/ t[2].op # "serial"
    BY <1>2, <1>3, <1>10, Zenon
  <2>2. Sends(t[1], "\n") \/ Sends(t[1], "0m")
    BY <1>2, <1>6, <1>10, <2>1, Zenon DEF Remains
  <2>3. CASE Sends(t[1], "\n")
    <3>1. Quiet(s)
      BY <2>3, Zenon DEF Tinted
    <3> QED BY <1>4, <2>3, <3>1, CodesAre, QuietSend, Zenon DEF Sends
  <2>4. CASE Sends(t[1], "0m")
    <3>1. Quiet(s) \/ Half(s)
      BY <2>4, Zenon DEF Tinted
    <3> QED BY <1>4, <2>4, <3>1, QuietSend, Zenon DEF Sends
  <2> QED BY <2>2, <2>3, <2>4
<1> QED BY <1>9, <1>10

\* NoBleeding of the line s.
Clean(s) ==
  \A k \in 1 .. Len(s) :
    s[k] = "\n" =>
      \E j \in 1 .. k - 2 :
        /\ s[j] = "ESC[" /\ s[j + 1] = "0m"
        /\ \A i \in j + 1 .. k - 2 : ~(s[i] = "ESC[" /\ s[i + 1] \in Codes)

LEMMA CleanSend ==
  ASSUME NEW s \in Seq(Tokens), NEW c \in Tokens, Clean(s), c = "\n" => Quiet(s)
  PROVE  Clean(Append(s, c))
<1>a. PICK z \in Seq(Tokens) : z = Append(s, c)
  BY Appended, Zenon
<1>b. PICK n \in Nat : n = Len(s)
  BY Elements
<1>0. Len(z) = n + 1 /\ z[n + 1] = c /\ \A i \in 1 .. n : z[i] = s[i]
  BY <1>a, <1>b, Appended
<1>1. ASSUME NEW k \in 1 .. n + 1, z[k] = "\n"
      PROVE  \E j \in 1 .. k - 2 :
               /\ z[j] = "ESC[" /\ z[j + 1] = "0m"
               /\ \A i \in j + 1 .. k - 2 : ~(z[i] = "ESC[" /\ z[i + 1] \in Codes)
  <2>1. PICK j \in 1 .. k - 2 :
          /\ s[j] = "ESC[" /\ s[j + 1] = "0m"
          /\ \A i \in j + 1 .. k - 2 : ~(s[i] = "ESC[" /\ s[i + 1] \in Codes)
    <3>1. CASE k = n + 1
      <4>1. k - 2 = n - 1
        BY <3>1
      <4> QED BY <1>b, <1>0, <1>1, <3>1, <4>1, Zenon DEF Quiet
    <3>2. CASE k # n + 1
      <4>1. k \in 1 .. n
        BY <3>2
      <4> QED BY <1>b, <1>0, <1>1, <4>1, Zenon DEF Clean
    <3> QED BY <3>1, <3>2
  <2>2. \A i \in 1 .. k - 2 : i \in 1 .. n /\ i + 1 \in 1 .. n
    OBVIOUS
  <2>3. \A i \in j + 1 .. k - 2 : i \in 1 .. k - 2
    OBVIOUS
  <2>4. z[j] = "ESC[" /\ z[j + 1] = "0m"
    BY <1>0, <2>1, <2>2, Zenon
  <2>5. \A i \in j + 1 .. k - 2 : ~(z[i] = "ESC[" /\ z[i + 1] \in Codes)
    BY <1>0, <2>1, <2>2, <2>3, Zenon
  <2> QED BY <2>4, <2>5
<1> QED BY <1>a, <1>0, <1>1, Zenon DEF Clean

LEMMA CleanIs == IsDev(dev) => (NoBleeding <=> Clean(dev.serial))
<1>1. IsDev(dev) => DOMAIN dev.serial = 1 .. Len(dev.serial)
  BY Elements DEF IsDev
<1> QED BY <1>1, Zenon DEF NoBleeding, Clean

ConsoleInv == TypeInv /\ CursorInv /\ SerialInv

LEMMA InitInv == Init => ConsoleInv
<1> SUFFICES ASSUME Init PROVE ConsoleInv
  OBVIOUS
<1>0. WIDTH \in Nat \ {0} /\ HEIGHT \in Nat \ {0}
  BY ScreenAssumption
<1>1. SinksTyped
  BY Zenon DEF Init, SinksTyped, Sinks
<1>2. IsDev(dev) /\ dev.serial = <<>> /\ OnScreen(dev)
  <2>1. dev = [cells |-> [p \in 0 .. Cells |-> Blank], cx |-> 0, cy |-> 0,
               color |-> DEFAULT_COLOR, serial |-> <<>>]
    BY Zenon DEF Init
  <2>2. <<>> \in Seq(Tokens)
    OBVIOUS
  <2> QED BY <1>0, <2>1, <2>2 DEF IsDev, OnScreen
<1>3. regs \in Regs
  BY Zenon DEF Init, NoRegs, Regs
<1>4. todo = <<>> /\ interrupted = None
  BY Zenon DEF Init
<1>5. todo \in Wholes
  BY <1>4, WholesJoin
<1>6. Remains(todo) /\ Tinted(todo, dev.serial)
  BY <1>5, WholeRemains
<1>7. Place(todo, dev, regs)
  BY <1>2, <1>4 DEF Place
<1>8. Clean(dev.serial)
  <2>1. Len(<<>>) = 0 /\ \A k \in 1 .. 0 : FALSE
    OBVIOUS
  <2> QED BY <1>2, <2>1 DEF Clean
<1>9. NoBleeding
  BY <1>2, <1>8, CleanIs
<1> QED BY <1>1, <1>2, <1>3, <1>4, <1>6, <1>7, <1>9 DEF ConsoleInv, TypeInv, CursorInv, SerialInv

\* A new message starts where a message may start.
LEMMA WholePlace ==
  ASSUME NEW t \in Wholes, NEW d, NEW r, OnScreen(d)
  PROVE  Place(t, d, r)
<1>1. Boundary(t)
  BY WholeRemains
<1>2. t # <<>> => Starts(t[1])
  BY <1>1, Zenon DEF Boundary
<1>3. t # <<>> => Ready(t[1], d, r)
  BY <1>2 DEF Ready, Starts
<1> QED BY <1>3, Zenon DEF Place

LEMMA BoundaryPlace ==
  ASSUME NEW t, NEW d, NEW r, Boundary(t)
  PROVE  Place(t, d, r) <=> OnScreen(d)
<1>1. t # <<>> => Starts(t[1])
  BY Zenon DEF Boundary
<1>2. t # <<>> => (Ready(t[1], d, r) <=> OnScreen(d))
  BY <1>1 DEF Ready, Starts
<1> QED BY <1>2, Zenon DEF Place

\* printk and a tick: a whole message is to be printed.
LEMMA MessageStep ==
  ASSUME ConsoleInv, NEW m \in Messages \cup {TickMessage}, todo' = _vprintkl(m),
         UNCHANGED <<sinks, dev, regs>>, interrupted = None,
         \/ todo = <<>> /\ interrupted' = None
         \/ interrupted' = <<[todo |-> todo, regs |-> regs]>>
  PROVE  ConsoleInv'
<1>1. todo' \in Wholes
  <2>1. _vprintkl(m) \in Wholes
    BY MessageWhole DEF ConsoleInv, TypeInv
  <2> QED BY <2>1
<1>2. Remains(todo') /\ Tinted(todo', dev.serial)
  BY <1>1, WholeRemains
<1>3. Place(todo, dev, regs) /\ Remains(todo) /\ regs \in Regs /\ IsDev(dev) /\ Tinted(todo, dev.serial)
  BY DEF ConsoleInv, CursorInv, TypeInv, SerialInv
<1>4. Boundary(todo) => Place(todo', dev, regs)
  BY <1>1, <1>3, BoundaryPlace, WholePlace
<1>5. interrupted' # None =>
        /\ interrupted'[1].todo = todo /\ interrupted'[1].regs = regs
  BY DEF None
<1>6. interrupted' = None => todo = <<>> /\ Boundary(todo)
  BY DEF None, Boundary
<1>7. NoBleeding'
  BY DEF ConsoleInv, SerialInv, NoBleeding
<1>8. SinksTyped'
  BY Zenon DEF ConsoleInv, TypeInv, SinksTyped
<1>9. TypeInv'
  BY <1>2, <1>3, <1>5, <1>8 DEF TypeInv
<1>10. CursorInv'
  <2>1. interrupted' = None => Place(todo', dev', regs')
    BY <1>4, <1>6
  <2>2. ~Boundary(todo) => Ready(todo[1], dev, regs)
    BY <1>3, Zenon DEF Boundary, Place
  <2> QED BY <1>4, <1>5, <2>1, <2>2, Zenon DEF CursorInv
<1>11. SerialInv'
  BY <1>2, <1>3, <1>5, <1>7 DEF SerialInv
<1> QED BY <1>9, <1>10, <1>11 DEF ConsoleInv

LEMMA IretStep == ConsoleInv /\ iret => ConsoleInv'
<1> SUFFICES ASSUME ConsoleInv, iret PROVE ConsoleInv'
  OBVIOUS
<1>1. /\ interrupted # None /\ todo = <<>> /\ interrupted' = None
      /\ todo' = interrupted[1].todo /\ regs' = interrupted[1].regs
      /\ UNCHANGED <<sinks, dev>>
  BY DEF iret
<1>2. Remains(todo') /\ regs' \in Regs /\ IsDev(dev) /\ SinksTyped
  BY <1>1 DEF ConsoleInv, TypeInv
<1>3. Tinted(todo', dev.serial)
  BY <1>1 DEF ConsoleInv, SerialInv
<1>4. CASE Boundary(todo')
  <2>1. Place(todo, dev, regs)
    BY <1>1, <1>4 DEF ConsoleInv, CursorInv
  <2>2. OnScreen(dev)
    BY <1>1, <2>1 DEF Place
  <2>3. Place(todo', dev, regs')
    BY <1>4, <2>2, BoundaryPlace
  <2> QED BY <1>1, <1>2, <1>3, <2>3, Zenon
          DEF ConsoleInv, TypeInv, CursorInv, SerialInv, NoBleeding, SinksTyped
<1>5. CASE ~Boundary(todo')
  <2>1. Ready(todo'[1], dev, regs')
    BY <1>1, <1>5 DEF ConsoleInv, CursorInv
  <2>2. todo' # <<>>
    BY <1>5 DEF Boundary
  <2>3. Place(todo', dev, regs')
    BY <2>1, <2>2 DEF Place
  <2> QED BY <1>1, <1>2, <1>3, <2>3, Zenon
          DEF ConsoleInv, TypeInv, CursorInv, SerialInv, NoBleeding, SinksTyped
<1> QED BY <1>4, <1>5

LEMMA AccessStep == ConsoleInv /\ access => ConsoleInv'
<1> SUFFICES ASSUME ConsoleInv, access PROVE ConsoleInv'
  OBVIOUS
<1>1. PICK a : a = todo[1]
  OBVIOUS
<1>2. PICK e : e = Done(a, dev, regs)
  OBVIOUS
<1>3. SinksTyped /\ IsDev(dev) /\ regs \in Regs /\ Remains(todo) /\ todo # <<>>
  BY Zenon DEF ConsoleInv, TypeInv, access
<1>4. /\ Remains(Tail(todo)) /\ Head(todo) = a /\ a \in Accesses
      /\ Tail(todo) = <<>> => Ends(a)
      /\ Tail(todo) # <<>> => /\ Tail(todo)[1] \in Accesses /\ Follows(a, Tail(todo)[1])
  BY <1>1, <1>3, RemainsTail
<1>5. /\ dev' = e[1] /\ regs' = e[2] /\ todo' = Tail(todo)
      /\ UNCHANGED <<sinks, interrupted>>
  BY <1>2, <1>4 DEF access
<1>6. Effect(a, dev, regs, e)
  BY <1>2, <1>3, <1>4, AccessEffect
<1>7. IsDev(dev') /\ regs' \in Regs
  BY <1>5, <1>6 DEF Effect
<1>8. TypeInv'
  <2>1. interrupted # None => Remains(interrupted[1].todo) /\ interrupted[1].regs \in Regs
    BY DEF ConsoleInv, TypeInv
  <2>2. SinksTyped'
    BY <1>3, <1>5, Zenon DEF SinksTyped
  <2> QED BY <1>4, <1>5, <1>7, <2>1, <2>2, Zenon DEF TypeInv
<1>9. Place(todo, dev, regs) => Place(todo', dev', regs')
  <2> SUFFICES ASSUME Place(todo, dev, regs) PROVE Place(todo', dev', regs')
    OBVIOUS
  <2>1. Ready(a, dev, regs)
    BY <1>1, <1>3, Zenon DEF Place
  <2>2. CASE Tail(todo) = <<>>
    <3>1. OnScreen(dev')
      BY <1>4, <1>5, <1>6, <2>1, <2>2 DEF Effect
    <3> QED BY <1>5, <2>2, <3>1 DEF Place
  <2>3. CASE Tail(todo) # <<>>
    <3>1. Ready(Tail(todo)[1], dev', regs')
      BY <1>4, <1>5, <1>6, <2>1, <2>3 DEF Effect
    <3> QED BY <1>5, <2>3, <3>1 DEF Place
  <2> QED BY <2>2, <2>3
<1>10. CursorInv'
  <2>1. interrupted = None => Place(todo', dev', regs')
    BY <1>9 DEF ConsoleInv, CursorInv
  <2>2. interrupted # None /\ Boundary(interrupted[1].todo) => Place(todo', dev', regs')
    BY <1>9 DEF ConsoleInv, CursorInv
  <2>3. interrupted # None /\ ~Boundary(interrupted[1].todo) =>
          Ready(interrupted[1].todo[1], dev', interrupted[1].regs)
    <3> SUFFICES ASSUME interrupted # None, ~Boundary(interrupted[1].todo)
                 PROVE  Ready(interrupted[1].todo[1], dev', interrupted[1].regs)
      OBVIOUS
    <3>1. Ready(interrupted[1].todo[1], dev, interrupted[1].regs)
      BY DEF ConsoleInv, CursorInv
    <3>2. ~Starts(interrupted[1].todo[1])
      BY DEF Boundary
    <3> QED BY <3>1, <3>2, Zenon DEF Ready
  <2>4. interrupted' = interrupted
    BY <1>5
  <2> QED BY <2>1, <2>2, <2>3, <2>4, Zenon DEF CursorInv
<1>11. SerialInv'
  <2>1. PICK s \in Seq(Tokens) : s = dev.serial
    BY <1>3 DEF IsDev
  <2>2. PICK z : z = dev.serial'
    OBVIOUS
  <2>3. z = IF a.op = "serial" THEN Append(s, a.arg) ELSE s
    BY <1>5, <1>6, <2>1, <2>2 DEF Effect
  <2>4. Tinted(todo, s) /\ Clean(s)
    BY <1>3, <2>1, CleanIs DEF ConsoleInv, SerialInv
  <2>5. /\ Tinted(todo', z)
        /\ a.op = "serial" /\ (todo' = <<>> \/ todo'[1].op # "serial") => Quiet(z)
    BY <1>1, <1>3, <1>5, <2>3, <2>4, TintedStep, Zenon
  <2>6. Clean(z)
    <3>1. CASE a.op = "serial"
      <4>1. a.arg \in Tokens
        BY <1>4, <3>1 DEF Accesses
      <4>2. a.arg = "\n" => Quiet(s)
        BY <1>1, <1>3, <2>4, <3>1, Zenon DEF Tinted, Sends
      <4> QED BY <2>3, <2>4, <3>1, <4>1, <4>2, CleanSend
    <3>2. CASE a.op # "serial"
      BY <2>3, <2>4, <3>2
    <3> QED BY <3>1, <3>2
  <2>7. NoBleeding'
    <3>1. z \in Seq(Tokens)
      BY <1>7, <2>2 DEF IsDev
    <3>2. DOMAIN z = 1 .. Len(z)
      BY <3>1, Elements
    <3> QED BY <2>2, <2>6, <3>2, Zenon DEF NoBleeding, Clean
  <2>8. ASSUME interrupted # None, todo' = <<>> \/ todo'[1].op # "serial"
        PROVE  Tinted(interrupted[1].todo, z)
    <3>1. CASE a.op = "serial"
      BY <2>5, <2>8, <3>1, Zenon DEF Tinted
    <3>2. CASE a.op # "serial"
      <4>1. Tinted(interrupted[1].todo, s)
        BY <1>1, <2>1, <2>8, <3>2 DEF ConsoleInv, SerialInv
      <4> QED BY <2>3, <3>2, <4>1
    <3> QED BY <3>1, <3>2
  <2>9. interrupted' = interrupted
    BY <1>5
  <2> QED BY <2>2, <2>5, <2>7, <2>8, <2>9, Zenon DEF SerialInv
<1> QED BY <1>8, <1>10, <1>11 DEF ConsoleInv

\* The steps that only change the sinks, the mode and the counters.
LEMMA OtherStep ==
  ASSUME ConsoleInv, SinksTyped', UNCHANGED <<dev, todo, regs, interrupted>>
  PROVE  ConsoleInv'
<1>1. TypeInv'
  BY DEF ConsoleInv, TypeInv
<1>2. CursorInv'
  BY DEF ConsoleInv, CursorInv
<1>3. SerialInv'
  BY DEF ConsoleInv, SerialInv, NoBleeding
<1> QED BY <1>1, <1>2, <1>3 DEF ConsoleInv

LEMMA NextInv == ConsoleInv /\ [Next]_vars => ConsoleInv'
<1> SUFFICES ASSUME ConsoleInv, [Next]_vars PROVE ConsoleInv'
  OBVIOUS
<1>0. SinksTyped
  BY DEF ConsoleInv, TypeInv
<1>1. ASSUME NEW s \in Sinks, printk_sink_register(s) PROVE ConsoleInv'
  <2>1. SinksTyped'
    BY <1>0, <1>1, Zenon DEF printk_sink_register, Register, SinksTyped
  <2> QED BY <1>1, <2>1, OtherStep, Zenon DEF printk_sink_register
<1>2. ASSUME NEW i \in Slots, printk_sink_unregister(i) PROVE ConsoleInv'
  <2>1. SinksTyped'
    BY <1>0, <1>2, Zenon DEF printk_sink_unregister, SinksTyped
  <2> QED BY <1>2, <2>1, OtherStep, Zenon DEF printk_sink_unregister
<1>3. ASSUME NEW m \in Messages, printk(m) PROVE ConsoleInv'
  BY <1>3, MessageStep DEF printk, Idle
<1>4. CASE access
  BY <1>4, AccessStep
<1>5. CASE tick
  BY <1>5, MessageStep DEF tick
<1>6. CASE iret
  BY <1>6, IretStep
<1>7. CASE __isr_dispatch
  BY <1>0, <1>7, OtherStep, Zenon DEF __isr_dispatch, SinksTyped
<1>8. CASE vpanic_cli
  BY <1>0, <1>8, OtherStep, Zenon DEF vpanic_cli, SinksTyped
<1>9. CASE UNCHANGED vars
  BY <1>0, <1>9, OtherStep, Zenon DEF vars, SinksTyped
<1> QED BY <1>1, <1>2, <1>3, <1>4, <1>5, <1>6, <1>7, <1>8, <1>9 DEF Next, Halted

\* The invariant holds in every reachable state, for every size of the screen and of
\* the buffer, all messages and any number of them, of ticks and of changed sinks.
THEOREM ConsoleInvariant == Spec => []ConsoleInv
BY InitInv, NextInv, PTL DEF Spec

\* Between messages the cursor is on the screen, wherever ticks have interrupted
\* early_vga_putc and moved cx and cy under it.
THEOREM CursorCorrect == Spec => []CursorOnScreen
<1>1. ConsoleInv => CursorOnScreen
  <2> SUFFICES ASSUME ConsoleInv, Idle PROVE dev.cx \in 0 .. WIDTH - 1 /\ dev.cy \in 0 .. HEIGHT - 1
    BY DEF CursorOnScreen
  <2>1. OnScreen(dev)
    BY DEF ConsoleInv, CursorInv, Place, Idle
  <2>2. dev.cx \in Nat /\ dev.cy \in Nat
    BY DEF ConsoleInv, TypeInv, IsDev
  <2> QED BY <2>1, <2>2, ScreenAssumption DEF OnScreen
<1> QED BY <1>1, ConsoleInvariant, PTL

\* Every newline is sent on the serial line with the colours reset, however
\* early_uart_log_write's chunks are cut and wherever ticks come between its tokens.
THEOREM BleedingCorrect == Spec => []NoBleeding
<1>1. ConsoleInv => NoBleeding
  BY DEF ConsoleInv, SerialInv
<1> QED BY <1>1, ConsoleInvariant, PTL

(***************************************************************************)
(* What a sequence of accesses comes to.                                   *)
(***************************************************************************)

\* The accesses t lead from e to z; both are pairs of dev and regs.
IsRun(f, t) == \A k \in 1 .. Len(t) : f[k] = Done(t[k], f[k - 1][1], f[k - 1][2])
Leads(t, e, z) == \E f : f[0] = e /\ f[Len(t)] = z /\ IsRun(f, t)

LEMMA LeadsEmpty == \A e, z : Leads(<<>>, e, z) <=> e = z
<1> SUFFICES ASSUME NEW e, NEW z PROVE Leads(<<>>, e, z) <=> e = z
  OBVIOUS
<1>1. Len(<<>>) = 0 /\ \A k \in 1 .. 0 : FALSE
  OBVIOUS
<1>2. ASSUME Leads(<<>>, e, z) PROVE e = z
  BY <1>1, <1>2, Zenon DEF Leads
<1>3. ASSUME e = z PROVE Leads(<<>>, e, z)
  <2>1. PICK f : f = [i \in {0} |-> e]
    BY Zenon
  <2>2. f[0] = e
    BY <2>1
  <2>3. IsRun(f, <<>>)
    BY <1>1 DEF IsRun
  <2> QED BY <1>1, <1>3, <2>2, <2>3, Zenon DEF Leads
<1> QED BY <1>2, <1>3

LEMMA LeadsOne ==
  ASSUME NEW a, NEW e
  PROVE  Leads(<<a>>, e, Done(a, e[1], e[2]))
<1>1. PICK z : z = Done(a, e[1], e[2])
  OBVIOUS
<1>2. PICK f : f = [i \in {0, 1} |-> IF i = 0 THEN e ELSE z]
  BY Zenon
<1>3. f[0] = e /\ f[1] = z
  BY <1>2
<1>4. Len(<<a>>) = 1 /\ <<a>>[1] = a
  OBVIOUS
<1>5. \A k \in 1 .. 1 : k = 1 /\ k - 1 = 0
  OBVIOUS
<1>6. IsRun(f, <<a>>)
  BY <1>1, <1>3, <1>4, <1>5, Zenon DEF IsRun
<1> QED BY <1>1, <1>3, <1>4, <1>6, Zenon DEF Leads

LEMMA LeadsConcat ==
  ASSUME NEW S, NEW a \in Seq(S), NEW b \in Seq(S), NEW e, NEW m, NEW z, Leads(a, e, m), Leads(b, m, z)
  PROVE  Leads(a \o b, e, z)
<1>1. PICK i \in Nat : i = Len(a)
  OBVIOUS
<1>2. PICK j \in Nat : j = Len(b)
  OBVIOUS
<1>3. PICK f : f[0] = e /\ f[i] = m /\ IsRun(f, a)
  BY <1>1, Zenon DEF Leads
<1>4. PICK g : g[0] = m /\ g[j] = z /\ IsRun(g, b)
  BY <1>2, Zenon DEF Leads
<1>5. PICK c : c = a \o b
  BY Zenon
<1>6. /\ Len(c) = i + j /\ \A k \in 1 .. i : c[k] = a[k]
      /\ \A k \in 1 .. j : c[i + k] = b[k]
  BY <1>1, <1>2, <1>5, Concat
<1>7. PICK h : h = [k \in 0 .. i + j |-> IF k <= i THEN f[k] ELSE g[k - i]]
  BY Zenon
<1>8. \A k \in 0 .. i + j : h[k] = IF k <= i THEN f[k] ELSE g[k - i]
  BY <1>7, Zenon
<1>9. h[0] = e
  <2>1. 0 \in 0 .. i + j /\ 0 <= i
    OBVIOUS
  <2> QED BY <1>3, <1>8, <2>1, Zenon
<1>10. \A k \in 0 .. j : h[i + k] = g[k]
  <2> SUFFICES ASSUME NEW k \in 0 .. j PROVE h[i + k] = g[k]
    OBVIOUS
  <2>1. i + k \in 0 .. i + j /\ (i + k) - i = k
    OBVIOUS
  <2>2. CASE k = 0
    <3>1. i + k = i /\ i + k <= i
      BY <2>2
    <3> QED BY <1>3, <1>4, <1>8, <2>1, <2>2, <3>1, Zenon
  <2>3. CASE k # 0
    <3>1. ~(i + k <= i)
      BY <2>3
    <3> QED BY <1>8, <2>1, <3>1, Zenon
  <2> QED BY <2>2, <2>3
<1>11. h[i + j] = z
  <2>1. j \in 0 .. j
    OBVIOUS
  <2> QED BY <1>4, <1>10, <2>1, Zenon
<1>12. ASSUME NEW k \in 1 .. i + j PROVE h[k] = Done(c[k], h[k - 1][1], h[k - 1][2])
  <2>1. CASE k <= i
    <3>1. k \in 1 .. i /\ k \in 0 .. i + j /\ k - 1 \in 0 .. i + j /\ k - 1 <= i
      BY <2>1
    <3>2. h[k] = f[k] /\ h[k - 1] = f[k - 1] /\ c[k] = a[k]
      BY <1>6, <1>8, <2>1, <3>1, Zenon
    <3>3. f[k] = Done(a[k], f[k - 1][1], f[k - 1][2])
      BY <1>1, <1>3, <3>1, Zenon DEF IsRun
    <3> QED BY <3>2, <3>3, Zenon
  <2>2. CASE ~(k <= i)
    <3>1. PICK l \in 1 .. j : k = i + l
      <4>1. k - i \in 1 .. j /\ k = i + (k - i)
        BY <2>2
      <4> QED BY <4>1
    <3>2. l \in 0 .. j /\ l - 1 \in 0 .. j /\ k - 1 = i + (l - 1)
      BY <3>1
    <3>3. h[k] = g[l] /\ h[k - 1] = g[l - 1] /\ c[k] = b[l]
      BY <1>6, <1>10, <3>1, <3>2, Zenon
    <3>4. g[l] = Done(b[l], g[l - 1][1], g[l - 1][2])
      BY <1>2, <1>4, <3>1, Zenon DEF IsRun
    <3> QED BY <3>3, <3>4, Zenon
  <2> QED BY <2>1, <2>2
<1>13. IsRun(h, c) /\ h[Len(c)] = z
  BY <1>6, <1>11, <1>12, Zenon DEF IsRun
<1> QED BY <1>5, <1>9, <1>13, Zenon DEF Leads

\* The first access, and the rest of them.
LEMMA LeadsTail ==
  ASSUME NEW S, NEW t \in Seq(S), t # <<>>, NEW e, NEW z, Leads(t, e, z)
  PROVE  Leads(Tail(t), Done(t[1], e[1], e[2]), z)
<1>1. PICK n \in Nat : n = Len(t)
  OBVIOUS
<1>2. PICK f : f[0] = e /\ f[n] = z /\ IsRun(f, t)
  BY <1>1, Zenon DEF Leads
<1>3. PICK u : u = Tail(t)
  BY Zenon
<1>4. n >= 1 /\ Len(u) = n - 1 /\ \A k \in 1 .. n - 1 : u[k] = t[k + 1]
  BY <1>1, <1>3, TailOf
<1>5. PICK g : g = [k \in 0 .. n - 1 |-> f[k + 1]]
  BY Zenon
<1>6. \A k \in 0 .. n - 1 : g[k] = f[k + 1]
  BY <1>5, Zenon
<1>7. g[0] = Done(t[1], e[1], e[2]) /\ g[n - 1] = z
  <2>1. 0 \in 0 .. n - 1 /\ n - 1 \in 0 .. n - 1 /\ 0 + 1 = 1 /\ (n - 1) + 1 = n /\ 1 \in 1 .. n /\ 1 - 1 = 0
    BY <1>4
  <2>2. g[0] = f[1] /\ g[n - 1] = f[n]
    BY <1>6, <2>1
  <2>3. f[1] = Done(t[1], f[1 - 1][1], f[1 - 1][2])
    BY <1>1, <1>2, <2>1, Zenon DEF IsRun
  <2> QED BY <1>2, <2>1, <2>2, <2>3
<1>8. ASSUME NEW k \in 1 .. n - 1 PROVE g[k] = Done(u[k], g[k - 1][1], g[k - 1][2])
  <2>1. k \in 0 .. n - 1 /\ k - 1 \in 0 .. n - 1 /\ (k - 1) + 1 = k /\ (k + 1) - 1 = k /\ k + 1 \in 1 .. n
    OBVIOUS
  <2>2. f[k + 1] = Done(t[k + 1], f[(k + 1) - 1][1], f[(k + 1) - 1][2])
    BY <1>1, <1>2, <2>1, Zenon DEF IsRun
  <2>3. g[k] = f[k + 1] /\ g[k - 1] = f[(k - 1) + 1] /\ u[k] = t[k + 1]
    BY <1>4, <1>6, <2>1, Zenon
  <2> QED BY <2>1, <2>2, <2>3
<1>9. IsRun(g, u)
  BY <1>4, <1>8, Zenon DEF IsRun
<1> QED BY <1>3, <1>4, <1>7, <1>9, Zenon DEF Leads

(***************************************************************************)
(* The paper.                                                              *)
(***************************************************************************)

\* Where a character takes the cursor, before the line wraps.
Special == {"\n", "\r", "\t"}
ColumnAfter(ch, x) ==
  CASE ch \in {"\n", "\r"} -> 0
    [] ch = "\t" -> x + TAB_WIDTH - (x % TAB_WIDTH)
    [] OTHER -> x + 1
RowAfter(ch, y) == IF ch = "\n" THEN y + 1 ELSE y
WrappedColumn(x) == IF x >= WIDTH THEN 0 ELSE x
WrappedRow(x, y) == IF x >= WIDTH THEN y + 1 ELSE y

LEMMA ColumnOf ==
  ASSUME NEW ch, NEW x \in 0 .. WIDTH - 1
  PROVE  /\ ColumnAfter(ch, x) \in 0 .. WIDTH
         /\ ch = "\t" => ColumnAfter(ch, x) = TAB_WIDTH * (x \div TAB_WIDTH + 1)
<1>0. WIDTH \in Nat \ {0} /\ TAB_WIDTH \in Nat \ {0} /\ WIDTH % TAB_WIDTH = 0
  BY ScreenAssumption
<1>1. x \in Nat /\ x < WIDTH
  BY <1>0
<1>2. x + TAB_WIDTH - (x % TAB_WIDTH) <= WIDTH
  BY <1>0, <1>1, NextTab, Zenon
<1>3. PICK q \in Nat : q = x \div TAB_WIDTH
  BY <1>0, <1>1
<1>4. PICK r \in 0 .. TAB_WIDTH - 1 : r = x % TAB_WIDTH
  BY <1>0, <1>1
<1>5. x = TAB_WIDTH * q + r
  BY <1>0, <1>1, <1>3, <1>4
<1>6. PICK m \in Nat : m = TAB_WIDTH * q
  BY <1>0
<1>7. TAB_WIDTH * (q + 1) = m + TAB_WIDTH
  BY <1>0, <1>6
<1>8. x + TAB_WIDTH - r = m + TAB_WIDTH /\ x + TAB_WIDTH - r \in Nat
  BY <1>0, <1>4, <1>5, <1>6
<1>9. CASE ch \in {"\n", "\r"}
  BY <1>0, <1>9 DEF ColumnAfter
<1>10. CASE ch = "\t"
  <2>1. ColumnAfter(ch, x) = x + TAB_WIDTH - (x % TAB_WIDTH)
    BY <1>10 DEF ColumnAfter
  <2> QED BY <1>0, <1>2, <1>3, <1>4, <1>7, <1>8, <2>1
<1>11. CASE ch \notin Special
  <2>1. ColumnAfter(ch, x) = x + 1
    BY <1>11 DEF ColumnAfter, Special
  <2> QED BY <1>0, <1>11, <2>1 DEF Special
<1> QED BY <1>9, <1>10, <1>11 DEF Special

IsPaper(p) ==
  /\ p = [cell |-> p.cell, row |-> p.row, col |-> p.col]
  /\ p.row \in Nat /\ p.col \in 0 .. WIDTH - 1
  /\ \A y, x \in Nat : y > p.row => On(p, y, x) = Blank

LEMMA NewPaperIs == IsPaper(NewPaper) /\ \A y, x \in Nat : On(NewPaper, y, x) = Blank
<1>0. WIDTH \in Nat \ {0}
  BY ScreenAssumption
<1>1. DOMAIN NewPaper.cell = {} /\ NewPaper.row = 0 /\ NewPaper.col = 0
  BY DEF NewPaper
<1>2. \A y, x \in Nat : On(NewPaper, y, x) = Blank
  BY <1>1 DEF On
<1>3. NewPaper = [cell |-> NewPaper.cell, row |-> NewPaper.row, col |-> NewPaper.col]
  BY DEF NewPaper
<1>4. 0 \in 0 .. WIDTH - 1
  BY <1>0
<1> QED BY <1>1, <1>2, <1>3, <1>4 DEF IsPaper

LEMMA InkIs ==
  ASSUME NEW p, IsPaper(p), NEW c
  PROVE  /\ IsPaper(Ink(p, c)) /\ Ink(p, c).row = p.row /\ Ink(p, c).col = p.col
         /\ \A y, x \in Nat : On(Ink(p, c), y, x) = IF y = p.row /\ x = p.col THEN c ELSE On(p, y, x)
<1>1. PICK h : h = <<p.row, p.col>>
  BY Zenon
<1>2. PICK f : f = [q \in DOMAIN p.cell \cup {h} |-> IF q = h THEN c ELSE p.cell[q]]
  BY Zenon
<1>3. PICK z : z = Ink(p, c)
  OBVIOUS
<1>4. z = [p EXCEPT !.cell = f]
  BY <1>1, <1>2, <1>3 DEF Ink
<1>5. z = [cell |-> f, row |-> p.row, col |-> p.col]
  BY <1>4 DEF IsPaper
<1>6. z.cell = f /\ z.row = p.row /\ z.col = p.col
  BY <1>5
<1>7. DOMAIN f = DOMAIN p.cell \cup {h} /\ \A q \in DOMAIN f : f[q] = IF q = h THEN c ELSE p.cell[q]
  BY <1>2, Zenon
<1>8. ASSUME NEW y \in Nat, NEW x \in Nat
      PROVE  On(z, y, x) = IF y = p.row /\ x = p.col THEN c ELSE On(p, y, x)
  <2>1. <<y, x>> = h <=> y = p.row /\ x = p.col
    BY <1>1
  <2>2. On(z, y, x) = IF <<y, x>> \in DOMAIN f THEN f[<<y, x>>] ELSE Blank
    BY <1>6, Zenon DEF On
  <2>3. CASE <<y, x>> = h
    <3>1. f[<<y, x>>] = c /\ <<y, x>> \in DOMAIN f
      BY <1>7, <2>3, Zenon
    <3> QED BY <2>1, <2>2, <2>3, <3>1, Zenon
  <2>4. CASE <<y, x>> # h
    <3>1. <<y, x>> \in DOMAIN f <=> <<y, x>> \in DOMAIN p.cell
      BY <1>7, <2>4, Zenon
    <3>2. <<y, x>> \in DOMAIN f => f[<<y, x>>] = p.cell[<<y, x>>]
      BY <1>7, <2>4, Zenon
    <3>3. On(p, y, x) = On(z, y, x)
      BY <2>2, <3>1, <3>2, Zenon DEF On
    <3> QED BY <2>1, <2>4, <3>3, Zenon
  <2> QED BY <2>3, <2>4
<1>9. ASSUME NEW y \in Nat, NEW x \in Nat, y > z.row PROVE On(z, y, x) = Blank
  <2>1. y # p.row /\ y > p.row
    BY <1>6, <1>9 DEF IsPaper
  <2>2. On(p, y, x) = Blank
    BY <2>1 DEF IsPaper
  <2> QED BY <1>8, <2>1, <2>2, Zenon
<1>10. z = [cell |-> z.cell, row |-> z.row, col |-> z.col] /\ z.row \in Nat /\ z.col \in 0 .. WIDTH - 1
  BY <1>5, <1>6 DEF IsPaper
<1>11. IsPaper(z)
  BY <1>9, <1>10 DEF IsPaper
<1> QED BY <1>3, <1>6, <1>8, <1>11, Zenon

LEMMA MoveToIs ==
  ASSUME NEW p, IsPaper(p), NEW y \in Nat, NEW x \in 0 .. WIDTH, y >= p.row
  PROVE  /\ IsPaper(MoveTo(p, y, x))
         /\ MoveTo(p, y, x).row = WrappedRow(x, y) /\ MoveTo(p, y, x).col = WrappedColumn(x)
         /\ \A v, u \in Nat : On(MoveTo(p, y, x), v, u) = On(p, v, u)
<1>0. WIDTH \in Nat \ {0}
  BY ScreenAssumption
<1>1. PICK r : r = WrappedRow(x, y)
  OBVIOUS
<1>2. PICK c : c = WrappedColumn(x)
  OBVIOUS
<1>3. r \in Nat /\ r >= y /\ c \in 0 .. WIDTH - 1
  BY <1>0, <1>1, <1>2 DEF WrappedRow, WrappedColumn
<1>4. PICK z : z = MoveTo(p, y, x)
  OBVIOUS
<1>5. z = [p EXCEPT !.row = r, !.col = c]
  BY <1>1, <1>2, <1>4 DEF MoveTo, WrappedRow, WrappedColumn
<1>6. z = [cell |-> p.cell, row |-> r, col |-> c]
  BY <1>5, Zenon DEF IsPaper
<1>7. z.cell = p.cell /\ z.row = r /\ z.col = c
  BY <1>6
<1>8. \A v, u \in Nat : On(z, v, u) = On(p, v, u)
  BY <1>7, Zenon DEF On
<1>9. ASSUME NEW v \in Nat, NEW u \in Nat, v > z.row PROVE On(z, v, u) = Blank
  <2>1. v > p.row
    BY <1>3, <1>7, <1>9 DEF IsPaper
  <2>2. On(p, v, u) = Blank
    BY <2>1 DEF IsPaper
  <2> QED BY <1>8, <2>2, Zenon
<1>10. z = [cell |-> z.cell, row |-> z.row, col |-> z.col]
  BY <1>6, <1>7
<1>11. IsPaper(z)
  BY <1>3, <1>7, <1>9, <1>10 DEF IsPaper
<1> QED BY <1>1, <1>2, <1>4, <1>7, <1>8, <1>11, Zenon

\* z is the paper p after the character ch in the colour c.
Typed(p, ch, c, z) ==
  LET x == ColumnAfter(ch, p.col)
  IN  /\ IsPaper(z)
      /\ z.row = WrappedRow(x, RowAfter(ch, p.row)) /\ z.col = WrappedColumn(x)
      /\ \A v, u \in Nat :
           On(z, v, u) = IF ch \notin Special /\ v = p.row /\ u = p.col THEN <<ch, c>> ELSE On(p, v, u)

LEMMA TypeIs ==
  ASSUME NEW p, IsPaper(p), NEW e
  PROVE  Typed(p, e[1], get_level_color(e[2]), Type(p, e))
<1>1. PICK ch : ch = e[1]
  OBVIOUS
<1>2. PICK c : c = get_level_color(e[2])
  OBVIOUS
<1>3. PICK x : x = ColumnAfter(ch, p.col)
  OBVIOUS
<1>4. PICK y : y = RowAfter(ch, p.row)
  OBVIOUS
<1>5. p.row \in Nat /\ p.col \in 0 .. WIDTH - 1
  BY DEF IsPaper
<1>6. x \in 0 .. WIDTH /\ (ch = "\t" => x = TAB_WIDTH * (p.col \div TAB_WIDTH + 1))
  BY <1>3, <1>5, ColumnOf
<1>7. y \in Nat /\ y >= p.row
  BY <1>4, <1>5 DEF RowAfter
<1>8. CASE ch \in Special
  <2>1. Type(p, e) = MoveTo(p, y, x)
    <3>1. CASE ch = "\n"
      BY <1>1, <1>3, <1>4, <3>1 DEF Type, ColumnAfter, RowAfter
    <3>2. CASE ch = "\r"
      BY <1>1, <1>3, <1>4, <3>2 DEF Type, ColumnAfter, RowAfter
    <3>3. CASE ch = "\t"
      BY <1>1, <1>4, <1>6, <3>3 DEF Type, RowAfter
    <3> QED BY <1>8, <3>1, <3>2, <3>3 DEF Special
  <2>2. PICK z : z = MoveTo(p, y, x)
    OBVIOUS
  <2>3. /\ IsPaper(z) /\ z.row = WrappedRow(x, y) /\ z.col = WrappedColumn(x)
        /\ \A v, u \in Nat : On(z, v, u) = On(p, v, u)
    BY <1>6, <1>7, <2>2, MoveToIs
  <2>4. Typed(p, ch, c, z)
    BY <1>3, <1>4, <1>8, <2>3, Zenon DEF Typed
  <2> QED BY <1>1, <1>2, <2>1, <2>2, <2>4
<1>9. CASE ch \notin Special
  <2>1. PICK i : i = Ink(p, <<ch, c>>)
    OBVIOUS
  <2>2. /\ IsPaper(i) /\ i.row = p.row /\ i.col = p.col
        /\ \A v, u \in Nat : On(i, v, u) = IF v = p.row /\ u = p.col THEN <<ch, c>> ELSE On(p, v, u)
    BY <2>1, InkIs
  <2>3. x = p.col + 1 /\ y = p.row
    BY <1>3, <1>4, <1>9 DEF ColumnAfter, RowAfter, Special
  <2>4. Type(p, e) = MoveTo(i, y, x)
    BY <1>1, <1>2, <1>9, <2>1, <2>3 DEF Type, Special
  <2>5. PICK z : z = MoveTo(i, y, x)
    OBVIOUS
  <2>6. /\ IsPaper(z) /\ z.row = WrappedRow(x, y) /\ z.col = WrappedColumn(x)
        /\ \A v, u \in Nat : On(z, v, u) = On(i, v, u)
    <3>1. y >= i.row
      BY <1>7, <2>2
    <3> QED BY <1>6, <1>7, <2>2, <2>5, <3>1, MoveToIs
  <2>7. Typed(p, ch, c, z)
    <3>1. \A v, u \in Nat :
            On(z, v, u) = IF ch \notin Special /\ v = p.row /\ u = p.col THEN <<ch, c>> ELSE On(p, v, u)
      BY <1>9, <2>2, <2>6
    <3> QED BY <1>3, <1>4, <2>6, <3>1, Zenon DEF Typed
  <2> QED BY <1>1, <1>2, <2>4, <2>5, <2>7
<1> QED BY <1>8, <1>9

\* f[k] is the paper after k characters of the text.
IsTyping(f, text) ==
  f[0] = NewPaper /\ \A k \in 1 .. Len(text) : f[k] = Type(f[k - 1], text[k])

TypeStep(f, text) ==
  [k \in 0 .. Len(text) |-> IF k = 0 THEN NewPaper ELSE Type(f[k - 1], text[k])]
Pages(text) == CHOOSE f : f = TypeStep(f, text)

LEMMA PaperIsPage ==
  ASSUME NEW text
  PROVE  Paper(text) = Pages(text)[Len(text)]
BY Zenon DEF Paper, Pages, TypeStep

LEMMA PagesAre ==
  ASSUME NEW text, Len(text) \in Nat
  PROVE  IsTyping(Pages(text), text)
<1>1. PICK n \in Nat : n = Len(text)
  OBVIOUS
<1> DEFINE P(m) == \E f : f[0] = NewPaper /\ \A k \in 1 .. m : f[k] = Type(f[k - 1], text[k])
           T == {m \in 0 .. n : P(m)}
<1>2. 0 \in T
  <2>1. PICK f : f = [i \in {0} |-> NewPaper]
    BY Zenon
  <2>2. f[0] = NewPaper /\ \A k \in 1 .. 0 : FALSE
    BY <2>1
  <2>3. P(0)
    BY <2>2, Zenon
  <2>4. 0 \in 0 .. n
    OBVIOUS
  <2> QED BY <2>3, <2>4, Zenon
<1>3. ASSUME NEW m \in 0 .. n - 1, m \in T PROVE m + 1 \in T
  <2>1. PICK f : f[0] = NewPaper /\ \A k \in 1 .. m : f[k] = Type(f[k - 1], text[k])
    BY <1>3, Zenon
  <2>2. m \in Nat /\ m + 1 \in 0 .. n
    OBVIOUS
  <2>3. PICK h : h = [k \in 0 .. m + 1 |-> IF k = m + 1 THEN Type(f[m], text[m + 1]) ELSE f[k]]
    BY Zenon
  <2>4. \A k \in 0 .. m + 1 : h[k] = IF k = m + 1 THEN Type(f[m], text[m + 1]) ELSE f[k]
    BY <2>3, Zenon
  <2>5. h[0] = NewPaper
    <3>1. 0 \in 0 .. m + 1 /\ 0 # m + 1
      BY <2>2
    <3> QED BY <2>1, <2>4, <3>1, Zenon
  <2>6. ASSUME NEW k \in 1 .. m + 1 PROVE h[k] = Type(h[k - 1], text[k])
    <3>1. k \in 0 .. m + 1 /\ k - 1 \in 0 .. m + 1 /\ k - 1 # m + 1
      BY <2>2
    <3>2. h[k - 1] = f[k - 1]
      BY <2>4, <3>1, Zenon
    <3>3. CASE k = m + 1
      <4>1. k - 1 = m
        BY <2>2, <3>3
      <4> QED BY <2>4, <3>1, <3>2, <3>3, <4>1, Zenon
    <3>4. CASE k # m + 1
      <4>1. k \in 1 .. m
        BY <2>2, <3>4
      <4> QED BY <2>1, <2>4, <3>1, <3>2, <3>4, <4>1, Zenon
    <3> QED BY <3>3, <3>4
  <2>7. P(m + 1)
    BY <2>5, <2>6, Zenon
  <2> QED BY <2>2, <2>7, Zenon
<1>4. P(n)
  <2> HIDE DEF T
  <2>1. \A m \in 0 .. n : m \in T
    BY <1>2, <1>3, UpTo
  <2>2. n \in T
    BY <2>1
  <2> QED BY <2>2 DEF T
<1>5. PICK f : f[0] = NewPaper /\ \A k \in 1 .. n : f[k] = Type(f[k - 1], text[k])
  BY <1>4
<1>6. PICK g : g = [k \in 0 .. n |-> f[k]]
  BY Zenon
<1>7. \A k \in 0 .. n : g[k] = f[k]
  BY <1>6, Zenon
<1>8. ASSUME NEW k \in 0 .. n PROVE f[k] = IF k = 0 THEN NewPaper ELSE Type(g[k - 1], text[k])
  <2>1. CASE k = 0
    BY <1>5, <2>1
  <2>2. CASE k # 0
    <3>1. k \in 1 .. n /\ k - 1 \in 0 .. n
      BY <2>2
    <3> QED BY <1>5, <1>7, <2>2, <3>1, Zenon
  <2> QED BY <2>1, <2>2
<1>9. g = TypeStep(g, text)
  <2>1. TypeStep(g, text) = [k \in 0 .. n |-> IF k = 0 THEN NewPaper ELSE Type(g[k - 1], text[k])]
    BY <1>1, Zenon DEF TypeStep
  <2> QED BY <1>6, <1>8, <2>1, Zenon
<1>10. PICK z : z = Pages(text)
  OBVIOUS
<1>11. z = TypeStep(z, text)
  BY <1>9, <1>10, Zenon DEF Pages
<1>12. \A k \in 0 .. n : z[k] = IF k = 0 THEN NewPaper ELSE Type(z[k - 1], text[k])
  BY <1>1, <1>11, Zenon DEF TypeStep
<1>13. z[0] = NewPaper
  <2>1. 0 \in 0 .. n
    OBVIOUS
  <2> QED BY <1>12, <2>1, Zenon
<1>14. ASSUME NEW k \in 1 .. n PROVE z[k] = Type(z[k - 1], text[k])
  <2>1. k \in 0 .. n /\ k # 0
    OBVIOUS
  <2> QED BY <1>12, <2>1, Zenon
<1> QED BY <1>1, <1>10, <1>13, <1>14, Zenon DEF IsTyping

LEMMA PaperOf ==
  ASSUME NEW text, Len(text) \in Nat, NEW f, IsTyping(f, text)
  PROVE  Paper(text) = f[Len(text)]
<1>1. PICK n \in Nat : n = Len(text)
  OBVIOUS
<1>2. PICK g : g = Pages(text)
  OBVIOUS
<1>3. IsTyping(g, text)
  BY <1>2, PagesAre
<1> DEFINE T == {k \in 0 .. n : f[k] = g[k]}
<1>4. 0 \in T
  <2>1. 0 \in 0 .. n
    OBVIOUS
  <2> QED BY <1>3, <2>1, Zenon DEF IsTyping
<1>5. ASSUME NEW k \in 0 .. n - 1, k \in T PROVE k + 1 \in T
  <2>1. k + 1 \in 1 .. n /\ k + 1 \in 0 .. n /\ (k + 1) - 1 = k
    OBVIOUS
  <2>2. f[k + 1] = Type(f[(k + 1) - 1], text[k + 1])
    BY <1>1, <2>1, Zenon DEF IsTyping
  <2>3. g[k + 1] = Type(g[(k + 1) - 1], text[k + 1])
    BY <1>1, <1>3, <2>1, Zenon DEF IsTyping
  <2>4. f[k] = g[k]
    BY <1>5
  <2>5. f[k + 1] = g[k + 1]
    BY <2>1, <2>2, <2>3, <2>4, Zenon
  <2> QED BY <2>1, <2>5, Zenon
<1>6. n \in T
  <2> HIDE DEF T
  <2>1. \A k \in 0 .. n : k \in T
    BY <1>4, <1>5, UpTo
  <2> QED BY <2>1
<1>7. f[n] = g[n]
  BY <1>6
<1> QED BY <1>1, <1>2, <1>7, PaperIsPage, Zenon

LEMMA PaperEmpty == Paper(<<>>) = NewPaper
<1>1. Len(<<>>) = 0 /\ 0 \in Nat
  OBVIOUS
<1>2. IsTyping(Pages(<<>>), <<>>)
  BY <1>1, PagesAre
<1> QED BY <1>1, <1>2, PaperIsPage, Zenon DEF IsTyping

LEMMA PaperAppend ==
  ASSUME NEW S, NEW q \in Seq(S), NEW e \in S
  PROVE  Paper(Append(q, e)) = Type(Paper(q), e)
<1>1. PICK n \in Nat : n = Len(q)
  OBVIOUS
<1>2. PICK f : f = Pages(q)
  OBVIOUS
<1>3. f[0] = NewPaper /\ \A k \in 1 .. n : f[k] = Type(f[k - 1], q[k])
  BY <1>1, <1>2, PagesAre DEF IsTyping
<1>4. Paper(q) = f[n]
  BY <1>1, <1>2, PaperIsPage
<1>5. PICK t : t = Append(q, e)
  BY Zenon
<1>6. Len(t) = n + 1 /\ t[n + 1] = e /\ \A k \in 1 .. n : t[k] = q[k]
  BY <1>1, <1>5, Appended
<1>7. PICK h : h = [k \in 0 .. n + 1 |-> IF k = n + 1 THEN Type(f[n], e) ELSE f[k]]
  BY Zenon
<1>8. \A k \in 0 .. n + 1 : h[k] = IF k = n + 1 THEN Type(f[n], e) ELSE f[k]
  BY <1>7, Zenon
<1>9. h[0] = NewPaper
  <2>1. 0 \in 0 .. n + 1 /\ 0 # n + 1
    OBVIOUS
  <2> QED BY <1>3, <1>8, <2>1, Zenon
<1>10. ASSUME NEW k \in 1 .. n + 1 PROVE h[k] = Type(h[k - 1], t[k])
  <2>1. k \in 0 .. n + 1 /\ k - 1 \in 0 .. n + 1 /\ k - 1 # n + 1
    OBVIOUS
  <2>2. h[k - 1] = f[k - 1]
    BY <1>8, <2>1, Zenon
  <2>3. CASE k = n + 1
    <3>1. k - 1 = n
      BY <2>3
    <3> QED BY <1>6, <1>8, <2>1, <2>2, <2>3, <3>1, Zenon
  <2>4. CASE k # n + 1
    <3>1. k \in 1 .. n
      BY <2>4
    <3> QED BY <1>3, <1>6, <1>8, <2>1, <2>2, <2>4, <3>1, Zenon
  <2> QED BY <2>3, <2>4
<1>11. IsTyping(h, t)
  BY <1>6, <1>9, <1>10, Zenon DEF IsTyping
<1>12. Len(t) \in Nat /\ n + 1 \in 0 .. n + 1
  BY <1>6
<1>13. Paper(t) = h[n + 1]
  BY <1>6, <1>11, <1>12, PaperOf
<1>14. h[n + 1] = Type(f[n], e)
  BY <1>8, <1>12, Zenon
<1> QED BY <1>4, <1>5, <1>13, <1>14, Zenon
=============================================================================
