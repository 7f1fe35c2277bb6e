------------------------- MODULE ConsoleSerialProofs ------------------------
(***************************************************************************)
(* The proof that everything a message owes to the serial line is sent,    *)
(* for every size of printk's buffer, all texts and any number of messages *)
(* and ticks.                                                              *)
(***************************************************************************)
EXTENDS ConsoleProofs

\* s with each element dropped or as a sequence of its own.
Parts(s, drop) == [k \in DOMAIN s |-> IF s[k] \in drop THEN <<>> ELSE <<s[k]>>]

IsParts(p, s, D, S) ==
  /\ p \in Seq(Seq(S)) /\ Len(p) = Len(s)
  /\ \A k \in 1 .. Len(s) : p[k] = IF s[k] \in D THEN <<>> ELSE <<s[k]>>
  /\ Without(s, D) = Joined(p)

LEMMA PartsAre ==
  ASSUME NEW S, NEW s \in Seq(S), NEW D
  PROVE  IsParts(Parts(s, D), s, D, S)
<1>1. PICK n \in Nat : n = Len(s) /\ DOMAIN s = 1 .. n /\ \A k \in 1 .. n : s[k] \in S
  OBVIOUS
<1>2. PICK p : p = [k \in 1 .. n |-> IF s[k] \in D THEN <<>> ELSE <<s[k]>>]
  BY Zenon
<1>3. \A k \in 1 .. n : (IF s[k] \in D THEN <<>> ELSE <<s[k]>>) \in Seq(S)
  BY <1>1, Single
<1>4. p \in [1 .. n -> Seq(S)] /\ \A k \in 1 .. n : p[k] = IF s[k] \in D THEN <<>> ELSE <<s[k]>>
  BY <1>2, <1>3, Zenon
<1>5. p \in Seq(Seq(S)) /\ Len(p) = n
  BY <1>4
<1>6. p = Parts(s, D)
  BY <1>1, <1>2, Zenon DEF Parts
<1>7. Without(s, D) = Joined(Parts(s, D))
  BY Zenon DEF Without, Parts
<1> QED BY <1>1, <1>4, <1>5, <1>6, <1>7, Zenon DEF IsParts

\* Sequences with the same elements are equal.
LEMMA SameSeq ==
  ASSUME NEW S, NEW a \in Seq(S), NEW b \in Seq(S), Len(a) = Len(b),
         \A k \in 1 .. Len(a) : a[k] = b[k]
  PROVE  a = b
OBVIOUS

LEMMA WithoutTokens ==
  \A D : \A a, b \in Seq(Tokens) :
    /\ Without(a, D) \in Seq(Tokens) /\ Without(b, D) \in Seq(Tokens)
    /\ Without(a \o b, D) = Without(a, D) \o Without(b, D)
<1> SUFFICES ASSUME NEW D, NEW a \in Seq(Tokens), NEW b \in Seq(Tokens)
             PROVE  /\ Without(a, D) \in Seq(Tokens) /\ Without(b, D) \in Seq(Tokens)
                    /\ Without(a \o b, D) = Without(a, D) \o Without(b, D)
  OBVIOUS
<1>1. PICK c \in Seq(Tokens) : c = a \o b
  BY Concat, Zenon
<1>2. PICK m \in Nat : m = Len(a)
  OBVIOUS
<1>3. PICK n \in Nat : n = Len(b)
  OBVIOUS
<1>4. /\ Len(c) = m + n /\ \A i \in 1 .. m : c[i] = a[i]
      /\ \A i \in 1 .. n : c[m + i] = b[i]
  BY <1>1, <1>2, <1>3, Concat
<1>5. PICK p : IsParts(p, a, D, Tokens)
  BY PartsAre, Zenon
<1>6. PICK q : IsParts(q, b, D, Tokens)
  BY PartsAre, Zenon
<1>7. PICK r : IsParts(r, c, D, Tokens)
  BY PartsAre, Zenon
<1>8. /\ p \in Seq(Seq(Tokens)) /\ Len(p) = m /\ \A k \in 1 .. m : p[k] = IF a[k] \in D THEN <<>> ELSE <<a[k]>>
      /\ Without(a, D) = Joined(p)
  BY <1>2, <1>5, Zenon DEF IsParts
<1>9. /\ q \in Seq(Seq(Tokens)) /\ Len(q) = n /\ \A k \in 1 .. n : q[k] = IF b[k] \in D THEN <<>> ELSE <<b[k]>>
      /\ Without(b, D) = Joined(q)
  BY <1>3, <1>6, Zenon DEF IsParts
<1>10. /\ r \in Seq(Seq(Tokens)) /\ Len(r) = m + n
       /\ \A k \in 1 .. m + n : r[k] = IF c[k] \in D THEN <<>> ELSE <<c[k]>>
       /\ Without(c, D) = Joined(r)
  BY <1>4, <1>7, Zenon DEF IsParts
<1>11. PICK z : z = p \o q
  BY Zenon
<1>12. /\ z \in Seq(Seq(Tokens)) /\ Len(z) = m + n /\ \A i \in 1 .. m : z[i] = p[i]
       /\ \A i \in 1 .. n : z[m + i] = q[i]
  <2>1. /\ z \in Seq(Seq(Tokens)) /\ Len(z) = Len(p) + Len(q) /\ \A i \in 1 .. Len(p) : z[i] = p[i]
        /\ \A i \in 1 .. Len(q) : z[Len(p) + i] = q[i]
    <3>1. p \in Seq(Seq(Tokens)) /\ q \in Seq(Seq(Tokens))
      BY <1>8, <1>9
    <3> QED BY <1>11, <3>1, Concat
  <2> QED BY <1>8, <1>9, <2>1
<1>13. ASSUME NEW k \in 1 .. m + n PROVE r[k] = z[k]
  <2>1. CASE k \in 1 .. m
    <3>1. r[k] = (IF c[k] \in D THEN <<>> ELSE <<c[k]>>) /\ c[k] = a[k] /\ z[k] = p[k]
      BY <1>4, <1>10, <1>12, <2>1, Zenon
    <3>2. p[k] = IF a[k] \in D THEN <<>> ELSE <<a[k]>>
      BY <1>8, <2>1, Zenon
    <3> QED BY <3>1, <3>2, Zenon
  <2>2. CASE k \notin 1 .. m
    <3>1. PICK i \in 1 .. n : k = m + i
      <4>1. k - m \in 1 .. n /\ k = m + (k - m)
        BY <2>2
      <4> QED BY <4>1
    <3>2. r[k] = IF c[m + i] \in D THEN <<>> ELSE <<c[m + i]>>
      BY <1>10, <3>1, Zenon
    <3>3. c[m + i] = b[i] /\ z[m + i] = q[i]
      BY <1>4, <1>12, Zenon
    <3>4. q[i] = IF b[i] \in D THEN <<>> ELSE <<b[i]>>
      BY <1>9, Zenon
    <3> QED BY <3>1, <3>2, <3>3, <3>4, Zenon
  <2> QED BY <2>1, <2>2
<1>14. r = z
  BY <1>10, <1>12, <1>13, SameSeq
<1>15. Joined(p) \in Seq(Tokens) /\ Joined(z) = Joined(p) \o Joined(q)
  BY <1>8, <1>9, <1>11, JoinedConcat
<1>16. Joined(q) \in Seq(Tokens)
  BY <1>9, JoinedConcat
<1> QED BY <1>1, <1>8, <1>9, <1>10, <1>14, <1>15, <1>16

\* What is all dropped leaves nothing.

LEMMA WithoutAll ==
  ASSUME NEW S, NEW s \in Seq(S), NEW D, \A k \in 1 .. Len(s) : s[k] \in D
  PROVE  Without(s, D) = <<>>
<1>1. PICK p : IsParts(p, s, D, S)
  BY PartsAre
<1>2. PICK n \in Nat : n = Len(s)
  OBVIOUS
<1>3. p \in Seq(Seq(S)) /\ Len(p) = n /\ (\A k \in 1 .. n : p[k] = <<>>) /\ Without(s, D) = Joined(p)
  BY <1>1, <1>2, Zenon DEF IsParts
<1>4. p \in Seq({<<>>})
  <2>1. p \in [1 .. n -> {<<>>}]
    BY <1>3
  <2> QED BY <2>1
<1>5. <<>> \in Seq(S) /\ <<>> \o <<>> = <<>>
  BY ConcatEmpty
<1>6. {<<>>} \in SUBSET Seq(S) /\ <<>> \in {<<>>} /\ \A a, b \in {<<>>} : a \o b \in {<<>>}
  BY <1>5
<1>7. Joined(p) \in {<<>>}
  BY <1>4, <1>6, JoinedIn, Zenon
<1> QED BY <1>3, <1>7

LEMMA WithoutFew ==
  ASSUME NEW S, NEW D
  PROVE  /\ Without(<<>>, D) = <<>>
         /\ \A c \in S : Without(<<c>>, D) = IF c \in D THEN <<>> ELSE <<c>>
<1>0. <<>> \in Seq(S)
  OBVIOUS
<1>1. Without(<<>>, D) = <<>>
  <2>1. \A k \in 1 .. Len(<<>>) : <<>>[k] \in D
    OBVIOUS
  <2> QED BY <1>0, <2>1, WithoutAll, Zenon
<1>2. ASSUME NEW c \in S PROVE Without(<<c>>, D) = IF c \in D THEN <<>> ELSE <<c>>
  <2>1. PICK s : s = <<c>>
    BY Zenon
  <2>2. s \in Seq(S) /\ Len(s) = 1 /\ s[1] = c
    BY <2>1, Single
  <2>3. PICK p : IsParts(p, s, D, S)
    BY <2>2, PartsAre
  <2>4. PICK y : y = IF c \in D THEN <<>> ELSE <<c>>
    BY Zenon
  <2>40. y \in Seq(S)
    BY <1>0, <2>4, Single
  <2>5. 1 \in 1 .. 1
    OBVIOUS
  <2>6. p \in Seq(Seq(S)) /\ Len(p) = 1 /\ p[1] = y /\ Without(s, D) = Joined(p)
    BY <2>2, <2>3, <2>4, <2>5, Zenon DEF IsParts
  <2>7. PICK o : o = <<y>>
    BY Zenon
  <2>8. o \in Seq(Seq(S)) /\ Len(o) = 1 /\ o[1] = y
    BY <2>7, <2>40, Single
  <2>9. p = o
    BY <2>6, <2>8
  <2>10. Joined(p) = y
    BY <2>40, <2>7, <2>9, JoinedFew
  <2> QED BY <2>1, <2>4, <2>6, <2>10, Zenon
<1> QED BY <1>1, <1>2

\* What the serial line hears of an access; a newline stands for nothing.
Heard(a) == IF a.op = "serial" THEN a.arg ELSE "\n"
HeardOf(t) == [k \in DOMAIN t |-> Heard(t[k])]
\* What it hears of the accesses t, but for the tokens of D.
Letters(t, D) == Without(HeardOf(t), D)

LEMMA HeardSeq ==
  ASSUME NEW t \in Seq(Accesses)
  PROVE  /\ HeardOf(t) \in Seq(Tokens) /\ Len(HeardOf(t)) = Len(t)
         /\ \A k \in 1 .. Len(t) : HeardOf(t)[k] = Heard(t[k])
<1>1. PICK n \in Nat : n = Len(t) /\ DOMAIN t = 1 .. n /\ \A k \in 1 .. n : t[k] \in Accesses
  BY Elements
<1>2. \A a \in Accesses : Heard(a) \in Tokens
  <2>1. \A a \in Accesses : a.op = "serial" => a.arg \in Tokens
    BY DEF Accesses
  <2> QED BY <2>1, TokensHold, Zenon DEF Heard
<1>3. PICK h : h = [k \in 1 .. n |-> Heard(t[k])]
  BY Zenon
<1>4. h \in [1 .. n -> Tokens] /\ \A k \in 1 .. n : h[k] = Heard(t[k])
  BY <1>1, <1>2, <1>3, Zenon
<1>5. h \in Seq(Tokens) /\ Len(h) = n
  BY <1>4
<1>6. h = HeardOf(t)
  BY <1>1, <1>3, Zenon DEF HeardOf
<1> QED BY <1>1, <1>4, <1>5, <1>6, Zenon

LEMMA HeardConcat ==
  ASSUME NEW a \in Seq(Accesses), NEW b \in Seq(Accesses)
  PROVE  HeardOf(a \o b) = HeardOf(a) \o HeardOf(b)
<1>1. PICK c \in Seq(Accesses) : c = a \o b
  BY Concat, Zenon
<1>2. PICK m \in Nat : m = Len(a)
  OBVIOUS
<1>3. PICK n \in Nat : n = Len(b)
  OBVIOUS
<1>4. /\ Len(c) = m + n /\ \A i \in 1 .. m : c[i] = a[i]
      /\ \A i \in 1 .. n : c[m + i] = b[i]
  BY <1>1, <1>2, <1>3, Concat
<1>5. PICK p \in Seq(Tokens) : p = HeardOf(a) /\ Len(p) = m /\ \A k \in 1 .. m : p[k] = Heard(a[k])
  BY <1>2, HeardSeq, Zenon
<1>6. PICK q \in Seq(Tokens) : q = HeardOf(b) /\ Len(q) = n /\ \A k \in 1 .. n : q[k] = Heard(b[k])
  BY <1>3, HeardSeq, Zenon
<1>7. PICK r \in Seq(Tokens) :
        r = HeardOf(c) /\ Len(r) = m + n /\ \A k \in 1 .. m + n : r[k] = Heard(c[k])
  BY <1>4, HeardSeq, Zenon
<1>8. PICK z \in Seq(Tokens) : z = p \o q
  BY Concat, Zenon
<1>9. /\ Len(z) = m + n /\ \A i \in 1 .. m : z[i] = p[i]
      /\ \A i \in 1 .. n : z[m + i] = q[i]
  <2>1. /\ Len(z) = Len(p) + Len(q) /\ \A i \in 1 .. Len(p) : z[i] = p[i]
        /\ \A i \in 1 .. Len(q) : z[Len(p) + i] = q[i]
    BY <1>8, Concat
  <2> QED BY <1>5, <1>6, <2>1, Zenon
<1>10. ASSUME NEW k \in 1 .. m + n PROVE r[k] = z[k]
  <2>1. CASE k \in 1 .. m
    <3>1. r[k] = Heard(c[k]) /\ c[k] = a[k] /\ z[k] = p[k]
      BY <1>4, <1>7, <1>9, <2>1, Zenon
    <3>2. p[k] = Heard(a[k])
      BY <1>5, <2>1, Zenon
    <3> QED BY <3>1, <3>2, Zenon
  <2>2. CASE k \notin 1 .. m
    <3>1. PICK i \in 1 .. n : k = m + i
      <4>1. k - m \in 1 .. n /\ k = m + (k - m)
        BY <2>2
      <4> QED BY <4>1
    <3>2. r[k] = Heard(c[m + i])
      BY <1>7, <3>1, Zenon
    <3>3. c[m + i] = b[i] /\ z[m + i] = q[i]
      BY <1>4, <1>9, Zenon
    <3>4. q[i] = Heard(b[i])
      BY <1>6, Zenon
    <3> QED BY <3>1, <3>2, <3>3, <3>4, Zenon
  <2> QED BY <2>1, <2>2
<1>11. r = z
  BY <1>7, <1>9, <1>10, SameSeq
<1> QED BY <1>1, <1>5, <1>6, <1>7, <1>8, <1>11

LEMMA LettersConcat ==
  ASSUME NEW a \in Seq(Accesses), NEW b \in Seq(Accesses), NEW D
  PROVE  Letters(a, D) \in Seq(Tokens) /\ Letters(a \o b, D) = Letters(a, D) \o Letters(b, D)
<1>1. HeardOf(a) \in Seq(Tokens) /\ HeardOf(b) \in Seq(Tokens)
  BY HeardSeq
<1>3. /\ Without(HeardOf(a), D) \in Seq(Tokens)
      /\ Without(HeardOf(a) \o HeardOf(b), D) = Without(HeardOf(a), D) \o Without(HeardOf(b), D)
  BY <1>1, WithoutTokens, Zenon
<1> QED BY <1>3, HeardConcat, Zenon DEF Letters

\* Accesses without one to the serial line.
Silent == {t \in Seq(Accesses) : \A k \in 1 .. Len(t) : t[k].op # "serial"}

LEMMA SilentJoin ==
  /\ Silent \in SUBSET Seq(Accesses) /\ <<>> \in Silent
  /\ \A a, b \in Silent : a \o b \in Silent
  /\ \A ss \in Seq(Silent) : Joined(ss) \in Silent
<1>1. Silent \in SUBSET Seq(Accesses)
  BY DEF Silent
<1>2. <<>> \in Silent
  BY DEF Silent
<1>3. ASSUME NEW a \in Silent, NEW b \in Silent PROVE a \o b \in Silent
  <2>1. a \in Seq(Accesses) /\ b \in Seq(Accesses)
    BY DEF Silent
  <2>2. PICK c \in Seq(Accesses) : c = a \o b
    BY <2>1, Concat, Zenon
  <2>3. /\ Len(c) = Len(a) + Len(b) /\ \A i \in 1 .. Len(a) : c[i] = a[i]
        /\ \A i \in 1 .. Len(b) : c[Len(a) + i] = b[i]
    BY <2>1, <2>2, Concat
  <2>4. ASSUME NEW k \in 1 .. Len(c) PROVE c[k].op # "serial"
    <3>1. Len(a) \in Nat /\ Len(b) \in Nat
      BY <2>1
    <3>2. CASE k \in 1 .. Len(a)
      BY <2>3, <3>2, Zenon DEF Silent
    <3>3. CASE k \notin 1 .. Len(a)
      <4>1. PICK i \in 1 .. Len(b) : k = Len(a) + i
        <5>1. k - Len(a) \in 1 .. Len(b) /\ k = Len(a) + (k - Len(a))
          BY <2>3, <3>1, <3>3
        <5> QED BY <5>1
      <4> QED BY <2>3, <4>1, Zenon DEF Silent
    <3> QED BY <3>2, <3>3
  <2> QED BY <2>2, <2>4, Zenon DEF Silent
<1>4. ASSUME NEW ss \in Seq(Silent) PROVE Joined(ss) \in Silent
  BY <1>1, <1>2, <1>3, JoinedIn
<1> QED BY <1>1, <1>2, <1>3, <1>4

LEMMA SilentLetters ==
  ASSUME NEW t \in Silent, NEW D, "\n" \in D
  PROVE  Letters(t, D) = <<>>
<1>1. t \in Seq(Accesses) /\ \A k \in 1 .. Len(t) : Heard(t[k]) = "\n"
  BY Zenon DEF Silent, Heard
<1>2. HeardOf(t) \in Seq(Tokens) /\ \A k \in 1 .. Len(HeardOf(t)) : HeardOf(t)[k] \in D
  BY <1>1, HeardSeq, Zenon
<1> QED BY <1>2, WithoutAll DEF Letters

LEMMA VgaSilent ==
  ASSUME NEW level \in Nat, NEW str \in Seq(Tokens)
  PROVE  early_vga_log_write(level, str) \in Silent
<1>1. ASSUME NEW ch \in Tokens PROVE early_vga_putc(ch) \in Silent
  <2>1. PICK t : t = early_vga_putc(ch)
    OBVIOUS
  <2>2. t \in Seq(Accesses)
    BY <2>1, PutcWhole DEF Wholes
  <2>3. /\ Len(t) = 6 /\ t[1].op = "switch" /\ t[2].op = "cell" /\ t[3].op = "column"
        /\ t[4].op = "row" /\ t[5].op = "scroll" /\ t[6].op = "cursor"
    BY <2>1 DEF early_vga_putc, Access
  <2>4. \A i \in 1 .. 6 : i = 1 \/ i = 2 \/ i = 3 \/ i = 4 \/ i = 5 \/ i = 6
    OBVIOUS
  <2> QED BY <2>1, <2>2, <2>3, <2>4, Zenon DEF Silent
<1>2. ASSUME NEW c \in Nat PROVE <<Access("color", c)>> \in Silent
  <2>1. PICK t : t = <<Access("color", c)>>
    BY Zenon
  <2>2. t \in Seq(Accesses)
    BY <2>1, ColorWhole DEF Wholes
  <2>3. Len(t) = 1 /\ t[1].op = "color" /\ \A i \in 1 .. 1 : i = 1
    BY <2>1 DEF Access
  <2> QED BY <2>1, <2>2, <2>3 DEF Silent
<1>3. PICK ss : ss = [k \in DOMAIN str |-> early_vga_putc(str[k])]
  BY Zenon
<1>4. \A k \in 1 .. Len(str) : early_vga_putc(str[k]) \in Silent
  <2>1. \A k \in 1 .. Len(str) : str[k] \in Tokens
    BY Elements
  <2> QED BY <1>1, <2>1, Zenon
<1>5. ss \in Seq(Silent)
  BY <1>3, <1>4
<1>6. Joined(ss) \in Silent
  BY <1>5, SilentJoin
<1>7. /\ <<Access("color", get_level_color(level))>> \in Silent
      /\ <<Access("color", DEFAULT_COLOR)>> \in Silent
  BY <1>2, LevelColor DEF DEFAULT_COLOR
<1>8. <<Access("color", get_level_color(level))>> \o Joined(ss) \in Silent
  BY <1>6, <1>7, SilentJoin
<1>9. <<Access("color", get_level_color(level))>> \o Joined(ss) \o <<Access("color", DEFAULT_COLOR)>> \in Silent
  BY <1>7, <1>8, SilentJoin
<1> QED BY <1>3, <1>9 DEF early_vga_log_write

\* What is not text on the serial line.
Dropped(D) == Codes \cup {"ESC[", "\n"} \subseteq D

LEMMA UartLetters ==
  ASSUME NEW level \in Nat, NEW str \in Texts, uart_present, NEW D, Dropped(D)
  PROVE  Letters(WriteTo("UART", level, str), D) = Without(str, D)
<1>0. str \in Seq(Tokens)
  BY DEF Texts, IsText
<1>1. PICK t : t = early_uart_log_write(level, str)
  OBVIOUS
<1>2. WriteTo("UART", level, str) = [k \in DOMAIN t |-> Access("serial", t[k])]
  BY <1>1 DEF WriteTo
<1>3. CASE str = <<>>
  <2>1. t = <<>>
    BY <1>1, <1>3 DEF early_uart_log_write
  <2>2. WriteTo("UART", level, str) = <<>>
    BY <1>2, <2>1, EmptySerial
  <2>3. Letters(<<>>, D) = <<>>
    BY SilentJoin, SilentLetters, Zenon DEF Dropped
  <2>4. Without(<<>>, D) = <<>>
    BY WithoutFew
  <2> QED BY <1>3, <2>2, <2>3, <2>4
<1>4. CASE str # <<>>
  <2>1. t \in Seq(Tokens)
    BY <1>0, <1>1, <1>4, UartSent DEF IsSent
  <2>2. PICK s : s = WriteTo("UART", level, str) /\ IsSerial(s, t)
    BY <1>2, <2>1, SerialOf
  <2>3. HeardOf(s) = t
    <3>1. s \in Seq(Accesses) /\ Len(s) = Len(t) /\ \A k \in 1 .. Len(t) : Heard(s[k]) = t[k]
      BY <2>2, Zenon DEF IsSerial, Heard
    <3>2. /\ HeardOf(s) \in Seq(Tokens) /\ Len(HeardOf(s)) = Len(t)
          /\ \A k \in 1 .. Len(t) : HeardOf(s)[k] = t[k]
      BY <3>1, HeardSeq, Zenon
    <3> QED BY <2>1, <3>2, SameSeq
  <2>4. PICK last : last = str[Len(str)]
    OBVIOUS
  <2>5. PICK u : u = SubSeq(str, 1, Len(str) - 1)
    BY Zenon
  <2>6. /\ last \in Tokens /\ u \in Seq(Tokens) /\ Len(u) = Len(str) - 1
        /\ \A k \in 1 .. Len(str) - 1 : u[k] = str[k]
    BY <1>0, <1>4, <2>4, <2>5, Initial
  <2>7. PICK l : l = <<last>>
    BY Zenon
  <2>8. l \in Seq(Tokens) /\ Len(l) = 1 /\ l[1] = last
    BY <2>6, <2>7, Single
  <2>9. str = u \o l
    <3>1. PICK z : z = u \o l
      BY Zenon
    <3>2. /\ z \in Seq(Tokens) /\ Len(z) = Len(u) + Len(l) /\ \A i \in 1 .. Len(u) : z[i] = u[i]
          /\ \A i \in 1 .. Len(l) : z[Len(u) + i] = l[i]
      <4>1. u \in Seq(Tokens) /\ l \in Seq(Tokens)
        BY <2>6, <2>8
      <4> QED BY <3>1, <4>1, Concat
    <3>3. PICK n \in Nat : n = Len(str) /\ n >= 1
      BY <1>0, <1>4, Initial, Elements
    <3>4. (n - 1) + 1 = n /\ 1 \in 1 .. 1 /\ \A i \in 1 .. n : i = n \/ i \in 1 .. n - 1
      OBVIOUS
    <3>5. Len(z) = n /\ z[n] = last /\ \A i \in 1 .. n - 1 : z[i] = str[i]
      <4>1. Len(u) = n - 1 /\ Len(z) = (n - 1) + 1 /\ z[(n - 1) + 1] = l[1] /\ \A i \in 1 .. n - 1 : z[i] = u[i]
        BY <2>6, <2>8, <3>2, <3>3, <3>4, Zenon
      <4> QED BY <2>6, <2>8, <3>3, <3>4, <4>1, Zenon
    <3>6. \A i \in 1 .. n : z[i] = str[i]
      BY <2>4, <3>3, <3>4, <3>5, Zenon
    <3>7. z = str
      BY <1>0, <3>2, <3>3, <3>5, <3>6, SameSeq
    <3> QED BY <3>1, <3>7
  <2>10. PICK code \in Codes : code = get_level_ansi(level)
    BY CodesAre, Zenon
  <2>11. \A c \in Codes : Ansi(c) \in Seq(Tokens) /\ Without(Ansi(c), D) = <<>>
    <3> SUFFICES ASSUME NEW c \in Codes PROVE Ansi(c) \in Seq(Tokens) /\ Without(Ansi(c), D) = <<>>
      OBVIOUS
    <3>1. PICK esc \in Tokens : esc = "ESC["
      BY TokensHold
    <3>2. c \in Tokens
      BY TokensHold
    <3>3. PICK h \in Seq(Tokens) : h = <<esc, c>> /\ Len(h) = 2 /\ h[1] = esc /\ h[2] = c
      BY <3>2, Pair
    <3>4. \A k \in 1 .. 2 : k = 1 \/ k = 2
      OBVIOUS
    <3>5. \A k \in 1 .. Len(h) : h[k] \in D
      BY <3>1, <3>3, <3>4, Zenon DEF Dropped
    <3>6. Without(h, D) = <<>>
      BY <3>5, WithoutAll, Zenon
    <3> QED BY <3>1, <3>3, <3>6, Zenon DEF Ansi
  <2>12. PICK e : e = IF last = "\n" THEN Append(Ansi("0m"), "\n") ELSE l \o Ansi("0m")
    BY Zenon
  <2>13. e \in Seq(Tokens) /\ Without(e, D) = Without(l, D)
    <3>1. PICK z \in Seq(Tokens) : z = Ansi("0m") /\ Without(z, D) = <<>>
      BY <2>11, CodesAre, Zenon
    <3>2. Without(l, D) = IF last \in D THEN <<>> ELSE l
      BY <2>6, <2>7, WithoutFew, Zenon
    <3>3. CASE last = "\n"
      <4>1. e = z \o l
        <5>1. e = Append(z, last)
          BY <2>12, <3>1, <3>3
        <5> QED BY <2>6, <2>7, <5>1
      <4>2. e \in Seq(Tokens)
        BY <2>8, <4>1, Concat
      <4>3. Without(z \o l, D) = Without(z, D) \o Without(l, D) /\ Without(l, D) \in Seq(Tokens)
        BY <2>8, WithoutTokens, Zenon
      <4>4. <<>> \o Without(l, D) = Without(l, D)
        BY <4>3, ConcatEmpty
      <4> QED BY <3>1, <4>1, <4>2, <4>3, <4>4, Zenon
    <3>4. CASE last # "\n"
      <4>1. e = l \o z
        BY <2>12, <3>1, <3>4
      <4>2. e \in Seq(Tokens)
        BY <2>8, <4>1, Concat
      <4>3. Without(l \o z, D) = Without(l, D) \o Without(z, D) /\ Without(l, D) \in Seq(Tokens)
        BY <2>8, WithoutTokens, Zenon
      <4>4. Without(l, D) \o <<>> = Without(l, D)
        BY <4>3, ConcatEmpty
      <4> QED BY <3>1, <4>1, <4>2, <4>3, <4>4
    <3> QED BY <3>3, <3>4
  <2>14. PICK h \in Seq(Tokens) : h = Ansi(code) /\ Without(h, D) = <<>>
    BY <2>11, Zenon
  <2>15. t = (h \o u) \o e
    BY <1>1, <1>4, <2>4, <2>5, <2>7, <2>10, <2>12, <2>14, Zenon DEF early_uart_log_write
  <2>16. h \o u \in Seq(Tokens)
    BY <2>6, Concat
  <2>17. Without(t, D) = Without(h \o u, D) \o Without(e, D)
    BY <2>13, <2>15, <2>16, WithoutTokens, Zenon
  <2>18. Without(h \o u, D) = Without(h, D) \o Without(u, D) /\ Without(u, D) \in Seq(Tokens)
    BY <2>6, WithoutTokens, Zenon
  <2>19. <<>> \o Without(u, D) = Without(u, D)
    BY <2>18, ConcatEmpty
  <2>20. Without(str, D) = Without(u, D) \o Without(l, D)
    BY <2>6, <2>8, <2>9, WithoutTokens, Zenon
  <2>21. Without(t, D) = Without(str, D)
    BY <2>13, <2>14, <2>17, <2>18, <2>19, <2>20
  <2> QED BY <2>2, <2>3, <2>21 DEF Letters
<1> QED BY <1>3, <1>4

\* No more and no less than one of the sequences is not empty.
LEMMA JoinedOne ==
  ASSUME NEW S, NEW ss \in Seq(Seq(S)), NEW h \in 1 .. Len(ss),
         \A k \in 1 .. Len(ss) : k # h => ss[k] = <<>>
  PROVE  Joined(ss) = ss[h]
<1>1. PICK n \in Nat : n = Len(ss) /\ h \in 1 .. n
  OBVIOUS
<1>2. PICK y \in Seq(S) : y = ss[h]
  OBVIOUS
<1>3. PICK g : g = Join(ss) /\ IsJoin(g, ss, S) /\ Joined(ss) = g[n]
  BY <1>1, JoinSteps, JoinedIsJoin
<1>4. g[0] = <<>> /\ \A k \in 1 .. n : g[k] = g[k - 1] \o ss[k]
  BY <1>1, <1>3, Zenon DEF IsJoin
<1>5. PICK T : T = {k \in 0 .. n : g[k] = IF k < h THEN <<>> ELSE y}
  BY Zenon
<1>6. 0 \in T
  <2>1. 0 \in 0 .. n /\ 0 < h
    BY <1>1
  <2> QED BY <1>4, <1>5, <2>1, Zenon
<1>7. ASSUME NEW k \in 0 .. n - 1, k \in T PROVE k + 1 \in T
  <2>1. k + 1 \in 1 .. n /\ k + 1 \in 0 .. n /\ (k + 1) - 1 = k
    OBVIOUS
  <2>2. g[k + 1] = g[k] \o ss[k + 1] /\ g[k] = IF k < h THEN <<>> ELSE y
    BY <1>4, <1>5, <1>7, <2>1, Zenon
  <2>3. <<>> \o <<>> = <<>> /\ <<>> \o y = y /\ y \o <<>> = y
    BY ConcatEmpty
  <2>4. CASE k + 1 < h
    <3>1. k < h /\ k + 1 # h
      BY <1>1, <2>4
    <3>2. ss[k + 1] = <<>>
      BY <1>1, <2>1, <3>1, Zenon
    <3> QED BY <1>5, <2>1, <2>2, <2>3, <2>4, <3>1, <3>2, Zenon
  <2>5. CASE k + 1 = h
    <3>1. k < h /\ ~(k + 1 < h)
      BY <1>1, <2>5
    <3>2. ss[k + 1] = y
      BY <1>2, <2>5, Zenon
    <3> QED BY <1>5, <2>1, <2>2, <2>3, <3>1, <3>2, Zenon
  <2>6. CASE k + 1 > h
    <3>1. ~(k < h) /\ ~(k + 1 < h) /\ k + 1 # h
      BY <1>1, <2>6
    <3>2. ss[k + 1] = <<>>
      BY <1>1, <2>1, <3>1, Zenon
    <3> QED BY <1>5, <2>1, <2>2, <2>3, <3>1, <3>2, Zenon
  <2>7. k + 1 < h \/ k + 1 = h \/ k + 1 > h
    BY <1>1
  <2> QED BY <2>4, <2>5, <2>6, <2>7
<1>8. \A k \in 0 .. n : k \in T
  BY <1>6, <1>7, UpTo, Zenon
<1>9. n \in 0 .. n /\ ~(n < h)
  BY <1>1
<1> QED BY <1>2, <1>3, <1>5, <1>8, <1>9, Zenon

\* The chunks are the text.
LEMMA ChunksJoined ==
  ASSUME NEW text \in Seq(Tokens)
  PROVE  Joined(Chunks(text)) = text
<1>1. PICK f : f = Cut(text) /\ IsCut(f, text)
  BY CutSteps
<1>2. PICK n \in Nat : n = Len(text)
  OBVIOUS
<1>3. PICK T : T = {i \in 0 .. n : /\ Len(Joined(f[i].flushed) \o f[i].buffer) = i
                                   /\ \A k \in 1 .. i : (Joined(f[i].flushed) \o f[i].buffer)[k] = text[k]}
  BY Zenon
<1>4. 0 \in T
  <2>1. f[0].flushed = <<>> /\ f[0].buffer = <<>>
    BY <1>1 DEF IsCut, NewContext
  <2>2. Joined(<<>>) = <<>> /\ <<>> \o <<>> = <<>> /\ Len(<<>>) = 0 /\ 0 \in 0 .. n
    BY JoinedFew
  <2>3. \A k \in 1 .. 0 : FALSE
    OBVIOUS
  <2>4. Joined(f[0].flushed) \o f[0].buffer = <<>>
    BY <2>1, <2>2
  <2>5. Len(Joined(f[0].flushed) \o f[0].buffer) = 0
    BY <2>2, <2>4
  <2>6. \A k \in 1 .. 0 : (Joined(f[0].flushed) \o f[0].buffer)[k] = text[k]
    BY <2>3, Zenon
  <2>7. PICK o : o = 0
    OBVIOUS
  <2>8. /\ o \in 0 .. n /\ Len(Joined(f[o].flushed) \o f[o].buffer) = o
        /\ \A k \in 1 .. o : (Joined(f[o].flushed) \o f[o].buffer)[k] = text[k]
    BY <2>2, <2>5, <2>6, <2>7, Zenon
  <2>9. o \in T
    BY <1>3, <2>8, Zenon
  <2> QED BY <2>7, <2>9, Zenon
<1>5. ASSUME NEW i \in 0 .. n - 1, i \in T PROVE i + 1 \in T
  <2>1. i + 1 \in 1 .. n /\ i + 1 \in 0 .. n /\ (i + 1) - 1 = i /\ i \in 0 .. n
    OBVIOUS
  <2>2. PICK x, c : x = f[i] /\ c = text[i + 1]
    OBVIOUS
  <2>3. x \in Contexts /\ f[i + 1] = _putc(x, c)
    BY <1>1, <1>2, <2>1, <2>2 DEF IsCut
  <2>4. c \in Tokens
    BY <1>2, <2>1, <2>2, Elements
  <2>5. x.flushed \in Seq(Seq(Tokens)) /\ x.buffer \in Seq(Tokens)
    BY <2>3 DEF Contexts
  <2>6. PICK j : j = Joined(x.flushed)
    OBVIOUS
  <2>60. j \in Seq(Tokens)
    BY <2>5, <2>6, JoinedConcat
  <2>7. PICK z : z = j \o x.buffer
    BY Zenon
  <2>70. z \in Seq(Tokens)
    BY <2>5, <2>60, <2>7, Concat
  <2>8. Len(z) = i /\ \A k \in 1 .. i : z[k] = text[k]
    BY <1>3, <1>5, <2>2, <2>6, <2>7, Zenon
  <2>9. PICK y : y = _putc(x, c)
    OBVIOUS
  <2>10. Joined(y.flushed) \o y.buffer = Append(z, c)
    <3>1. CASE Len(x.buffer) >= PRINTK_BUFFER_SIZE
      <4>1. y.flushed = Append(x.flushed, x.buffer) /\ y.buffer = <<c>>
        BY <2>9, <3>1 DEF _putc
      <4>2. Joined(y.flushed) = z
        BY <2>5, <2>6, <2>7, <4>1, JoinedFew, Zenon
      <4>3. z \o <<c>> = Append(z, c)
        BY <2>4, <2>70
      <4> QED BY <4>1, <4>2, <4>3
    <3>2. CASE ~(Len(x.buffer) >= PRINTK_BUFFER_SIZE)
      <4>1. y.flushed = x.flushed /\ y.buffer = Append(x.buffer, c)
        BY <2>3, <2>9, <3>2 DEF _putc, Contexts
      <4>2. PICK l : l = <<c>>
        BY Zenon
      <4>3. l \in Seq(Tokens)
        BY <2>4, <4>2, Single
      <4>4. Append(x.buffer, c) = x.buffer \o l /\ Append(z, c) = z \o l
        <5>1. \A a \in Seq(Tokens) : Append(a, c) = a \o <<c>>
          BY <2>4
        <5> QED BY <2>5, <2>70, <4>2, <5>1, Zenon
      <4>5. (j \o x.buffer) \o l = j \o (x.buffer \o l)
        <5>1. \A b \in Seq(Tokens) : (j \o b) \o l = j \o (b \o l)
          BY <2>60, <4>3, Associative
        <5> QED BY <2>5, <5>1, Zenon
      <4> QED BY <2>6, <2>7, <4>1, <4>4, <4>5
    <3> QED BY <3>1, <3>2, Zenon
  <2>11. /\ Len(Append(z, c)) = i + 1
         /\ \A k \in 1 .. i + 1 : Append(z, c)[k] = text[k]
    <3>1. PICK w : w = Append(z, c)
      BY Zenon
    <3>2. Len(w) = i + 1 /\ w[i + 1] = c /\ \A k \in 1 .. i : w[k] = z[k]
      BY <2>4, <2>70, <2>8, <3>1, Appended
    <3>3. \A k \in 1 .. i + 1 : k = i + 1 \/ k \in 1 .. i
      OBVIOUS
    <3> QED BY <2>2, <2>8, <3>1, <3>2, <3>3, Zenon
  <2> QED BY <1>3, <2>1, <2>3, <2>9, <2>10, <2>11, Zenon
<1>6. n \in T
  <2>1. \A i \in 0 .. n : i \in T
    BY <1>4, <1>5, UpTo
  <2> QED BY <2>1
<1>7. PICK e : e = f[n]
  OBVIOUS
<1>8. e \in Contexts
  BY <1>1, <1>2, <1>7 DEF IsCut
<1>9. e.flushed \in Seq(Seq(Tokens)) /\ e.buffer \in Seq(Tokens)
  BY <1>8 DEF Contexts
<1>10. PICK j : j = Joined(e.flushed) /\ j \in Seq(Tokens)
  BY <1>9, JoinedConcat
<1>11. j \o e.buffer = text
  <2>1. PICK z : z = j \o e.buffer
    BY Zenon
  <2>2. z \in Seq(Tokens)
    BY <1>9, <1>10, <2>1, Concat
  <2>3. Len(z) = n /\ \A k \in 1 .. n : z[k] = text[k]
    BY <1>3, <1>6, <1>7, <1>10, <2>1, Zenon
  <2> QED BY <1>2, <2>1, <2>2, <2>3, SameSeq
<1>12. Chunks(text) = IF e.buffer = <<>> THEN e.flushed ELSE Append(e.flushed, e.buffer)
  BY <1>1, <1>2, <1>7, ChunksIsCut, Zenon
<1>13. CASE e.buffer = <<>>
  BY <1>10, <1>11, <1>12, <1>13, ConcatEmpty
<1>14. CASE e.buffer # <<>>
  <2>1. Joined(Append(e.flushed, e.buffer)) = j \o e.buffer
    BY <1>9, <1>10, JoinedFew, Zenon
  <2> QED BY <1>11, <1>12, <1>14, <2>1
<1> QED BY <1>13, <1>14

\* No sink is registered twice.
UniqueSinks == \A i, j \in Slots : sinks[i] = sinks[j] /\ sinks[i] # "" => i = j

Listening == \E i \in Slots : sinks[i] = "UART"

LEMMA WriteSilent ==
  ASSUME NEW level \in Nat, NEW str \in Texts, NEW sink \in Sinks \cup {""},
         ~uart_present \/ sink # "UART"
  PROVE  WriteTo(sink, level, str) \in Silent
<1>0. str \in Seq(Tokens)
  BY Zenon DEF Texts, IsText
<1>1. CASE sink = ""
  BY <1>1, SilentJoin, Zenon DEF WriteTo
<1>2. CASE sink = "VGA"
  BY <1>0, <1>2, VgaSilent DEF WriteTo
<1>3. CASE sink = "UART" /\ ~uart_present
  <2>1. PICK t : t = early_uart_log_write(level, str)
    BY Zenon
  <2>2. WriteTo(sink, level, str) = [k \in DOMAIN t |-> Access("serial", t[k])]
    BY <1>3, <2>1 DEF WriteTo
  <2>3. t = <<>>
    BY <1>3, <2>1 DEF early_uart_log_write
  <2> QED BY <2>2, <2>3, EmptySerial, SilentJoin, Zenon
<1> QED BY <1>1, <1>2, <1>3, Zenon DEF Sinks

\* What _flush passes to the sinks.
IsFlush(ss, level, str) ==
  /\ ss \in Seq(Seq(Accesses)) /\ Len(ss) = MAX_SINKS
  /\ \A i \in 1 .. MAX_SINKS : ss[i] = WriteTo(sinks[i - 1], level, str)
  /\ _flush(level, str) = Joined(ss)

LEMMA FlushSteps ==
  ASSUME NEW level \in Nat, NEW str \in Texts, SinksTyped
  PROVE  \E ss : IsFlush(ss, level, str)
<1>1. PICK ss : ss = [i \in 1 .. MAX_SINKS |-> WriteTo(sinks[i - 1], level, str)]
  BY Zenon
<1>2. MAX_SINKS \in Nat
  BY ScreenAssumption
<1>3. \A i \in 1 .. MAX_SINKS : sinks[i - 1] \in Sinks \cup {""}
  <2>1. \A i \in 1 .. MAX_SINKS : i - 1 \in Slots
    BY <1>2 DEF Slots
  <2> QED BY <2>1, Zenon DEF SinksTyped
<1>4. \A i \in 1 .. MAX_SINKS : WriteTo(sinks[i - 1], level, str) \in Seq(Accesses)
  BY <1>3, WriteWhole, Zenon DEF Wholes
<1>5. ss \in [1 .. MAX_SINKS -> Seq(Accesses)] /\ \A i \in 1 .. MAX_SINKS : ss[i] = WriteTo(sinks[i - 1], level, str)
  BY <1>1, <1>4, Zenon
<1>6. ss \in Seq(Seq(Accesses)) /\ Len(ss) = MAX_SINKS
  BY <1>2, <1>5
<1>7. _flush(level, str) = Joined(ss)
  BY <1>1, Zenon DEF _flush
<1> QED BY <1>5, <1>6, <1>7, Zenon DEF IsFlush

LEMMA FlushSilent ==
  ASSUME NEW level \in Nat, NEW str \in Texts, SinksTyped, ~uart_present \/ ~Listening
  PROVE  _flush(level, str) \in Silent
<1>1. PICK ss : IsFlush(ss, level, str)
  BY FlushSteps
<1>2. PICK n \in Nat : n = MAX_SINKS
  BY ScreenAssumption
<1>3. ASSUME NEW i \in 1 .. n PROVE ss[i] \in Silent
  <2>1. i - 1 \in Slots
    BY <1>2 DEF Slots
  <2>2. sinks[i - 1] \in Sinks \cup {""} /\ (~uart_present \/ sinks[i - 1] # "UART")
    BY <2>1, Zenon DEF SinksTyped, Listening
  <2>3. WriteTo(sinks[i - 1], level, str) \in Silent
    BY <2>2, WriteSilent, Zenon
  <2> QED BY <1>1, <1>2, <2>3, Zenon DEF IsFlush
<1>4. ss \in Seq(Silent)
  <2>1. ss \in Seq(Seq(Accesses)) /\ Len(ss) = n
    BY <1>1, <1>2, Zenon DEF IsFlush
  <2>2. ss \in [1 .. n -> Silent]
    BY <1>3, <2>1
  <2> QED BY <2>2
<1> QED BY <1>1, <1>4, SilentJoin, Zenon DEF IsFlush

\* The letters of sequences of accesses that are joined.
LEMMA LettersJoined ==
  ASSUME NEW ss \in Seq(Seq(Accesses)), NEW tt \in Seq(Seq(Tokens)), Len(ss) = Len(tt), NEW D, NEW E,
         \A k \in 1 .. Len(ss) : Letters(ss[k], D) = Without(tt[k], E)
  PROVE  Letters(Joined(ss), D) = Without(Joined(tt), E)
<1>1. PICK r : r = {p \in Seq(Accesses) \X Seq(Tokens) : Letters(p[1], D) = Without(p[2], E)}
  BY Zenon
<1>2. \A a \in Seq(Accesses), b \in Seq(Tokens) : <<a, b>> \in r <=> Letters(a, D) = Without(b, E)
  BY <1>1
<1>3. <<<<>>, <<>>>> \in r
  <2>1. HeardOf(<<>>) = <<>>
    BY DEF HeardOf
  <2>2. Letters(<<>>, D) = <<>> /\ Without(<<>>, E) = <<>>
    BY <2>1, WithoutFew, Zenon DEF Letters
  <2>3. <<>> \in Seq(Accesses) /\ <<>> \in Seq(Tokens)
    OBVIOUS
  <2> QED BY <1>2, <2>2, <2>3, Zenon
<1>4. ASSUME NEW a \in Seq(Accesses), NEW c \in Seq(Accesses), NEW b \in Seq(Tokens), NEW d \in Seq(Tokens),
             <<a, b>> \in r, <<c, d>> \in r
      PROVE  <<a \o c, b \o d>> \in r
  <2>1. Letters(a, D) = Without(b, E) /\ Letters(c, D) = Without(d, E)
    BY <1>2, <1>4, Zenon
  <2>2. Letters(a \o c, D) = Letters(a, D) \o Letters(c, D)
    BY LettersConcat
  <2>3. Without(b \o d, E) = Without(b, E) \o Without(d, E)
    BY WithoutTokens, Zenon
  <2>4. a \o c \in Seq(Accesses) /\ b \o d \in Seq(Tokens)
    BY Concat
  <2> QED BY <1>2, <2>1, <2>2, <2>3, <2>4, Zenon
<1>5. \A k \in 1 .. Len(ss) : <<ss[k], tt[k]>> \in r
  <2>1. \A k \in 1 .. Len(ss) : ss[k] \in Seq(Accesses)
    BY Elements
  <2>2. \A k \in 1 .. Len(ss) : tt[k] \in Seq(Tokens)
    BY Elements
  <2> QED BY <1>2, <2>1, <2>2, Zenon
<1>6. <<Joined(ss), Joined(tt)>> \in r
  BY <1>3, <1>4, <1>5, JoinedRelated, Zenon
<1>7. Joined(ss) \in Seq(Accesses) /\ Joined(tt) \in Seq(Tokens)
  BY JoinedConcat
<1> QED BY <1>2, <1>6, <1>7, Zenon

\* A sequence is its elements, joined.
LEMMA JoinedSingles ==
  ASSUME NEW S, NEW s \in Seq(S), NEW p \in Seq(Seq(S)), Len(p) = Len(s),
         \A k \in 1 .. Len(s) : p[k] = <<s[k]>>
  PROVE  Joined(p) = s
<1>1. PICK n \in Nat : n = Len(s)
  OBVIOUS
<1>2. p \in Seq(Seq(S)) /\ Len(p) = n /\ \A k \in 1 .. n : p[k] = <<s[k]>>
  BY <1>1
<1>3. PICK g : g = Join(p) /\ IsJoin(g, p, S) /\ Joined(p) = g[n]
  BY <1>2, JoinSteps, JoinedIsJoin
<1>4. /\ g[0] = <<>> /\ (\A k \in 0 .. n : g[k] \in Seq(S))
      /\ \A k \in 1 .. n : g[k] = g[k - 1] \o p[k]
  BY <1>2, <1>3, Zenon DEF IsJoin
<1>5. PICK T : T = {k \in 0 .. n : Len(g[k]) = k /\ \A i \in 1 .. k : g[k][i] = s[i]}
  BY Zenon
<1>6. 0 \in T
  <2>1. 0 \in 0 .. n /\ Len(g[0]) = 0
    BY <1>4
  <2>2. \A i \in 1 .. 0 : g[0][i] = s[i]
    OBVIOUS
  <2> QED BY <1>5, <2>1, <2>2
<1>7. ASSUME NEW k \in 0 .. n - 1, k \in T PROVE k + 1 \in T
  <2>1. k + 1 \in 1 .. n /\ k + 1 \in 0 .. n /\ (k + 1) - 1 = k /\ k \in 0 .. n
    OBVIOUS
  <2>2. PICK u \in Seq(S) : u = g[k]
    BY <1>4, <2>1
  <2>3. PICK c : c = s[k + 1]
    OBVIOUS
  <2>4. c \in S
    BY <1>1, <2>1, <2>3, Elements
  <2>5. g[k + 1] = u \o <<c>>
    BY <1>2, <1>4, <2>1, <2>2, <2>3, Zenon
  <2>6. Len(u) = k /\ \A i \in 1 .. k : u[i] = s[i]
    BY <1>5, <1>7, <2>2, Zenon
  <2>7. u \o <<c>> = Append(u, c)
    BY <2>4
  <2>8. PICK w : w = Append(u, c)
    BY Zenon
  <2>9. Len(w) = k + 1 /\ w[k + 1] = c /\ \A i \in 1 .. k : w[i] = u[i]
    BY <2>4, <2>6, <2>8, Appended
  <2>10. \A i \in 1 .. k + 1 : i = k + 1 \/ i \in 1 .. k
    OBVIOUS
  <2>11. \A i \in 1 .. k + 1 : w[i] = s[i]
    BY <2>3, <2>6, <2>9, <2>10, Zenon
  <2> QED BY <1>5, <2>1, <2>5, <2>7, <2>8, <2>9, <2>11, Zenon
<1>8. n \in T
  <2>1. \A i \in 0 .. n : i \in T
    BY <1>6, <1>7, UpTo, Zenon
  <2> QED BY <2>1
<1>9. g[n] \in Seq(S) /\ Len(g[n]) = n /\ \A i \in 1 .. n : g[n][i] = s[i]
  BY <1>4, <1>5, <1>8, Zenon
<1>10. g[n] = s
  BY <1>1, <1>9, SameSeq
<1> QED BY <1>3, <1>10

\* Without nothing is everything.
LEMMA WithoutNothing ==
  ASSUME NEW s \in Seq(Tokens)
  PROVE  Without(s, {}) = s
<1>1. PICK p : IsParts(p, s, {}, Tokens)
  BY PartsAre
<1>2. PICK n \in Nat : n = Len(s)
  OBVIOUS
<1>3. /\ p \in Seq(Seq(Tokens)) /\ Len(p) = n /\ \A k \in 1 .. n : p[k] = <<s[k]>>
      /\ Without(s, {}) = Joined(p)
  <2>1. \A c : c \notin {}
    OBVIOUS
  <2> QED BY <1>1, <1>2, <2>1, Zenon DEF IsParts
<1>4. Joined(p) = s
  BY <1>2, <1>3, JoinedSingles, Zenon
<1> QED BY <1>3, <1>4

LEMMA FlushLetters ==
  ASSUME NEW level \in Nat, NEW str \in Texts, SinksTyped, UniqueSinks, uart_present, Listening,
         NEW D, Dropped(D)
  PROVE  Letters(_flush(level, str), D) = Without(str, D)
<1>0. str \in Seq(Tokens)
  BY DEF Texts, IsText
<1>1. PICK ss : IsFlush(ss, level, str)
  BY FlushSteps
<1>2. PICK n \in Nat : n = MAX_SINKS
  BY ScreenAssumption
<1>3. PICK w : w = Without(str, D)
  OBVIOUS
<1>30. w \in Seq(Tokens)
  BY <1>0, <1>3, WithoutTokens, Zenon
<1>4. PICK h \in Slots : sinks[h] = "UART"
  BY DEF Listening
<1>5. h + 1 \in 1 .. n /\ (h + 1) - 1 = h
  BY <1>2, <1>4 DEF Slots
<1>6. PICK tt : tt = [i \in 1 .. n |-> IF i = h + 1 THEN w ELSE <<>>]
  BY Zenon
<1>7. tt \in Seq(Seq(Tokens)) /\ Len(tt) = n
  <2>1. \A i \in 1 .. n : (IF i = h + 1 THEN w ELSE <<>>) \in Seq(Tokens)
    BY <1>30
  <2>2. tt \in [1 .. n -> Seq(Tokens)]
    BY <1>6, <2>1, Zenon
  <2> QED BY <2>2
<1>8. tt[h + 1] = w /\ \A i \in 1 .. n : i # h + 1 => tt[i] = <<>>
  BY <1>5, <1>6, Zenon
<1>9. Joined(tt) = w
  <2>1. Joined(tt) = tt[h + 1]
    BY <1>5, <1>7, <1>8, JoinedOne, Zenon
  <2> QED BY <1>8, <2>1
<1>10. ASSUME NEW i \in 1 .. n PROVE Letters(ss[i], D) = Without(tt[i], {})
  <2>0. i - 1 \in Slots
    BY <1>2 DEF Slots
  <2>1. ss[i] = WriteTo(sinks[i - 1], level, str)
    BY <1>1, <1>2, Zenon DEF IsFlush
  <2>2. CASE i = h + 1
    <3>1. i - 1 = h
      BY <1>5, <2>2
    <3>2. Letters(ss[i], D) = w
      <4>1. Letters(WriteTo("UART", level, str), D) = Without(str, D)
        BY UartLetters
      <4>2. ss[i] = WriteTo("UART", level, str)
        BY <1>4, <2>1, <3>1
      <4> QED BY <1>3, <4>1, <4>2
    <3>3. Without(tt[i], {}) = w
      BY <1>8, <1>30, <2>2, WithoutNothing
    <3> QED BY <3>2, <3>3
  <2>3. CASE i # h + 1
    <3>1. i - 1 # h
      BY <1>4, <2>3 DEF Slots
    <3>2. sinks[i - 1] # "UART"
      BY <1>4, <2>0, <3>1, Zenon DEF UniqueSinks
    <3>3. sinks[i - 1] \in Sinks \cup {""}
      BY <2>0, Zenon DEF SinksTyped
    <3>4. ss[i] \in Silent
      BY <2>1, <3>2, <3>3, WriteSilent, Zenon
    <3>5. "\n" \in D
      BY DEF Dropped
    <3>6. Letters(ss[i], D) = <<>>
      BY <3>4, <3>5, SilentLetters
    <3>7. tt[i] = <<>>
      BY <1>8, <2>3, Zenon
    <3>8. Without(<<>>, {}) = <<>>
      BY WithoutFew
    <3> QED BY <3>6, <3>7, <3>8
  <2> QED BY <2>2, <2>3
<1>11. ss \in Seq(Seq(Accesses)) /\ Len(ss) = n /\ _flush(level, str) = Joined(ss)
  BY <1>1, <1>2, Zenon DEF IsFlush
<1>12. Letters(Joined(ss), D) = Without(Joined(tt), {})
  BY <1>7, <1>10, <1>11, LettersJoined
<1>13. Without(w, {}) = w
  BY <1>30, WithoutNothing
<1> QED BY <1>3, <1>9, <1>11, <1>12, <1>13

\* The text of a message.
LEMMA MessageText ==
  ASSUME NEW m \in Messages \cup {TickMessage}
  PROVE  m.level \in Nat /\ m.text \in Texts /\ m.text \in Seq(Tokens)
<1>1. /\ m.level \in Nat /\ m.text \in Seq(STRING)
      /\ \A k \in 1 .. Len(m.text) : m.text[k] \notin Codes \cup {"ESC["}
      /\ \A k \in 1 .. Len(m.text) - 1 : m.text[k] # "\n"
  BY MessagesAssumption, Zenon
<1>2. m.text \in Seq(Tokens)
  BY <1>1 DEF Tokens
<1> QED BY <1>1, <1>2, Zenon DEF Texts, IsText

LEMMA MessageSilent ==
  ASSUME NEW m \in Messages \cup {TickMessage}, SinksTyped, ~uart_present \/ ~Listening
  PROVE  _vprintkl(m) \in Silent
<1>1. m.level \in Nat /\ m.text \in Texts
  BY MessageText
<1>2. PICK chunks \in Seq(Texts) : chunks = Chunks(m.text)
  BY <1>1, ChunksAreTexts
<1>3. PICK ss : ss = [k \in DOMAIN chunks |-> _flush(m.level, chunks[k])]
  BY Zenon
<1>4. \A k \in 1 .. Len(chunks) : _flush(m.level, chunks[k]) \in Silent
  BY <1>1, <1>2, FlushSilent, Elements
<1>5. ss \in Seq(Silent)
  BY <1>3, <1>4
<1> QED BY <1>2, <1>3, <1>5, SilentJoin DEF _vprintkl

\* What a message sends is its text, however it is cut into chunks.
LEMMA MessageLetters ==
  ASSUME NEW m \in Messages \cup {TickMessage}, SinksTyped, UniqueSinks, uart_present, Listening,
         NEW D, Dropped(D)
  PROVE  Letters(_vprintkl(m), D) = Without(m.text, D)
<1>1. m.level \in Nat /\ m.text \in Texts /\ m.text \in Seq(Tokens)
  BY MessageText
<1>2. PICK chunks \in Seq(Texts) : chunks = Chunks(m.text)
  BY <1>1, ChunksAreTexts
<1>3. Texts \in SUBSET Seq(Tokens)
  BY DEF Texts, IsText
<1>4. chunks \in Seq(Seq(Tokens))
  BY <1>2, <1>3
<1>5. PICK n \in Nat : n = Len(chunks) /\ DOMAIN chunks = 1 .. n /\ \A k \in 1 .. n : chunks[k] \in Texts
  BY <1>2, Elements
<1>6. PICK ss : ss = [k \in DOMAIN chunks |-> _flush(m.level, chunks[k])]
  BY Zenon
<1>7. \A k \in 1 .. n : _flush(m.level, chunks[k]) \in Seq(Accesses)
  BY <1>1, <1>5, FlushWhole, Zenon DEF Wholes
<1>8. ss \in [1 .. n -> Seq(Accesses)] /\ \A k \in 1 .. n : ss[k] = _flush(m.level, chunks[k])
  BY <1>5, <1>6, <1>7, Zenon
<1>9. ss \in Seq(Seq(Accesses)) /\ Len(ss) = n
  BY <1>8
<1>10. \A k \in 1 .. n : Letters(ss[k], D) = Without(chunks[k], D)
  <2>1. \A k \in 1 .. n : Letters(_flush(m.level, chunks[k]), D) = Without(chunks[k], D)
    BY <1>1, <1>5, FlushLetters, Zenon
  <2> QED BY <1>8, <2>1
<1>11. Letters(Joined(ss), D) = Without(Joined(chunks), D)
  BY <1>4, <1>5, <1>9, <1>10, LettersJoined
<1>12. Joined(chunks) = m.text
  BY <1>1, <1>2, ChunksJoined
<1>13. _vprintkl(m) = Joined(ss)
  BY <1>2, <1>6 DEF _vprintkl
<1> QED BY <1>11, <1>12, <1>13

\* The characters of what a sink owes.
Chars(q) == [k \in DOMAIN q |-> q[k][1]]

LEMMA CharsAre ==
  ASSUME NEW q \in Seq(Tokens \X Nat)
  PROVE  /\ Chars(q) \in Seq(Tokens) /\ Len(Chars(q)) = Len(q)
         /\ \A k \in 1 .. Len(q) : Chars(q)[k] = q[k][1]
<1>1. PICK n \in Nat : n = Len(q) /\ DOMAIN q = 1 .. n /\ \A k \in 1 .. n : q[k] \in Tokens \X Nat
  BY Elements
<1>2. \A k \in 1 .. n : q[k][1] \in Tokens
  BY <1>1
<1>3. PICK c : c = Chars(q)
  OBVIOUS
<1>4. c = [k \in 1 .. n |-> q[k][1]]
  BY <1>1, <1>3, Zenon DEF Chars
<1>5. c \in [1 .. n -> Tokens] /\ \A k \in 1 .. n : c[k] = q[k][1]
  BY <1>2, <1>4, Zenon
<1>6. c \in Seq(Tokens) /\ Len(c) = n
  BY <1>5
<1> QED BY <1>1, <1>3, <1>5, <1>6, Zenon

\* What a message adds to it.
LEMMA CharsOwed ==
  ASSUME NEW q \in Seq(Tokens \X Nat), NEW m \in Messages \cup {TickMessage}
  PROVE  LET r == q \o [k \in DOMAIN m.text |-> <<m.text[k], m.level>>]
         IN  r \in Seq(Tokens \X Nat) /\ Chars(r) = Chars(q) \o m.text
<1>1. m.level \in Nat /\ m.text \in Seq(Tokens)
  BY MessageText
<1>2. PICK t \in Seq(Tokens) : t = m.text
  BY <1>1
<1>3. PICK n \in Nat : n = Len(t) /\ DOMAIN t = 1 .. n /\ \A k \in 1 .. n : t[k] \in Tokens
  BY Elements
<1>4. PICK u : u = [k \in DOMAIN m.text |-> <<m.text[k], m.level>>]
  BY Zenon
<1>5. \A k \in 1 .. n : <<t[k], m.level>> \in Tokens \X Nat
  BY <1>1, <1>3
<1>6. u \in [1 .. n -> Tokens \X Nat] /\ \A k \in 1 .. n : u[k] = <<t[k], m.level>>
  BY <1>2, <1>3, <1>4, <1>5, Zenon
<1>7. u \in Seq(Tokens \X Nat) /\ Len(u) = n
  BY <1>6
<1>8. PICK l \in Nat : l = Len(q)
  OBVIOUS
<1>9. PICK r : r = q \o u
  BY Zenon
<1>10. /\ r \in Seq(Tokens \X Nat) /\ Len(r) = l + n
       /\ \A k \in 1 .. l : r[k] = q[k]
       /\ \A k \in 1 .. n : r[l + k] = u[k]
  <2>0. u \in Seq(Tokens \X Nat)
    BY <1>7
  <2>1. /\ r \in Seq(Tokens \X Nat) /\ Len(r) = Len(q) + Len(u)
        /\ \A k \in 1 .. Len(q) : r[k] = q[k]
        /\ \A k \in 1 .. Len(u) : r[Len(q) + k] = u[k]
    BY <1>9, <2>0, Concat
  <2> QED BY <1>7, <1>8, <2>1, Zenon
<1>11. PICK c : c = Chars(q)
  OBVIOUS
<1>12. c \in Seq(Tokens) /\ Len(c) = l /\ \A k \in 1 .. l : c[k] = q[k][1]
  BY <1>8, <1>11, CharsAre, Zenon
<1>13. PICK d : d = Chars(r)
  OBVIOUS
<1>14. d \in Seq(Tokens) /\ Len(d) = l + n /\ \A k \in 1 .. l + n : d[k] = r[k][1]
  <2>1. d \in Seq(Tokens) /\ Len(d) = Len(r) /\ \A k \in 1 .. Len(r) : d[k] = r[k][1]
    BY <1>10, <1>13, CharsAre, Zenon
  <2> QED BY <1>10, <2>1
<1>15. PICK e : e = c \o t
  BY Zenon
<1>16. /\ e \in Seq(Tokens) /\ Len(e) = l + n
       /\ \A k \in 1 .. l : e[k] = c[k]
       /\ \A k \in 1 .. n : e[l + k] = t[k]
  <2>0. c \in Seq(Tokens)
    BY <1>12
  <2>1. /\ e \in Seq(Tokens) /\ Len(e) = Len(c) + Len(t)
        /\ \A k \in 1 .. Len(c) : e[k] = c[k]
        /\ \A k \in 1 .. Len(t) : e[Len(c) + k] = t[k]
    BY <1>15, <2>0, Concat
  <2> QED BY <1>3, <1>12, <2>1, Zenon
<1>17. ASSUME NEW k \in 1 .. l + n PROVE d[k] = e[k]
  <2>1. CASE k \in 1 .. l
    <3>1. d[k] = r[k][1] /\ e[k] = c[k] /\ r[k] = q[k] /\ c[k] = q[k][1]
      BY <1>10, <1>12, <1>14, <1>16, <2>1, Zenon
    <3> QED BY <3>1
  <2>2. CASE k \notin 1 .. l
    <3>1. PICK i \in 1 .. n : k = l + i
      <4>1. k - l \in 1 .. n /\ k = l + (k - l)
        BY <2>2
      <4> QED BY <4>1
    <3>2. d[k] = r[k][1] /\ r[k] = u[i] /\ u[i] = <<t[i], m.level>> /\ e[k] = t[i]
      BY <1>6, <1>10, <1>14, <1>16, <3>1, Zenon
    <3> QED BY <3>2
  <2> QED BY <2>1, <2>2
<1>18. d = e
  BY <1>14, <1>16, <1>17, SameSeq
<1>19. r = q \o [k \in DOMAIN m.text |-> <<m.text[k], m.level>>]
  BY <1>4, <1>9
<1> QED BY <1>2, <1>10, <1>11, <1>13, <1>15, <1>18, <1>19, Zenon

\* What has been sent, what the message being printed and the one interrupted are still
\* to send, against what the serial sink was given: in order but for the ticks' text,
\* and all of it in number.
Balanced(s, t, r, q) ==
  /\ Without(s, TickMarks) \o (Letters(t, TickMarks) \o Letters(r, TickMarks))
       = Without(Chars(q), TickMarks)
  /\ Len(Without(s, Marks)) + (Len(Letters(t, Marks)) + Len(Letters(r, Marks)))
       = Len(Without(Chars(q), Marks))

Rest == IF interrupted = None THEN <<>> ELSE interrupted[1].todo

SentInv ==
  /\ UniqueSinks /\ due["UART"] \in Seq(Tokens \X Nat)
  /\ ~uart_present => dev.serial = <<>> /\ todo \in Silent /\ Rest \in Silent
  /\ uart_present => Balanced(dev.serial, todo, Rest, due["UART"])

LEMMA MarksDropped == Dropped(Marks) /\ Dropped(TickMarks) /\ "\n" \in Marks /\ "\n" \in TickMarks
<1>1. Codes \cup {"ESC[", "\n"} \subseteq TickMarks
  BY Zenon DEF Marks, TickMarks
<1> QED BY <1>1, Zenon DEF Dropped, Marks

LEMMA LettersEmpty == \A D : Letters(<<>>, D) = <<>>
<1>1. HeardOf(<<>>) = <<>>
  BY DEF HeardOf
<1> QED BY <1>1, WithoutFew, Zenon DEF Letters

\* An access moves what it sends from what is left to what is sent.
LEMMA AccessMoves ==
  ASSUME NEW s \in Seq(Tokens), NEW t \in Seq(Accesses), t # <<>>, NEW D, "\n" \in D
  PROVE  \E x \in Seq(Tokens) :
           /\ Letters(t, D) = x \o Letters(Tail(t), D)
           /\ Without(IF t[1].op = "serial" THEN Append(s, t[1].arg) ELSE s, D) = Without(s, D) \o x
<1>1. PICK a : a = t[1]
  OBVIOUS
<1>2. PICK l : l = <<a>>
  BY Zenon
<1>3. PICK u : u = Tail(t)
  BY Zenon
<1>4. a \in Accesses /\ u \in Seq(Accesses) /\ l \in Seq(Accesses) /\ t = l \o u
  BY <1>1, <1>2, <1>3
<1>5. PICK h : h = Heard(a)
  OBVIOUS
<1>6. HeardOf(l) = <<h>> /\ h \in Tokens
  <2>1. Len(l) = 1 /\ l[1] = a
    BY <1>2
  <2>2. PICK g : g = HeardOf(l)
    OBVIOUS
  <2>3. g \in Seq(Tokens) /\ Len(g) = 1 /\ g[1] = h
    <3>1. g \in Seq(Tokens) /\ Len(g) = Len(l) /\ \A k \in 1 .. Len(l) : g[k] = Heard(l[k])
      BY <1>4, <2>2, HeardSeq, Zenon
    <3>2. 1 \in 1 .. Len(l)
      BY <2>1
    <3>3. g[1] = Heard(l[1])
      BY <3>1, <3>2, Zenon
    <3> QED BY <1>5, <2>1, <3>1, <3>3, Zenon
  <2>4. g = <<h>> /\ h \in Tokens
    <3>1. PICK w : w = <<h>>
      BY Zenon
    <3>2. 1 \in 1 .. Len(g)
      BY <2>3
    <3>3. h \in Tokens
      BY <2>3, <3>2, Elements, Zenon
    <3>4. w \in Seq(Tokens) /\ Len(w) = 1 /\ w[1] = h
      BY <3>1, <3>3, Single
    <3>5. \A k \in 1 .. Len(g) : k = 1
      BY <2>3
    <3>6. \A k \in 1 .. Len(g) : g[k] = w[k]
      BY <2>3, <3>4, <3>5, Zenon
    <3>7. g = w
      BY <2>3, <3>4, <3>6, SameSeq
    <3> QED BY <3>1, <3>3, <3>7
  <2> QED BY <2>2, <2>4
<1>7. PICK x : x = Without(<<h>>, D)
  OBVIOUS
<1>8. x \in Seq(Tokens) /\ Letters(l, D) = x
  <2>1. <<h>> \in Seq(Tokens)
    BY <1>6, Single
  <2> QED BY <1>6, <1>7, <2>1, WithoutTokens, Zenon DEF Letters
<1>9. Letters(t, D) = x \o Letters(Tail(t), D)
  <2>1. Letters(l \o u, D) = Letters(l, D) \o Letters(u, D)
    BY <1>4, LettersConcat
  <2> QED BY <1>3, <1>4, <1>8, <2>1, Zenon
<1>10. Without(s, D) \in Seq(Tokens)
  BY WithoutTokens, Zenon
<1>11. CASE a.op = "serial"
  <2>1. h = a.arg
    BY <1>5, <1>11 DEF Heard
  <2>2. Append(s, h) = s \o <<h>> /\ <<h>> \in Seq(Tokens)
    BY <1>6
  <2>3. Without(s \o <<h>>, D) = Without(s, D) \o x
    BY <1>7, <2>2, WithoutTokens, Zenon
  <2>4. Without(IF t[1].op = "serial" THEN Append(s, t[1].arg) ELSE s, D) = Without(s, D) \o x
    BY <1>1, <1>11, <2>1, <2>2, <2>3, Zenon
  <2> QED BY <1>8, <1>9, <2>4, Zenon
<1>12. CASE a.op # "serial"
  <2>1. h = "\n"
    BY <1>5, <1>12 DEF Heard
  <2>2. x = <<>>
    BY <1>6, <1>7, <2>1, WithoutFew, Zenon
  <2>3. Without(s, D) \o <<>> = Without(s, D)
    BY <1>10, ConcatEmpty
  <2>4. Without(IF t[1].op = "serial" THEN Append(s, t[1].arg) ELSE s, D) = Without(s, D) \o x
    BY <1>1, <1>12, <2>2, <2>3, Zenon
  <2> QED BY <1>8, <1>9, <2>4, Zenon
<1> QED BY <1>11, <1>12, Zenon

LEMMA LettersSeq ==
  \A D : \A t \in Seq(Accesses) : Letters(t, D) \in Seq(Tokens) /\ Len(Letters(t, D)) \in Nat
<1> SUFFICES ASSUME NEW D, NEW t \in Seq(Accesses)
             PROVE  Letters(t, D) \in Seq(Tokens) /\ Len(Letters(t, D)) \in Nat
  OBVIOUS
<1>1. Letters(t, D) \in Seq(Tokens)
  BY LettersConcat
<1> QED BY <1>1

LEMMA TokensAssociative == \A a, b, c \in Seq(Tokens) : (a \o b) \o c = a \o (b \o c)
<1>1. PICK S : S = Tokens
  OBVIOUS
<1>2. \A a, b, c \in Seq(S) : (a \o b) \o c = a \o (b \o c)
  BY Associative
<1> QED BY <1>1, <1>2

Regrouped(a, x, b, c) == (a \o x) \o (b \o c) = a \o ((x \o b) \o c)

LEMMA Regroup == \A a, x, b, c \in Seq(Tokens) : Regrouped(a, x, b, c)
<1> SUFFICES ASSUME NEW a \in Seq(Tokens), NEW x \in Seq(Tokens), NEW b \in Seq(Tokens), NEW c \in Seq(Tokens)
             PROVE  (a \o x) \o (b \o c) = a \o ((x \o b) \o c)
  BY Zenon DEF Regrouped
<1>1. (x \o b) \o c = x \o (b \o c)
  BY TokensAssociative, Zenon
<1>2. \A d \in Seq(Tokens) : (a \o x) \o d = a \o (x \o d)
  BY TokensAssociative, Zenon
<1>3. b \o c \in Seq(Tokens)
  BY Concat
<1>4. (a \o x) \o (b \o c) = a \o (x \o (b \o c))
  BY <1>2, <1>3, Zenon
<1> QED BY <1>1, <1>4, Zenon

LEMMA AccessBalanced ==
  ASSUME NEW s \in Seq(Tokens), NEW t \in Seq(Accesses), t # <<>>, NEW r \in Seq(Accesses), NEW q,
         Balanced(s, t, r, q)
  PROVE  Balanced(IF t[1].op = "serial" THEN Append(s, t[1].arg) ELSE s, Tail(t), r, q)
<1>1. PICK s2 : s2 = IF t[1].op = "serial" THEN Append(s, t[1].arg) ELSE s
  BY Zenon
<1>2. PICK u : u = Tail(t)
  BY Zenon
<1>3. u \in Seq(Accesses)
  BY <1>2
<1>4. Without(s2, TickMarks) \o (Letters(u, TickMarks) \o Letters(r, TickMarks))
        = Without(Chars(q), TickMarks)
  <2>1. PICK x \in Seq(Tokens) : /\ Letters(t, TickMarks) = x \o Letters(u, TickMarks)
                                 /\ Without(s2, TickMarks) = Without(s, TickMarks) \o x
    BY <1>1, <1>2, AccessMoves, MarksDropped, Zenon
  <2>2. PICK a : a = Without(s, TickMarks)
    OBVIOUS
  <2>3. PICK b : b = Letters(u, TickMarks)
    OBVIOUS
  <2>4. PICK c : c = Letters(r, TickMarks)
    OBVIOUS
  <2>5. a \in Seq(Tokens) /\ b \in Seq(Tokens) /\ c \in Seq(Tokens)
    BY <1>3, <2>2, <2>3, <2>4, WithoutTokens, LettersSeq, Zenon
  <2>6. b \o c \in Seq(Tokens)
    BY <2>5, Concat
  <2>7. (a \o x) \o (b \o c) = a \o ((x \o b) \o c)
    <3>1. Regrouped(a, x, b, c)
      BY <2>5, Regroup, Zenon
    <3> QED BY <3>1, Zenon DEF Regrouped
  <2>8. a \o ((x \o b) \o c) = Without(Chars(q), TickMarks)
    BY <2>1, <2>2, <2>3, <2>4, Zenon DEF Balanced
  <2> QED BY <2>1, <2>2, <2>3, <2>4, <2>7, <2>8, Zenon
<1>5. Len(Without(s2, Marks)) + (Len(Letters(u, Marks)) + Len(Letters(r, Marks)))
        = Len(Without(Chars(q), Marks))
  <2>1. PICK x \in Seq(Tokens) : /\ Letters(t, Marks) = x \o Letters(u, Marks)
                                 /\ Without(s2, Marks) = Without(s, Marks) \o x
    BY <1>1, <1>2, AccessMoves, MarksDropped, Zenon
  <2>2. PICK a : a = Without(s, Marks)
    OBVIOUS
  <2>3. PICK b : b = Letters(u, Marks)
    OBVIOUS
  <2>4. PICK c : c = Letters(r, Marks)
    OBVIOUS
  <2>5. a \in Seq(Tokens) /\ b \in Seq(Tokens) /\ c \in Seq(Tokens)
    BY <1>3, <2>2, <2>3, <2>4, WithoutTokens, LettersSeq, Zenon
  <2>6. Len(a \o x) = Len(a) + Len(x) /\ Len(x \o b) = Len(x) + Len(b)
    BY <2>5, Concat
  <2>7. Len(a) + (Len(x \o b) + Len(c)) = Len(Without(Chars(q), Marks))
    BY <2>1, <2>2, <2>3, <2>4, Zenon DEF Balanced
  <2>8. Len(a) \in Nat /\ Len(x) \in Nat /\ Len(b) \in Nat /\ Len(c) \in Nat
    BY <2>5
  <2>9. Len(a \o x) + (Len(b) + Len(c)) = Len(a) + (Len(x \o b) + Len(c))
    BY <2>6, <2>8
  <2> QED BY <2>1, <2>2, <2>3, <2>4, <2>7, <2>9, Zenon
<1> QED BY <1>1, <1>2, <1>4, <1>5, Zenon DEF Balanced

\* The text of a tick is not told apart from the marks.
LEMMA TickDropped == Without(TickText, TickMarks) = <<>>
<1>1. TickMessage \in Messages \cup {TickMessage} /\ TickMessage.text = TickText
  BY DEF TickMessage
<1>2. TickText \in Seq(Tokens)
  BY <1>1, MessageText
<1>3. DOMAIN TickText = 1 .. Len(TickText)
  BY <1>2, Elements
<1>4. \A k \in 1 .. Len(TickText) : TickText[k] \in TickMarks
  BY <1>3, Zenon DEF TickMarks
<1> QED BY <1>2, <1>4, WithoutAll

\* A message that starts, or a tick that interrupts one, adds what it sends to both sides.
LEMMA MessageBalanced ==
  ASSUME NEW s \in Seq(Tokens), NEW t \in Seq(Accesses), NEW q \in Seq(Tokens \X Nat),
         NEW m \in Messages \cup {TickMessage}, t = <<>> \/ m = TickMessage,
         Balanced(s, t, <<>>, q), SinksTyped, UniqueSinks, uart_present
  PROVE  Balanced(s, _vprintkl(m), t,
                  IF Listening THEN q \o [k \in DOMAIN m.text |-> <<m.text[k], m.level>>] ELSE q)
<1>1. PICK v : v = _vprintkl(m)
  OBVIOUS
<1>2. v \in Seq(Accesses)
  BY <1>1, MessageWhole, Zenon DEF Wholes
<1>3. PICK z : z = IF Listening THEN q \o [k \in DOMAIN m.text |-> <<m.text[k], m.level>>] ELSE q
  BY Zenon
<1>4. PICK c : c = Chars(q)
  OBVIOUS
<1>5. c \in Seq(Tokens) /\ m.text \in Seq(Tokens)
  BY <1>4, CharsAre, MessageText
<1>6. PICK y : y = IF Listening THEN m.text ELSE <<>>
  OBVIOUS
<1>7. y \in Seq(Tokens) /\ <<>> \in Seq(Tokens)
  BY <1>5, <1>6
<1>8. Chars(z) = c \o y
  <2>1. CASE Listening
    BY <1>3, <1>4, <1>6, <2>1, CharsOwed, Zenon
  <2>2. CASE ~Listening
    <3>1. c \o <<>> = c
      BY <1>5, ConcatEmpty
    <3> QED BY <1>3, <1>4, <1>6, <2>2, <3>1, Zenon
  <2> QED BY <2>1, <2>2
<1>9. ASSUME NEW D, Dropped(D)
      PROVE  /\ Letters(v, D) = Without(y, D)
             /\ Without(Chars(z), D) = Without(c, D) \o Without(y, D)
  <2>1. Without(c \o y, D) = Without(c, D) \o Without(y, D)
    BY <1>5, <1>7, WithoutTokens, Zenon
  <2>2. CASE Listening
    <3>1. Letters(_vprintkl(m), D) = Without(m.text, D)
      BY <1>9, <2>2, MessageLetters
    <3> QED BY <1>1, <1>6, <1>8, <2>1, <2>2, <3>1
  <2>3. CASE ~Listening
    <3>1. v \in Silent
      BY <1>1, <2>3, MessageSilent
    <3>2. Letters(v, D) = <<>>
      BY <1>9, <3>1, SilentLetters DEF Dropped
    <3>3. Without(<<>>, D) = <<>>
      BY WithoutFew, Zenon
    <3> QED BY <1>6, <1>8, <2>1, <2>3, <3>2, <3>3
  <2> QED BY <2>2, <2>3
<1>10. Without(s, TickMarks) \o (Letters(v, TickMarks) \o Letters(t, TickMarks))
         = Without(Chars(z), TickMarks)
  <2>1. PICK a : a = Without(s, TickMarks)
    OBVIOUS
  <2>2. PICK b : b = Letters(t, TickMarks)
    OBVIOUS
  <2>3. PICK e : e = Without(y, TickMarks)
    OBVIOUS
  <2>4. a \in Seq(Tokens) /\ b \in Seq(Tokens) /\ e \in Seq(Tokens)
    BY <1>7, <2>1, <2>2, <2>3, WithoutTokens, LettersSeq, Zenon
  <2>5. a \o (b \o <<>>) = Without(c, TickMarks)
    BY <1>4, <2>1, <2>2, LettersEmpty, Zenon DEF Balanced
  <2>6. b \o <<>> = b /\ <<>> \o b = b /\ e \o <<>> = e /\ a \o <<>> = a
    BY <2>4, ConcatEmpty
  <2>7. Letters(v, TickMarks) = e /\ Without(Chars(z), TickMarks) = Without(c, TickMarks) \o e
    BY <1>9, <2>3, MarksDropped, Zenon
  <2>8. a \o (e \o b) = (a \o b) \o e
    <3>1. CASE t = <<>>
      <4>1. b = <<>>
        BY <2>2, <3>1, LettersEmpty, Zenon
      <4> QED BY <2>6, <4>1
    <3>2. CASE m = TickMessage
      <4>1. m.text = TickText
        BY <3>2 DEF TickMessage
      <4>2. Without(<<>>, TickMarks) = <<>>
        BY WithoutFew, Zenon
      <4>3. e = <<>>
        BY <1>6, <2>3, <4>1, <4>2, TickDropped
      <4>4. a \o b \in Seq(Tokens)
        BY <2>4, Concat
      <4>5. (a \o b) \o <<>> = a \o b
        BY <4>4, ConcatEmpty
      <4> QED BY <2>6, <4>3, <4>5
    <3> QED BY <3>1, <3>2, Zenon
  <2> QED BY <2>1, <2>2, <2>5, <2>6, <2>7, <2>8, Zenon
<1>11. Len(Without(s, Marks)) + (Len(Letters(v, Marks)) + Len(Letters(t, Marks)))
         = Len(Without(Chars(z), Marks))
  <2>1. PICK a : a = Without(s, Marks)
    OBVIOUS
  <2>2. PICK b : b = Letters(t, Marks)
    OBVIOUS
  <2>3. PICK e : e = Without(y, Marks)
    OBVIOUS
  <2>4. PICK g : g = Without(c, Marks)
    OBVIOUS
  <2>5. a \in Seq(Tokens) /\ b \in Seq(Tokens) /\ e \in Seq(Tokens) /\ g \in Seq(Tokens)
    BY <1>5, <1>7, <2>1, <2>2, <2>3, <2>4, WithoutTokens, LettersSeq, Zenon
  <2>6. Len(a) + (Len(b) + Len(<<>>)) = Len(g)
    BY <1>4, <2>1, <2>2, <2>4, LettersEmpty, Zenon DEF Balanced
  <2>7. Letters(v, Marks) = e /\ Without(Chars(z), Marks) = g \o e
    BY <1>9, <2>3, <2>4, MarksDropped, Zenon
  <2>8. Len(g \o e) = Len(g) + Len(e)
    BY <2>5, Concat
  <2>9. Len(a) \in Nat /\ Len(b) \in Nat /\ Len(e) \in Nat /\ Len(g) \in Nat /\ Len(<<>>) = 0
    BY <2>5
  <2>10. Len(a) + (Len(e) + Len(b)) = Len(g \o e)
    <3>1. PICK i \in Nat : i = Len(a)
      BY <2>9
    <3>2. PICK j \in Nat : j = Len(b)
      BY <2>9
    <3>3. PICK k \in Nat : k = Len(e)
      BY <2>9
    <3>4. PICK l \in Nat : l = Len(g)
      BY <2>9
    <3>5. i + (j + 0) = l
      BY <2>6, <2>9, <3>1, <3>2, <3>4, Zenon
    <3>6. i + (k + j) = l + k
      BY <3>5
    <3> QED BY <2>8, <3>1, <3>2, <3>3, <3>4, <3>6, Zenon
  <2> QED BY <2>1, <2>2, <2>7, <2>10, Zenon
<1> QED BY <1>1, <1>3, <1>10, <1>11, Zenon DEF Balanced

\* The interrupted message goes on.
LEMMA IretBalanced ==
  ASSUME NEW s \in Seq(Tokens), NEW r \in Seq(Accesses), NEW q, Balanced(s, <<>>, r, q)
  PROVE  Balanced(s, r, <<>>, q)
<1>1. \A D : Letters(r, D) \in Seq(Tokens) /\ Len(Letters(r, D)) \in Nat
  BY LettersSeq, Zenon
<1>2. \A D : <<>> \o Letters(r, D) = Letters(r, D) /\ Letters(r, D) \o <<>> = Letters(r, D)
  BY <1>1, ConcatEmpty
<1>3. \A D : Letters(<<>>, D) = <<>>
  BY LettersEmpty
<1>4. Len(<<>>) = 0
  OBVIOUS
<1>5. Len(<<>>) + Len(Letters(r, Marks)) = Len(Letters(r, Marks)) + Len(<<>>)
  BY <1>1, <1>4
<1>6. Without(s, TickMarks) \o (Letters(r, TickMarks) \o <<>>) = Without(Chars(q), TickMarks)
  BY <1>2, <1>3, Zenon DEF Balanced
<1>7. Len(Without(s, Marks)) + (Len(Letters(r, Marks)) + Len(<<>>)) = Len(Without(Chars(q), Marks))
  BY <1>3, <1>5, Zenon DEF Balanced
<1> QED BY <1>3, <1>6, <1>7, Zenon DEF Balanced

LEMMA SentInit == Init => SentInv
<1> SUFFICES ASSUME Init PROVE SentInv
  OBVIOUS
<1>1. UniqueSinks
  BY Zenon DEF Init, UniqueSinks
<1>2. due["UART"] = <<>> /\ dev.serial = <<>> /\ todo = <<>> /\ interrupted = None
  BY Zenon DEF Init, Sinks
<1>3. Rest = <<>>
  BY <1>2 DEF Rest
<1>4. <<>> \in Seq(Tokens \X Nat) /\ <<>> \in Seq(Tokens) /\ <<>> \o <<>> = <<>> /\ Len(<<>>) = 0
  OBVIOUS
<1>5. Chars(<<>>) = <<>>
  BY DEF Chars
<1>6. \A D : Without(<<>>, D) = <<>> /\ Letters(<<>>, D) = <<>>
  BY WithoutFew, LettersEmpty
<1>7. Len(<<>>) + (Len(<<>>) + Len(<<>>)) = Len(<<>>)
  BY <1>4
<1>8. Balanced(<<>>, <<>>, <<>>, <<>>)
  BY <1>4, <1>5, <1>6, <1>7, Zenon DEF Balanced
<1> QED BY <1>1, <1>2, <1>3, <1>4, <1>8, SilentJoin DEF SentInv

\* printk and a tick.
LEMMA MessageSent ==
  ASSUME ConsoleInv, SentInv, NEW m \in Messages \cup {TickMessage}, todo' = _vprintkl(m),
         due' = Owed(m), UNCHANGED <<sinks, uart_present, dev>>, interrupted = None,
         \/ todo = <<>> /\ interrupted' = None
         \/ m = TickMessage /\ interrupted' = <<[todo |-> todo, regs |-> regs]>>
  PROVE  SentInv'
<1>1. /\ SinksTyped /\ dev.serial \in Seq(Tokens) /\ todo \in Seq(Accesses)
      /\ UniqueSinks /\ due["UART"] \in Seq(Tokens \X Nat)
  BY DEF ConsoleInv, TypeInv, IsDev, Remains, SentInv
<1>2. UniqueSinks'
  BY <1>1, Zenon DEF UniqueSinks
<1>3. Rest = <<>> /\ Rest' = todo
  BY DEF Rest, None
<1>4. due'["UART"] = IF Listening THEN due["UART"] \o [k \in DOMAIN m.text |-> <<m.text[k], m.level>>]
                     ELSE due["UART"]
  BY DEF Owed, Listening, Sinks
<1>5. due'["UART"] \in Seq(Tokens \X Nat)
  <2>1. due["UART"] \o [k \in DOMAIN m.text |-> <<m.text[k], m.level>>] \in Seq(Tokens \X Nat)
    BY <1>1, CharsOwed, Zenon
  <2> QED BY <1>1, <1>4, <2>1
<1>6. ASSUME ~uart_present PROVE dev'.serial = <<>> /\ todo' \in Silent /\ Rest' \in Silent
  <2>1. dev.serial = <<>> /\ todo \in Silent
    BY <1>6 DEF SentInv
  <2>2. _vprintkl(m) \in Silent
    BY <1>1, <1>6, MessageSilent
  <2> QED BY <1>3, <2>1, <2>2
<1>7. ASSUME uart_present PROVE Balanced(dev'.serial, todo', Rest', due'["UART"])
  <2>1. PICK s : s = dev.serial
    OBVIOUS
  <2>2. PICK q : q = due["UART"]
    OBVIOUS
  <2>3. PICK t : t = todo
    OBVIOUS
  <2>4. s \in Seq(Tokens) /\ q \in Seq(Tokens \X Nat) /\ t \in Seq(Accesses)
    BY <1>1, <2>1, <2>2, <2>3
  <2>5. Balanced(s, t, <<>>, q)
    BY <1>3, <1>7, <2>1, <2>2, <2>3, Zenon DEF SentInv
  <2>6. t = <<>> \/ m = TickMessage
    BY <2>3
  <2>7. Balanced(s, _vprintkl(m), t,
                 IF Listening THEN q \o [k \in DOMAIN m.text |-> <<m.text[k], m.level>>] ELSE q)
    BY <1>1, <1>7, <2>4, <2>5, <2>6, MessageBalanced, Zenon
  <2>8. dev'.serial = s
    BY <2>1
  <2> QED BY <1>3, <1>4, <2>2, <2>3, <2>7, <2>8, Zenon
<1>8. uart_present' = uart_present
  OBVIOUS
<1>9. uart_present' => Balanced(dev'.serial, todo', Rest', due'["UART"])
  BY <1>7, <1>8
<1>10. ~uart_present' => dev'.serial = <<>> /\ todo' \in Silent /\ Rest' \in Silent
  BY <1>6, <1>8
<1> QED BY <1>2, <1>5, <1>9, <1>10 DEF SentInv

LEMMA AccessSent == ConsoleInv /\ SentInv /\ access => SentInv'
<1> SUFFICES ASSUME ConsoleInv, SentInv, access PROVE SentInv'
  OBVIOUS
<1>1. PICK t : t = todo
  OBVIOUS
<1>2. PICK s : s = dev.serial
  OBVIOUS
<1>3. PICK a : a = t[1]
  OBVIOUS
<1>4. PICK e : e = Done(a, dev, regs)
  OBVIOUS
<1>5. IsDev(dev) /\ regs \in Regs /\ Remains(t) /\ t # <<>>
  BY <1>1, Zenon DEF ConsoleInv, TypeInv, access
<1>6. Head(t) = a /\ a \in Accesses /\ t \in Seq(Accesses)
  BY <1>3, <1>5, RemainsTail DEF Remains
<1>7. /\ dev' = e[1] /\ todo' = Tail(t)
      /\ UNCHANGED <<sinks, uart_present, interrupted, due>>
  BY <1>1, <1>4, <1>6 DEF access
<1>8. dev'.serial = IF a.op = "serial" THEN Append(s, a.arg) ELSE s
  <2>1. Effect(a, dev, regs, e)
    BY <1>4, <1>5, <1>6, AccessEffect
  <2> QED BY <1>2, <1>7, <2>1 DEF Effect
<1>9. Rest' = Rest /\ Rest \in Seq(Accesses) /\ s \in Seq(Tokens)
  <2>1. interrupted # None => interrupted[1].todo \in Seq(Accesses)
    BY Zenon DEF ConsoleInv, TypeInv, Remains
  <2>2. s \in Seq(Tokens)
    BY <1>2, <1>5 DEF IsDev
  <2>3. Rest' = Rest
    BY <1>7 DEF Rest
  <2> QED BY <2>1, <2>2, <2>3 DEF Rest
<1>10. UniqueSinks' /\ due'["UART"] \in Seq(Tokens \X Nat)
  BY <1>7, Zenon DEF SentInv, UniqueSinks
<1>11. ASSUME ~uart_present PROVE dev'.serial = <<>> /\ todo' \in Silent /\ Rest' \in Silent
  <2>1. s = <<>> /\ t \in Silent /\ Rest \in Silent
    BY <1>1, <1>2, <1>11 DEF SentInv
  <2>2. \A k \in 1 .. Len(t) : t[k].op # "serial"
    BY <2>1 DEF Silent
  <2>3. Tail(t) \in Seq(Accesses) /\ Len(Tail(t)) = Len(t) - 1 /\ Len(t) >= 1
        /\ \A k \in 1 .. Len(t) - 1 : Tail(t)[k] = t[k + 1]
    BY <1>5, <1>6, TailOf
  <2>4. a.op # "serial"
    BY <1>3, <2>2, <2>3
  <2>5. \A k \in 1 .. Len(t) - 1 : k + 1 \in 1 .. Len(t)
    BY <1>6
  <2>6. Tail(t) \in Silent
    BY <2>2, <2>3, <2>5, Zenon DEF Silent
  <2> QED BY <1>7, <1>8, <1>9, <2>1, <2>4, <2>6
<1>12. ASSUME uart_present PROVE Balanced(dev'.serial, todo', Rest', due'["UART"])
  <2>1. PICK r : r = Rest
    OBVIOUS
  <2>2. PICK q : q = due["UART"]
    OBVIOUS
  <2>3. Balanced(s, t, r, q) /\ r \in Seq(Accesses)
    BY <1>1, <1>2, <1>9, <1>12, <2>1, <2>2, Zenon DEF SentInv
  <2>4. Balanced(IF t[1].op = "serial" THEN Append(s, t[1].arg) ELSE s, Tail(t), r, q)
    BY <1>5, <1>6, <1>9, <2>3, AccessBalanced
  <2>5. due'["UART"] = q
    BY <1>7, <2>2
  <2> QED BY <1>3, <1>7, <1>8, <1>9, <2>1, <2>4, <2>5, Zenon
<1>13. uart_present' = uart_present
  BY <1>7
<1> QED BY <1>10, <1>11, <1>12, <1>13, Zenon DEF SentInv

LEMMA IretSent == ConsoleInv /\ SentInv /\ iret => SentInv'
<1> SUFFICES ASSUME ConsoleInv, SentInv, iret PROVE SentInv'
  OBVIOUS
<1>1. /\ interrupted # None /\ todo = <<>> /\ todo' = interrupted[1].todo /\ interrupted' = None
      /\ UNCHANGED <<sinks, uart_present, dev, due>>
  BY DEF iret
<1>2. Rest = todo' /\ Rest' = <<>>
  BY <1>1 DEF Rest
<1>3. Rest \in Seq(Accesses) /\ dev.serial \in Seq(Tokens)
  BY <1>1 DEF ConsoleInv, TypeInv, Remains, Rest, IsDev
<1>4. UniqueSinks' /\ due'["UART"] \in Seq(Tokens \X Nat)
  BY <1>1, Zenon DEF SentInv, UniqueSinks
<1>5. ASSUME ~uart_present PROVE dev'.serial = <<>> /\ todo' \in Silent /\ Rest' \in Silent
  BY <1>1, <1>2, <1>5, SilentJoin DEF SentInv
<1>6. ASSUME uart_present PROVE Balanced(dev'.serial, todo', Rest', due'["UART"])
  <2>1. Balanced(dev.serial, <<>>, Rest, due["UART"])
    BY <1>1, <1>6, Zenon DEF SentInv
  <2>2. Balanced(dev.serial, Rest, <<>>, due["UART"])
    BY <1>3, <2>1, IretBalanced
  <2> QED BY <1>1, <1>2, <2>2
<1> QED BY <1>1, <1>4, <1>5, <1>6, Zenon DEF SentInv

LEMMA OtherSent ==
  ASSUME SentInv, UniqueSinks', UNCHANGED <<uart_present, dev, todo, interrupted, due>>
  PROVE  SentInv'
<1>1. Rest' = Rest
  BY DEF Rest
<1> QED BY <1>1 DEF SentInv

LEMMA SentNext == ConsoleInv /\ SentInv /\ [Next]_vars => SentInv'
<1> SUFFICES ASSUME ConsoleInv, SentInv, [Next]_vars PROVE SentInv'
  OBVIOUS
<1>0. SinksTyped /\ UniqueSinks
  BY DEF ConsoleInv, TypeInv, SentInv
<1>1. ASSUME NEW s \in Sinks, printk_sink_register(s) PROVE SentInv'
  <2>1. /\ \A i \in Slots : sinks[i] # s
        /\ sinks' = Register(s)
    BY <1>1, Zenon DEF printk_sink_register
  <2>2. PICK i : sinks' = [sinks EXCEPT ![i] = s]
    BY <2>1, Zenon DEF Register
  <2>3. \A j \in Slots : sinks'[j] = IF j = i THEN s ELSE sinks[j]
    BY <1>0, <2>2, Zenon DEF SinksTyped
  <2>4. UniqueSinks'
    BY <1>0, <2>1, <2>3, Zenon DEF UniqueSinks
  <2> QED BY <1>1, <2>4, OtherSent, Zenon DEF printk_sink_register
<1>2. ASSUME NEW i \in Slots, printk_sink_unregister(i) PROVE SentInv'
  <2>1. sinks' = [sinks EXCEPT ![i] = ""]
    BY <1>2, Zenon DEF printk_sink_unregister
  <2>2. \A j \in Slots : sinks'[j] = IF j = i THEN "" ELSE sinks[j]
    BY <1>0, <2>1, Zenon DEF SinksTyped
  <2>3. UniqueSinks'
    BY <1>0, <2>2, Zenon DEF UniqueSinks
  <2> QED BY <1>2, <2>3, OtherSent, Zenon DEF printk_sink_unregister
<1>3. ASSUME NEW m \in Messages, printk(m) PROVE SentInv'
  BY <1>3, MessageSent DEF printk, Idle
<1>4. CASE access
  BY <1>4, AccessSent
<1>5. CASE tick
  BY <1>5, MessageSent DEF tick
<1>6. CASE iret
  BY <1>6, IretSent
<1>7. CASE __isr_dispatch
  BY <1>0, <1>7, OtherSent, Zenon DEF __isr_dispatch, UniqueSinks
<1>8. CASE vpanic_cli
  BY <1>0, <1>8, OtherSent, Zenon DEF vpanic_cli, UniqueSinks
<1>9. CASE UNCHANGED vars
  BY <1>0, <1>9, OtherSent, Zenon DEF vars, UniqueSinks
<1> QED BY <1>1, <1>2, <1>3, <1>4, <1>5, <1>6, <1>7, <1>8, <1>9 DEF Next, Halted

\* Between messages everything the serial sink was given is on the line, whatever
\* _putc's buffer holds at a time, however long the messages are and wherever ticks
\* interrupt them: nothing lost at the edge of a chunk, nothing twice.
THEOREM SerialCorrect == Spec => []SerialComplete
<1>1. ConsoleInv /\ SentInv => SerialComplete
  <2> SUFFICES ASSUME ConsoleInv, SentInv, Idle
               PROVE  LET owed == Chars(due["UART"])
                      IN  IF ~uart_present THEN dev.serial = <<>>
                          ELSE /\ Without(dev.serial, TickMarks) = Without(owed, TickMarks)
                               /\ Len(Without(dev.serial, Marks)) = Len(Without(owed, Marks))
    BY DEF SerialComplete, Chars
  <2>1. todo = <<>> /\ Rest = <<>>
    BY DEF Idle, Rest
  <2>2. CASE ~uart_present
    BY <2>2 DEF SentInv
  <2>3. CASE uart_present
    <3>1. Balanced(dev.serial, <<>>, <<>>, due["UART"])
      BY <2>1, <2>3, Zenon DEF SentInv
    <3>2. dev.serial \in Seq(Tokens)
      BY DEF ConsoleInv, TypeInv, IsDev
    <3>3. PICK a : a = Without(dev.serial, TickMarks)
      OBVIOUS
    <3>4. PICK b : b = Without(dev.serial, Marks)
      OBVIOUS
    <3>5. a \in Seq(Tokens) /\ b \in Seq(Tokens)
      BY <3>2, <3>3, <3>4, WithoutTokens, Zenon
    <3>6. /\ a \o (<<>> \o <<>>) = Without(Chars(due["UART"]), TickMarks)
          /\ Len(b) + (Len(<<>>) + Len(<<>>)) = Len(Without(Chars(due["UART"]), Marks))
      BY <3>1, <3>3, <3>4, LettersEmpty, Zenon DEF Balanced
    <3>7. a \o (<<>> \o <<>>) = a
      BY <3>5
    <3>8. Len(b) + (Len(<<>>) + Len(<<>>)) = Len(b)
      BY <3>5
    <3> QED BY <2>3, <3>3, <3>4, <3>6, <3>7, <3>8, Zenon
  <2> QED BY <2>2, <2>3
<1> QED BY <1>1, SentInit, SentNext, ConsoleInvariant, PTL DEF Spec
=============================================================================
