------------------------- MODULE ConsoleScreenProofs ------------------------
(***************************************************************************)
(* The proof that the screen shows the last lines of what was printed, for *)
(* every size of the screen and of printk's buffer, all texts and any      *)
(* number of messages.                                                     *)
(***************************************************************************)
EXTENDS ConsoleSerialProofs

(***************************************************************************)
(* One character on the screen.                                            *)
(***************************************************************************)

\* Six accesses and what they pass through.
Six(a1, a2, a3, a4, a5, a6, e0, e1, e2, e3, e4, e5, e6) ==
  /\ e1 = Done(a1, e0[1], e0[2]) /\ e2 = Done(a2, e1[1], e1[2]) /\ e3 = Done(a3, e2[1], e2[2])
  /\ e4 = Done(a4, e3[1], e3[2]) /\ e5 = Done(a5, e4[1], e4[2]) /\ e6 = Done(a6, e5[1], e5[2])

LEMMA LeadsSix ==
  ASSUME NEW a1, NEW a2, NEW a3, NEW a4, NEW a5, NEW a6,
         NEW e0, NEW e1, NEW e2, NEW e3, NEW e4, NEW e5, NEW e6
  PROVE  Six(a1, a2, a3, a4, a5, a6, e0, e1, e2, e3, e4, e5, e6)
         => Leads(<<a1, a2, a3, a4, a5, a6>>, e0, e6)
<1>0. SUFFICES ASSUME e1 = Done(a1, e0[1], e0[2]), e2 = Done(a2, e1[1], e1[2]), e3 = Done(a3, e2[1], e2[2]),
                     e4 = Done(a4, e3[1], e3[2]), e5 = Done(a5, e4[1], e4[2]), e6 = Done(a6, e5[1], e5[2])
               PROVE  Leads(<<a1, a2, a3, a4, a5, a6>>, e0, e6)
  BY Zenon DEF Six
<1>1. PICK t : t = <<a1, a2, a3, a4, a5, a6>>
  BY Zenon
<1>2. /\ Len(t) = 6 /\ t[1] = a1 /\ t[2] = a2 /\ t[3] = a3
      /\ t[4] = a4 /\ t[5] = a5 /\ t[6] = a6
  BY <1>1
<1>3. PICK f : f = [i \in 0 .. 6 |-> IF i = 0 THEN e0 ELSE IF i = 1 THEN e1 ELSE IF i = 2 THEN e2
                                     ELSE IF i = 3 THEN e3 ELSE IF i = 4 THEN e4
                                     ELSE IF i = 5 THEN e5 ELSE e6]
  BY Zenon
<1>4. f[0] = e0 /\ f[1] = e1 /\ f[2] = e2 /\ f[3] = e3 /\ f[4] = e4 /\ f[5] = e5 /\ f[6] = e6
  BY <1>3
<1>5. ASSUME NEW k \in 1 .. 6 PROVE f[k] = Done(t[k], f[k - 1][1], f[k - 1][2])
  <2>1. CASE k = 1
    <3>1. k - 1 = 0
      BY <2>1
    <3> QED BY <1>0, <1>2, <1>4, <2>1, <3>1, Zenon
  <2>2. CASE k = 2
    <3>1. k - 1 = 1
      BY <2>2
    <3> QED BY <1>0, <1>2, <1>4, <2>2, <3>1, Zenon
  <2>3. CASE k = 3
    <3>1. k - 1 = 2
      BY <2>3
    <3> QED BY <1>0, <1>2, <1>4, <2>3, <3>1, Zenon
  <2>4. CASE k = 4
    <3>1. k - 1 = 3
      BY <2>4
    <3> QED BY <1>0, <1>2, <1>4, <2>4, <3>1, Zenon
  <2>5. CASE k = 5
    <3>1. k - 1 = 4
      BY <2>5
    <3> QED BY <1>0, <1>2, <1>4, <2>5, <3>1, Zenon
  <2>6. CASE k = 6
    <3>1. k - 1 = 5
      BY <2>6
    <3> QED BY <1>0, <1>2, <1>4, <2>6, <3>1, Zenon
  <2>7. k = 1 \/ k = 2 \/ k = 3 \/ k = 4 \/ k = 5 \/ k = 6
    OBVIOUS
  <2> QED BY <2>1, <2>2, <2>3, <2>4, <2>5, <2>6, <2>7
<1>6. IsRun(f, t)
  BY <1>2, <1>5, Zenon DEF IsRun
<1> QED BY <1>1, <1>2, <1>4, <1>6, Zenon DEF Leads

\* The cells are numbered line by line.
LEMMA CellOf ==
  ASSUME NEW y \in 0 .. HEIGHT - 1, NEW x \in 0 .. WIDTH - 1
  PROVE  /\ y * WIDTH + x \in 0 .. Cells - 1 /\ Cells \in Nat /\ Cells - WIDTH \in Nat
         /\ y * WIDTH + x < Cells - WIDTH <=> y < HEIGHT - 1
         /\ (y * WIDTH + x) + WIDTH = (y + 1) * WIDTH + x
<1>0. WIDTH \in Nat \ {0} /\ HEIGHT \in Nat \ {0}
  BY ScreenAssumption
<1>1. PICK a \in Nat : a = y * WIDTH
  BY <1>0
<1>2. (y + 1) * WIDTH = a + WIDTH
  BY <1>0, <1>1
<1>3. PICK h \in Nat : HEIGHT = h + 1
  <2>1. HEIGHT - 1 \in Nat /\ HEIGHT = (HEIGHT - 1) + 1
    BY <1>0
  <2> QED BY <2>1
<1>4. PICK b \in Nat : b = h * WIDTH
  BY <1>0
<1>5. Cells = b + WIDTH
  BY <1>0, <1>3, <1>4 DEF Cells
<1>6. y \in Nat /\ y <= h
  BY <1>3
<1>7. a <= b
  BY <1>0, <1>1, <1>4, <1>6
<1>8. y < h => a + WIDTH <= b
  <2> SUFFICES ASSUME y < h PROVE a + WIDTH <= b
    OBVIOUS
  <2>1. y + 1 <= h
    BY <1>6
  <2>2. (y + 1) * WIDTH <= h * WIDTH
    BY <1>0, <1>6, <2>1
  <2> QED BY <1>2, <1>4, <2>2
<1>9. y = h => a = b
  BY <1>1, <1>4
<1>10. a + x \in 0 .. Cells - 1 /\ Cells \in Nat /\ Cells - WIDTH \in Nat
  BY <1>0, <1>5, <1>7
<1>11. a + x < Cells - WIDTH <=> y < HEIGHT - 1
  <2>1. CASE y < h
    BY <1>0, <1>3, <1>5, <1>8, <2>1
  <2>2. CASE y = h
    BY <1>0, <1>3, <1>5, <1>9, <2>2
  <2> QED BY <1>6, <2>1, <2>2
<1>12. (a + x) + WIDTH = (a + WIDTH) + x
  BY <1>0
<1> QED BY <1>1, <1>2, <1>10, <1>11, <1>12

LEMMA CellLess ==
  ASSUME NEW y \in Nat, NEW v \in Nat, NEW x \in 0 .. WIDTH - 1, NEW u \in 0 .. WIDTH - 1, y < v
  PROVE  y * WIDTH + x < v * WIDTH + u
<1>0. WIDTH \in Nat \ {0}
  BY ScreenAssumption
<1>1. PICK a \in Nat : a = y * WIDTH
  BY <1>0
<1>2. PICK b \in Nat : b = v * WIDTH
  BY <1>0
<1>3. (y + 1) * WIDTH <= b /\ (y + 1) * WIDTH = a + WIDTH
  BY <1>0, <1>1, <1>2
<1>4. a + x < b + u
  BY <1>0, <1>3
<1> QED BY <1>1, <1>2, <1>4

LEMMA CellDistinct ==
  ASSUME NEW y \in Nat, NEW v \in Nat, NEW x \in 0 .. WIDTH - 1, NEW u \in 0 .. WIDTH - 1
  PROVE  y * WIDTH + x = v * WIDTH + u <=> y = v /\ x = u
<1>0. WIDTH \in Nat \ {0}
  BY ScreenAssumption
<1>1. PICK a \in Nat : a = y * WIDTH
  BY <1>0
<1>2. PICK b \in Nat : b = v * WIDTH
  BY <1>0
<1>3. CASE y < v
  <2>1. a + x < b + u
    BY <1>1, <1>2, <1>3, CellLess
  <2> QED BY <1>1, <1>2, <1>3, <2>1
<1>4. CASE v < y
  <2>1. b + u < a + x
    BY <1>1, <1>2, <1>4, CellLess
  <2> QED BY <1>1, <1>2, <1>4, <2>1
<1>5. CASE y = v
  <2>1. a = b
    BY <1>1, <1>2, <1>5
  <2>2. a + x = b + u <=> x = u
    BY <2>1
  <2> QED BY <1>1, <1>2, <1>5, <2>2
<1> QED BY <1>3, <1>4, <1>5

Device(cells, x, y, color, serial) ==
  [cells |-> cells, cx |-> x, cy |-> y, color |-> color, serial |-> serial]
Registers(x, y, wrapped, position) ==
  [x |-> x, y |-> y, wrapped |-> wrapped, position |-> position]

\* The accesses of early_vga_putc, one by one.
SwitchLeaves(ch, c, x, y, k, s, r) ==
  Done(Access("switch", ch), Device(c, x, y, k, s), r) =
    <<Device(c, ColumnAfter(ch, x), RowAfter(ch, y), k, s),
      Registers(ColumnAfter(ch, x), RowAfter(ch, y), FALSE, y * WIDTH + x)>>

LEMMA SwitchDone ==
  ASSUME NEW ch, NEW c, NEW x, NEW y, NEW k, NEW s, NEW r
  PROVE  SwitchLeaves(ch, c, x, y, k, s, r)
<1>1. PICK d : d = Device(c, x, y, k, s)
  OBVIOUS
<1>2. d.cells = c /\ d.cx = x /\ d.cy = y /\ d.color = k /\ d.serial = s
  BY <1>1 DEF Device
<1>3. Done(Access("switch", ch), d, r) = Switch(ch, d, r)
  BY DEF Done, Access
<1>4. Switch(ch, d, r) =
        <<Device(c, ColumnAfter(ch, x), RowAfter(ch, y), k, s),
          Registers(ColumnAfter(ch, x), RowAfter(ch, y), FALSE, y * WIDTH + x)>>
  <2>1. PICK u : u = ColumnAfter(ch, x)
    OBVIOUS
  <2>2. PICK t : t = RowAfter(ch, y)
    OBVIOUS
  <2>3. Switch(ch, d, r) = <<[d EXCEPT !.cx = u, !.cy = t],
                             [x |-> u, y |-> t, wrapped |-> FALSE, position |-> d.cy * WIDTH + d.cx]>>
    BY <1>2, <2>1, <2>2 DEF Switch, ColumnAfter, RowAfter
  <2>4. [d EXCEPT !.cx = u, !.cy = t] = Device(c, u, t, k, s)
    <3>1. PICK z : z = [d EXCEPT !.cx = u, !.cy = t]
      OBVIOUS
    <3>2. z = [cells |-> z.cells, cx |-> z.cx, cy |-> z.cy, color |-> z.color, serial |-> z.serial]
      BY <1>1, <3>1, Zenon DEF Device
    <3>3. z.cells = c /\ z.cx = u /\ z.cy = t /\ z.color = k /\ z.serial = s
      BY <1>1, <3>1 DEF Device
    <3> QED BY <3>1, <3>2, <3>3 DEF Device
  <2> QED BY <1>2, <2>1, <2>2, <2>3, <2>4 DEF Registers
<1> QED BY <1>1, <1>3, <1>4, Zenon DEF SwitchLeaves

CellLeaves(ch, c, x, y, k, s, p) ==
  p \in 0 .. Cells =>
    Done(Access("cell", ch), Device(c, x, y, k, s), Registers(x, y, FALSE, p)) =
      <<Device(IF ch \in Special THEN c ELSE [c EXCEPT ![p] = <<ch, k>>], x, y, k, s),
        Registers(x, y, FALSE, p)>>

LEMMA CellDone ==
  ASSUME NEW ch, NEW c, NEW x, NEW y, NEW k, NEW s, NEW p
  PROVE  CellLeaves(ch, c, x, y, k, s, p)
<1>1. PICK d : d = Device(c, x, y, k, s)
  OBVIOUS
<1>2. d.cells = c /\ d.cx = x /\ d.cy = y /\ d.color = k /\ d.serial = s
  BY <1>1 DEF Device
<1>5. ASSUME p \in 0 .. Cells
      PROVE  Done(Access("cell", ch), d, Registers(x, y, FALSE, p)) =
               <<Device(IF ch \in Special THEN c ELSE [c EXCEPT ![p] = <<ch, k>>], x, y, k, s),
                 Registers(x, y, FALSE, p)>>
  <2>1. PICK g : g = Registers(x, y, FALSE, p)
    BY Zenon
  <2>2. g.position = p
    BY <2>1 DEF Registers
  <2>3. Done(Access("cell", ch), d, g) = PutCell(ch, d, g)
    BY DEF Done, Access
  <2>4. PutCell(ch, d, g) = IF ch \in Special THEN <<d, g>>
                            ELSE <<[d EXCEPT !.cells[p] = <<ch, k>>], g>>
    BY <1>2, <1>5, <2>2 DEF PutCell, Special
  <2>5. [d EXCEPT !.cells[p] = <<ch, k>>] = Device([c EXCEPT ![p] = <<ch, k>>], x, y, k, s)
    BY <1>1 DEF Device
  <2> QED BY <1>1, <2>1, <2>3, <2>4, <2>5, Zenon
<1> QED BY <1>1, <1>5, Zenon DEF CellLeaves

ColumnLeaves(ch, c, x, y, k, s, p) ==
  Done(Access("column", ch), Device(c, x, y, k, s), Registers(x, y, FALSE, p)) =
    <<Device(c, WrappedColumn(x), y, k, s),
      Registers(WrappedColumn(x), WrappedRow(x, y), x >= WIDTH, p)>>

LEMMA ColumnDone ==
  ASSUME NEW ch, NEW c, NEW x, NEW y, NEW k, NEW s, NEW p
  PROVE  ColumnLeaves(ch, c, x, y, k, s, p)
<1>1. PICK d : d = Device(c, x, y, k, s)
  OBVIOUS
<1>2. d.cells = c /\ d.cx = x /\ d.cy = y /\ d.color = k /\ d.serial = s
  BY <1>1 DEF Device
<1>6. Done(Access("column", ch), d, Registers(x, y, FALSE, p)) =
        <<Device(c, WrappedColumn(x), y, k, s),
          Registers(WrappedColumn(x), WrappedRow(x, y), x >= WIDTH, p)>>
  <2>1. PICK g : g = Registers(x, y, FALSE, p)
    BY Zenon
  <2>2. g.x = x /\ g.y = y
    BY <2>1 DEF Registers
  <2>3. Done(Access("column", ch), d, g) = WrapColumn(d, g)
    BY DEF Done, Access
  <2>4. CASE x >= WIDTH
    <3>1. WrapColumn(d, g) = <<[d EXCEPT !.cx = 0], [g EXCEPT !.x = 0, !.y = y + 1, !.wrapped = TRUE]>>
      BY <2>2, <2>4 DEF WrapColumn
    <3>2. [d EXCEPT !.cx = 0] = Device(c, 0, y, k, s)
      BY <1>1 DEF Device
    <3>3. [g EXCEPT !.x = 0, !.y = y + 1, !.wrapped = TRUE] = Registers(0, y + 1, TRUE, p)
      <4>1. PICK z : z = [g EXCEPT !.x = 0, !.y = y + 1, !.wrapped = TRUE]
        OBVIOUS
      <4>2. z = [x |-> z.x, y |-> z.y, wrapped |-> z.wrapped, position |-> z.position]
        BY <2>1, <4>1, Zenon DEF Registers
      <4>3. z.x = 0 /\ z.y = y + 1 /\ z.wrapped = TRUE /\ z.position = p
        BY <2>1, <4>1 DEF Registers
      <4> QED BY <4>1, <4>2, <4>3, Zenon DEF Registers
    <3>4. WrappedColumn(x) = 0 /\ WrappedRow(x, y) = y + 1 /\ (x >= WIDTH) = TRUE
      BY <2>4 DEF WrappedColumn, WrappedRow
    <3> QED BY <2>1, <2>3, <3>1, <3>2, <3>3, <3>4, Zenon
  <2>5. CASE ~(x >= WIDTH)
    <3>1. WrapColumn(d, g) = <<d, g>>
      BY <2>2, <2>5 DEF WrapColumn
    <3>2. WrappedColumn(x) = x /\ WrappedRow(x, y) = y /\ (x >= WIDTH) = FALSE
      BY <2>5 DEF WrappedColumn, WrappedRow
    <3> QED BY <1>1, <2>1, <2>3, <3>1, <3>2, Zenon
  <2> QED BY <2>4, <2>5, Zenon
<1> QED BY <1>1, <1>6, Zenon DEF ColumnLeaves

LEMMA RowDone ==
  ASSUME NEW ch, NEW c, NEW x, NEW y, NEW k, NEW s, NEW p, NEW w, NEW v
  PROVE  w \/ v = y =>
           Done(Access("row", ch), Device(c, x, y, k, s), Registers(x, v, w, p)) =
             <<Device(c, x, v, k, s), Registers(x, v, w, p)>>
<1>1. PICK d : d = Device(c, x, y, k, s)
  OBVIOUS
<1>2. d.cells = c /\ d.cx = x /\ d.cy = y /\ d.color = k /\ d.serial = s
  BY <1>1 DEF Device
<1>7. ASSUME w \/ v = y
      PROVE  Done(Access("row", ch), d, Registers(x, v, w, p)) =
               <<Device(c, x, v, k, s), Registers(x, v, w, p)>>
  <2>1. PICK g : g = Registers(x, v, w, p)
    OBVIOUS
  <2>2. g.y = v /\ g.wrapped = w
    BY <2>1 DEF Registers
  <2>3. Done(Access("row", ch), d, g) = WrapRow(d, g)
    BY DEF Done, Access
  <2>4. [d EXCEPT !.cy = v] = Device(c, x, v, k, s)
    BY <1>1 DEF Device
  <2>5. WrapRow(d, g) = <<IF w THEN [d EXCEPT !.cy = v] ELSE d, g>>
    BY <2>2, Zenon DEF WrapRow
  <2> QED BY <1>1, <1>7, <2>1, <2>3, <2>4, <2>5, Zenon
<1> QED BY <1>1, <1>7, Zenon

LEMMA ScrollDone ==
  ASSUME NEW ch, NEW c, NEW x, NEW y, NEW k, NEW s, NEW p, NEW w
  PROVE  Done(Access("scroll", ch), Device(c, x, y, k, s), Registers(x, y, w, p)) =
           IF y >= HEIGHT THEN <<Device(Shifted(c), x, y - 1, k, s), Registers(x, y - 1, w, p)>>
           ELSE <<Device(c, x, y, k, s), Registers(x, y, w, p)>>
<1>1. PICK d : d = Device(c, x, y, k, s)
  OBVIOUS
<1>2. d.cells = c /\ d.cx = x /\ d.cy = y /\ d.color = k /\ d.serial = s
  BY <1>1 DEF Device
<1>8. Done(Access("scroll", ch), d, Registers(x, y, w, p)) =
        IF y >= HEIGHT THEN <<Device(Shifted(c), x, y - 1, k, s), Registers(x, y - 1, w, p)>>
        ELSE <<d, Registers(x, y, w, p)>>
  <2>1. PICK g : g = Registers(x, y, w, p)
    OBVIOUS
  <2>2. g.x = x /\ g.y = y
    BY <2>1 DEF Registers
  <2>3. Done(Access("scroll", ch), d, g) = Scroll(d, g)
    BY DEF Done, Access
  <2>4. Scroll(d, g) = IF y >= HEIGHT
                       THEN <<[d EXCEPT !.cells = Shifted(c), !.cx = x, !.cy = y - 1], [g EXCEPT !.y = y - 1]>>
                       ELSE <<d, g>>
    BY <1>2, <2>2 DEF Scroll
  <2>5. [d EXCEPT !.cells = Shifted(c), !.cx = x, !.cy = y - 1] = Device(Shifted(c), x, y - 1, k, s)
    <3>1. PICK z : z = [d EXCEPT !.cells = Shifted(c), !.cx = x, !.cy = y - 1]
      OBVIOUS
    <3>2. z = [cells |-> z.cells, cx |-> z.cx, cy |-> z.cy, color |-> z.color, serial |-> z.serial]
      BY <1>1, <3>1, Zenon DEF Device
    <3>3. z.cells = Shifted(c) /\ z.cx = x /\ z.cy = y - 1 /\ z.color = k /\ z.serial = s
      BY <1>1, <3>1 DEF Device
    <3> QED BY <3>1, <3>2, <3>3 DEF Device
  <2>6. [g EXCEPT !.y = y - 1] = Registers(x, y - 1, w, p)
    BY <2>1 DEF Registers
  <2> QED BY <2>1, <2>3, <2>4, <2>5, <2>6, Zenon
<1> QED BY <1>1, <1>8, Zenon

LEMMA CursorDone ==
  ASSUME NEW ch, NEW c, NEW x, NEW y, NEW k, NEW s, NEW p, NEW w
  PROVE  Done(Access("cursor", ch), Device(c, x, y, k, s), Registers(x, y, w, p)) =
           <<Device(c, x, y, k, s), Registers(x, y, w, p)>>
<1>1. PICK d : d = Device(c, x, y, k, s)
  OBVIOUS
<1>2. d.cells = c /\ d.cx = x /\ d.cy = y /\ d.color = k /\ d.serial = s
  BY <1>1 DEF Device
<1>9. Done(Access("cursor", ch), d, Registers(x, y, w, p)) = <<d, Registers(x, y, w, p)>>
  <2>1. PICK g : g = Registers(x, y, w, p)
    OBVIOUS
  <2>2. g.x = x /\ g.y = y
    BY <2>1 DEF Registers
  <2>3. Done(Access("cursor", ch), d, g) = set_cursor(d, g)
    BY DEF Done, Access
  <2>4. set_cursor(d, g) = <<[d EXCEPT !.cx = x, !.cy = y], g>>
    BY <2>2 DEF set_cursor
  <2>5. [d EXCEPT !.cx = x, !.cy = y] = d
    <3>1. PICK z : z = [d EXCEPT !.cx = x, !.cy = y]
      OBVIOUS
    <3>2. z = [cells |-> z.cells, cx |-> z.cx, cy |-> z.cy, color |-> z.color, serial |-> z.serial]
      BY <1>1, <3>1, Zenon DEF Device
    <3>3. z.cells = c /\ z.cx = x /\ z.cy = y /\ z.color = k /\ z.serial = s
      BY <1>1, <3>1 DEF Device
    <3> QED BY <3>1, <3>2, <3>3, <1>1 DEF Device
  <2> QED BY <2>1, <2>3, <2>4, <2>5, Zenon
<1> QED BY <1>1, <1>9, Zenon

\* The cells once ch has been put at the cursor.
Inked(d, ch) == IF ch \in Special THEN d.cells ELSE [d.cells EXCEPT ![d.cy * WIDTH + d.cx] = <<ch, d.color>>]

\* z is the device d after early_vga_putc(ch).
Shown(d, ch, z) ==
  LET x == ColumnAfter(ch, d.cx)
      y == WrappedRow(x, RowAfter(ch, d.cy))
  IN  /\ IsDev(z) /\ z.color = d.color /\ z.cx = WrappedColumn(x)
      /\ z.cy = IF y >= HEIGHT THEN y - 1 ELSE y
      /\ z.cells = IF y >= HEIGHT THEN Shifted(Inked(d, ch)) ELSE Inked(d, ch)

LEMMA PutcShows ==
  ASSUME NEW ch, NEW d, NEW r, IsDev(d), OnScreen(d)
  PROVE  \E z, g : Leads(early_vga_putc(ch), <<d, r>>, <<z, g>>) /\ g \in Regs /\ Shown(d, ch, z)
<1>0. WIDTH \in Nat \ {0} /\ HEIGHT \in Nat \ {0}
  BY ScreenAssumption
<1>1. d.cx \in 0 .. WIDTH - 1 /\ d.cy \in 0 .. HEIGHT - 1 /\ d.serial \in Seq(Tokens)
  BY <1>0 DEF IsDev, OnScreen
<1>2. PICK p : p = d.cy * WIDTH + d.cx
  OBVIOUS
<1>3. p \in 0 .. Cells /\ p \in Nat
  <2>1. p \in 0 .. Cells - 1 /\ Cells \in Nat
    BY <1>1, <1>2, CellOf
  <2> QED BY <2>1
<1>4. PICK x : x = ColumnAfter(ch, d.cx)
  OBVIOUS
<1>5. PICK y : y = RowAfter(ch, d.cy)
  OBVIOUS
<1>6. x \in 0 .. WIDTH
  BY <1>1, <1>4, ColumnOf
<1>7. y \in Nat
  BY <1>1, <1>5 DEF RowAfter
<1>8. PICK u : u = WrappedColumn(x)
  OBVIOUS
<1>9. PICK v : v = WrappedRow(x, y)
  OBVIOUS
<1>10. u \in Nat /\ v \in Nat
  BY <1>0, <1>6, <1>7, <1>8, <1>9 DEF WrappedColumn, WrappedRow
<1>11. PICK w \in BOOLEAN : w = (x >= WIDTH)
  <2>1. (x >= WIDTH) \in BOOLEAN
    OBVIOUS
  <2> QED BY <2>1, Zenon
<1>12. w \/ v = y
  BY <1>9, <1>11, Zenon DEF WrappedRow
<1>13. PICK c : c = d.cells
  OBVIOUS
<1>14. PICK k : k = d.color
  OBVIOUS
<1>15. PICK s : s = d.serial
  OBVIOUS
<1>16. PICK i : i = IF ch \in Special THEN c ELSE [c EXCEPT ![p] = <<ch, k>>]
  BY Zenon
<1>17. d = Device(c, d.cx, d.cy, k, s)
  BY <1>13, <1>14, <1>15 DEF IsDev, Device
<1>18. PICK e1 : e1 = <<Device(c, x, y, k, s), Registers(x, y, FALSE, p)>>
  BY Zenon
<1>19. PICK e2 : e2 = <<Device(i, x, y, k, s), Registers(x, y, FALSE, p)>>
  BY Zenon
<1>20. PICK e3 : e3 = <<Device(i, u, y, k, s), Registers(u, v, w, p)>>
  BY Zenon
<1>21. PICK e4 : e4 = <<Device(i, u, v, k, s), Registers(u, v, w, p)>>
  BY Zenon
<1>22. PICK h : h = IF v >= HEIGHT THEN v - 1 ELSE v
  OBVIOUS
<1>23. PICK j : j = IF v >= HEIGHT THEN Shifted(i) ELSE i
  OBVIOUS
<1>24. PICK e5 : e5 = <<Device(j, u, h, k, s), Registers(u, h, w, p)>>
  BY Zenon
<1>25. h \in Nat
  BY <1>0, <1>10, <1>22
<1>26. Done(Access("switch", ch), d, r) = e1
  <2>1. Done(Access("switch", ch), Device(c, d.cx, d.cy, k, s), r) =
          <<Device(c, ColumnAfter(ch, d.cx), RowAfter(ch, d.cy), k, s),
            Registers(ColumnAfter(ch, d.cx), RowAfter(ch, d.cy), FALSE, d.cy * WIDTH + d.cx)>>
    <3>1. SwitchLeaves(ch, c, d.cx, d.cy, k, s, r)
      BY SwitchDone, Zenon
    <3> QED BY <3>1, Zenon DEF SwitchLeaves
  <2> QED BY <1>2, <1>4, <1>5, <1>17, <1>18, <2>1, Zenon
<1>27. Done(Access("cell", ch), e1[1], e1[2]) = e2
  <2>1. e1[1] = Device(c, x, y, k, s) /\ e1[2] = Registers(x, y, FALSE, p)
    BY <1>18
  <2>2. Done(Access("cell", ch), Device(c, x, y, k, s), Registers(x, y, FALSE, p)) =
          <<Device(IF ch \in Special THEN c ELSE [c EXCEPT ![p] = <<ch, k>>], x, y, k, s),
            Registers(x, y, FALSE, p)>>
    <3>1. CellLeaves(ch, c, x, y, k, s, p)
      BY CellDone, Zenon
    <3> QED BY <1>3, <3>1, Zenon DEF CellLeaves
  <2> QED BY <1>3, <1>16, <1>19, <2>1, <2>2, Zenon
<1>28. Done(Access("column", ch), e2[1], e2[2]) = e3
  <2>1. e2[1] = Device(i, x, y, k, s) /\ e2[2] = Registers(x, y, FALSE, p)
    BY <1>19
  <2>2. Done(Access("column", ch), Device(i, x, y, k, s), Registers(x, y, FALSE, p)) =
          <<Device(i, WrappedColumn(x), y, k, s),
            Registers(WrappedColumn(x), WrappedRow(x, y), x >= WIDTH, p)>>
    <3>1. ColumnLeaves(ch, i, x, y, k, s, p)
      BY ColumnDone, Zenon
    <3> QED BY <3>1, Zenon DEF ColumnLeaves
  <2> QED BY <1>8, <1>9, <1>11, <1>20, <2>1, <2>2, Zenon
<1>29. Done(Access("row", ch), e3[1], e3[2]) = e4
  <2>1. e3[1] = Device(i, u, y, k, s) /\ e3[2] = Registers(u, v, w, p)
    BY <1>20
  <2>2. Done(Access("row", ch), Device(i, u, y, k, s), Registers(u, v, w, p)) =
          <<Device(i, u, v, k, s), Registers(u, v, w, p)>>
    BY <1>12, RowDone
  <2> QED BY <1>12, <1>21, <2>1, <2>2, Zenon
<1>30. Done(Access("scroll", ch), e4[1], e4[2]) = e5
  <2>1. e4[1] = Device(i, u, v, k, s) /\ e4[2] = Registers(u, v, w, p)
    BY <1>21
  <2>2. Done(Access("scroll", ch), Device(i, u, v, k, s), Registers(u, v, w, p)) =
          IF v >= HEIGHT THEN <<Device(Shifted(i), u, v - 1, k, s), Registers(u, v - 1, w, p)>>
          ELSE <<Device(i, u, v, k, s), Registers(u, v, w, p)>>
    BY ScrollDone
  <2> QED BY <1>22, <1>23, <1>24, <2>1, <2>2, Zenon
<1>31. Done(Access("cursor", ch), e5[1], e5[2]) = e5
  <2>1. e5[1] = Device(j, u, h, k, s) /\ e5[2] = Registers(u, h, w, p)
    BY <1>24
  <2>2. Done(Access("cursor", ch), Device(j, u, h, k, s), Registers(u, h, w, p)) =
          <<Device(j, u, h, k, s), Registers(u, h, w, p)>>
    BY CursorDone
  <2> QED BY <1>24, <2>1, <2>2, Zenon
<1>32. PICK e0 : e0 = <<d, r>>
  BY Zenon
<1>33. e1 = Done(Access("switch", ch), e0[1], e0[2])
  <2>1. e0[1] = d /\ e0[2] = r
    BY <1>32
  <2> QED BY <1>26, <2>1, Zenon
<1>34. Leads(early_vga_putc(ch), e0, e5)
  <2>1. Six(Access("switch", ch), Access("cell", ch), Access("column", ch), Access("row", ch),
            Access("scroll", ch), Access("cursor", ch), e0, e1, e2, e3, e4, e5, e5)
    BY <1>27, <1>28, <1>29, <1>30, <1>31, <1>33, Zenon DEF Six
  <2> QED BY <2>1, LeadsSix, Zenon DEF early_vga_putc
<1>35. PICK z : z = Device(j, u, h, k, s)
  OBVIOUS
<1>36. PICK g : g = Registers(u, h, w, p)
  OBVIOUS
<1>37. g \in Regs
  BY <1>3, <1>10, <1>25, <1>36 DEF Registers, Regs
<1>38. z.cells = j /\ z.cx = u /\ z.cy = h /\ z.color = k /\ z.serial = s
  BY <1>35 DEF Device
<1>39. IsDev(z)
  <2>1. z = [cells |-> z.cells, cx |-> z.cx, cy |-> z.cy, color |-> z.color, serial |-> z.serial]
    BY <1>35, <1>38, Zenon DEF Device
  <2> QED BY <1>1, <1>10, <1>15, <1>25, <1>38, <2>1 DEF IsDev
<1>40. Inked(d, ch) = i
  BY <1>2, <1>13, <1>14, <1>16, Zenon DEF Inked
<1>41. Shown(d, ch, z)
  BY <1>4, <1>5, <1>8, <1>9, <1>14, <1>22, <1>23, <1>38, <1>39, <1>40, Zenon DEF Shown
<1> QED BY <1>24, <1>32, <1>34, <1>35, <1>36, <1>37, <1>41, Zenon

\* The device shows the paper.
Top(p) == IF p.row >= HEIGHT THEN p.row - HEIGHT + 1 ELSE 0
Screen(d, p) ==
  /\ IsDev(d) /\ IsPaper(p) /\ d.cells = [i \in 0 .. Cells |-> d.cells[i]]
  /\ Shows(d, p)

LEMMA ScreenIs ==
  ASSUME NEW d, NEW p
  PROVE  Shows(d, p) <=> /\ d.cx = p.col /\ d.cy = p.row - Top(p) /\ d.cells[Cells] = Blank
                         /\ \A y \in 0 .. HEIGHT - 1, x \in 0 .. WIDTH - 1 :
                              d.cells[y * WIDTH + x] = On(p, Top(p) + y, x)
BY Zenon DEF Shows, Top

LEMMA ScreenPlace ==
  ASSUME NEW d, NEW p, Screen(d, p)
  PROVE  /\ Top(p) \in Nat /\ d.cx \in 0 .. WIDTH - 1 /\ d.cy \in 0 .. HEIGHT - 1
         /\ d.cx = p.col /\ p.row = Top(p) + d.cy /\ OnScreen(d)
<1>0. WIDTH \in Nat \ {0} /\ HEIGHT \in Nat \ {0}
  BY ScreenAssumption
<1>1. p.row \in Nat /\ p.col \in 0 .. WIDTH - 1
  BY DEF Screen, IsPaper
<1>2. d.cx = p.col /\ d.cy = p.row - Top(p)
  BY ScreenIs, Zenon DEF Screen
<1>3. Top(p) \in Nat /\ p.row - Top(p) \in 0 .. HEIGHT - 1 /\ p.row = Top(p) + (p.row - Top(p))
  BY <1>0, <1>1 DEF Top
<1> QED BY <1>0, <1>1, <1>2, <1>3 DEF OnScreen

LEMMA CharShown ==
  ASSUME NEW ch, NEW d, NEW p, NEW e, NEW q, Screen(d, p), Shown(d, ch, e), Typed(p, ch, d.color, q)
  PROVE  Screen(e, q)
<1>0. WIDTH \in Nat \ {0} /\ HEIGHT \in Nat \ {0} /\ Cells \in Nat /\ Cells - WIDTH \in Nat
  <2>1. WIDTH \in Nat \ {0} /\ HEIGHT \in Nat \ {0}
    BY ScreenAssumption
  <2>2. PICK o : o = 0
    OBVIOUS
  <2>3. o \in 0 .. HEIGHT - 1 /\ o \in 0 .. WIDTH - 1
    BY <2>1, <2>2
  <2> QED BY <2>1, <2>3, CellOf, Zenon
<1>1. PICK t \in Nat : t = Top(p)
  BY ScreenPlace
<1>2. PICK a \in 0 .. WIDTH - 1 : a = d.cx
  BY ScreenPlace
<1>3. PICK b \in 0 .. HEIGHT - 1 : b = d.cy
  BY ScreenPlace
<1>4. p.col = a /\ p.row = t + b
  BY <1>1, <1>2, <1>3, ScreenPlace
<1>5. PICK x : x = ColumnAfter(ch, a)
  OBVIOUS
<1>6. x \in 0 .. WIDTH /\ (ch = "\n" => x = 0)
  <2>1. ch = "\n" => x = 0
    BY <1>5 DEF ColumnAfter
  <2> QED BY <1>5, <2>1, ColumnOf
<1>7. PICK y : y = WrappedRow(x, RowAfter(ch, b))
  OBVIOUS
<1>8. y \in b .. HEIGHT /\ WrappedRow(x, RowAfter(ch, t + b)) = t + y
  <2>1. CASE ch = "\n"
    <3>1. x = 0 /\ RowAfter(ch, b) = b + 1 /\ RowAfter(ch, t + b) = (t + b) + 1
      BY <1>6, <2>1 DEF RowAfter
    <3>2. y = b + 1 /\ WrappedRow(x, RowAfter(ch, t + b)) = (t + b) + 1
      BY <1>0, <1>7, <3>1 DEF WrappedRow
    <3> QED BY <1>0, <3>2
  <2>2. CASE ch # "\n"
    <3>1. RowAfter(ch, b) = b /\ RowAfter(ch, t + b) = t + b
      BY <2>2 DEF RowAfter
    <3>2. CASE x >= WIDTH
      <4>1. y = b + 1 /\ WrappedRow(x, RowAfter(ch, t + b)) = (t + b) + 1
        BY <1>7, <3>1, <3>2 DEF WrappedRow
      <4> QED BY <1>0, <4>1
    <3>3. CASE ~(x >= WIDTH)
      <4>1. y = b /\ WrappedRow(x, RowAfter(ch, t + b)) = t + b
        BY <1>7, <3>1, <3>3 DEF WrappedRow
      <4> QED BY <1>0, <4>1
    <3> QED BY <3>2, <3>3
  <2> QED BY <2>1, <2>2
<1>9. PICK c : c = d.cells
  OBVIOUS
<1>10. PICK k : k = d.color
  OBVIOUS
<1>11. PICK i : i = Inked(d, ch)
  OBVIOUS
<1>12. PICK g : g = b * WIDTH + a
  OBVIOUS
<1>13. i = IF ch \in Special THEN c ELSE [c EXCEPT ![g] = <<ch, k>>]
  BY <1>2, <1>3, <1>9, <1>10, <1>11, <1>12, Zenon DEF Inked
<1>14. c = [n \in 0 .. Cells |-> c[n]]
  BY <1>9, Zenon DEF Screen
<1>15. g \in 0 .. Cells - 1
  BY <1>12, CellOf
<1>16. /\ i = [n \in 0 .. Cells |-> i[n]]
       /\ \A n \in 0 .. Cells : i[n] = IF ch \notin Special /\ n = g THEN <<ch, k>> ELSE c[n]
  <2>1. CASE ch \in Special
    <3>1. i = c
      BY <1>13, <2>1
    <3> QED BY <1>14, <2>1, <3>1, Zenon
  <2>2. CASE ch \notin Special
    <3>1. i = [c EXCEPT ![g] = <<ch, k>>]
      BY <1>13, <2>2
    <3>2. DOMAIN c = 0 .. Cells
      BY <1>14, Zenon
    <3>3. i = [n \in 0 .. Cells |-> IF n = g THEN <<ch, k>> ELSE c[n]]
      BY <3>1, <3>2, Zenon
    <3>4. \A n \in 0 .. Cells : i[n] = IF n = g THEN <<ch, k>> ELSE c[n]
      BY <3>3, Zenon
    <3>5. i = [n \in 0 .. Cells |-> i[n]]
      BY <3>3, <3>4, Zenon
    <3> QED BY <2>2, <3>4, <3>5, Zenon
  <2> QED BY <2>1, <2>2
<1>17. /\ c[Cells] = Blank
       /\ \A v \in 0 .. HEIGHT - 1, u \in 0 .. WIDTH - 1 : c[v * WIDTH + u] = On(p, t + v, u)
  BY <1>1, <1>9, ScreenIs, Zenon DEF Screen
<1>18. i[Cells] = Blank
  <2>1. Cells \in 0 .. Cells /\ Cells # g
    BY <1>0, <1>15
  <2> QED BY <1>16, <1>17, <2>1, Zenon
<1>19. \A v, u \in Nat : On(q, v, u) = IF ch \notin Special /\ v = t + b /\ u = a THEN <<ch, k>> ELSE On(p, v, u)
  BY <1>4, <1>10, Zenon DEF Typed
<1>20. ASSUME NEW v \in 0 .. HEIGHT - 1, NEW u \in 0 .. WIDTH - 1
       PROVE  i[v * WIDTH + u] = On(q, t + v, u)
  <2>1. PICK n : n = v * WIDTH + u
    OBVIOUS
  <2>2. n \in 0 .. Cells
    <3>1. n \in 0 .. Cells - 1
      BY <2>1, CellOf
    <3> QED BY <1>0, <3>1
  <2>3. v \in Nat /\ b \in Nat /\ u \in Nat /\ t + v \in Nat
    OBVIOUS
  <2>4. n = g <=> v = b /\ u = a
    BY <1>12, <2>1, <2>3, CellDistinct
  <2>5. t + v = t + b <=> v = b
    BY <2>3
  <2>6. i[n] = IF ch \notin Special /\ v = b /\ u = a THEN <<ch, k>> ELSE c[n]
    BY <1>16, <2>2, <2>4, Zenon
  <2>7. c[n] = On(p, t + v, u)
    BY <1>17, <2>1, Zenon
  <2>8. On(q, t + v, u) = IF ch \notin Special /\ v = b /\ u = a THEN <<ch, k>> ELSE On(p, t + v, u)
    BY <1>19, <2>3, <2>5, Zenon
  <2> QED BY <2>1, <2>6, <2>7, <2>8, Zenon
<1>21. /\ IsDev(e) /\ e.cx = WrappedColumn(x) /\ e.cy = (IF y >= HEIGHT THEN y - 1 ELSE y)
       /\ e.cells = (IF y >= HEIGHT THEN Shifted(i) ELSE i)
  BY <1>2, <1>3, <1>5, <1>7, <1>11, Zenon DEF Shown
<1>22. IsPaper(q) /\ q.row = t + y /\ q.col = WrappedColumn(x)
  BY <1>4, <1>5, <1>8, Zenon DEF Typed
<1>23. CASE y >= HEIGHT
  <2>1. y = HEIGHT /\ Top(q) = t + 1 /\ e.cy = q.row - Top(q)
    BY <1>0, <1>8, <1>21, <1>22, <1>23 DEF Top
  <2>2. PICK s : s = Shifted(i)
    OBVIOUS
  <2>3. s = [n \in 0 .. Cells |-> IF n < Cells - WIDTH THEN i[n + WIDTH]
                                  ELSE IF n < Cells THEN Blank ELSE i[n]]
    BY <2>2, Zenon DEF Shifted
  <2>4. \A n \in 0 .. Cells : s[n] = IF n < Cells - WIDTH THEN i[n + WIDTH]
                                     ELSE IF n < Cells THEN Blank ELSE i[n]
    BY <2>3, Zenon
  <2>5. s = [n \in 0 .. Cells |-> s[n]]
    BY <2>3, <2>4, Zenon
  <2>6. s[Cells] = Blank
    <3>1. Cells \in 0 .. Cells /\ ~(Cells < Cells - WIDTH) /\ ~(Cells < Cells)
      BY <1>0
    <3> QED BY <1>18, <2>4, <3>1, Zenon
  <2>7. ASSUME NEW v \in 0 .. HEIGHT - 1, NEW u \in 0 .. WIDTH - 1
        PROVE  s[v * WIDTH + u] = On(q, (t + 1) + v, u)
    <3>1. PICK n : n = v * WIDTH + u
      OBVIOUS
    <3>2. /\ n \in 0 .. Cells - 1 /\ (n < Cells - WIDTH <=> v < HEIGHT - 1)
          /\ n + WIDTH = (v + 1) * WIDTH + u
      BY <3>1, CellOf
    <3>3. n \in 0 .. Cells /\ n < Cells /\ v \in Nat /\ u \in Nat
      BY <1>0, <3>2
    <3>4. CASE v < HEIGHT - 1
      <4>1. v + 1 \in 0 .. HEIGHT - 1 /\ t + (v + 1) = (t + 1) + v
        BY <1>0, <3>4
      <4>2. s[n] = i[n + WIDTH]
        BY <2>4, <3>2, <3>3, <3>4, Zenon
      <4>3. i[(v + 1) * WIDTH + u] = On(q, t + (v + 1), u)
        BY <1>20, <4>1, Zenon
      <4> QED BY <3>1, <3>2, <4>1, <4>2, <4>3, Zenon
    <3>5. CASE ~(v < HEIGHT - 1)
      <4>1. v = HEIGHT - 1 /\ (t + 1) + v = t + HEIGHT /\ t + HEIGHT \in Nat
        BY <1>0, <3>5
      <4>2. s[n] = Blank
        BY <2>4, <3>2, <3>3, <3>5, Zenon
      <4>3. t + HEIGHT # t + b /\ t + HEIGHT > p.row
        BY <1>0, <1>4
      <4>4. On(p, t + HEIGHT, u) = Blank
        BY <3>3, <4>1, <4>3, Zenon DEF Screen, IsPaper
      <4>5. On(q, t + HEIGHT, u) = Blank
        BY <1>19, <3>3, <4>1, <4>3, <4>4, Zenon
      <4> QED BY <3>1, <4>1, <4>2, <4>5, Zenon
    <3> QED BY <3>4, <3>5
  <2>8. e.cells = s
    BY <1>21, <1>23, <2>2, Zenon
  <2>9. Shows(e, q)
    BY <1>21, <1>22, <2>1, <2>6, <2>7, <2>8, ScreenIs, Zenon
  <2> QED BY <1>21, <1>22, <2>5, <2>8, <2>9, Zenon DEF Screen
<1>24. CASE ~(y >= HEIGHT)
  <2>1. Top(q) = t /\ e.cy = q.row - Top(q)
    <3>1. CASE p.row >= HEIGHT
      <4>1. t = p.row - HEIGHT + 1
        BY <1>1, <3>1 DEF Top
      <4>2. b = HEIGHT - 1 /\ y = HEIGHT - 1
        BY <1>0, <1>4, <1>8, <1>24, <4>1
      <4> QED BY <1>0, <1>4, <1>21, <1>22, <1>24, <3>1, <4>1, <4>2 DEF Top
    <3>2. CASE ~(p.row >= HEIGHT)
      <4>1. t = 0
        BY <1>1, <3>2 DEF Top
      <4> QED BY <1>0, <1>8, <1>21, <1>22, <1>24, <4>1 DEF Top
    <3> QED BY <3>1, <3>2
  <2>2. e.cells = i
    BY <1>21, <1>24, Zenon
  <2>3. Shows(e, q)
    BY <1>18, <1>20, <1>21, <1>22, <2>1, <2>2, ScreenIs, Zenon
  <2> QED BY <1>16, <1>21, <1>22, <2>2, <2>3, Zenon DEF Screen
<1> QED BY <1>23, <1>24

(***************************************************************************)
(* What a message prints.                                                  *)
(***************************************************************************)

Strokes == Tokens \X Nat

\* The screen shows the text q, and c is the colour to write in; e is dev and regs.
State(e, q, c) ==
  /\ e = <<e[1], e[2]>> /\ e[2] \in Regs /\ e[1].color = c
  /\ Screen(e[1], Paper(q))

\* The accesses t add x to what the screen shows, with the colour c before and b after.
Prints(t, x, c, b) ==
  \A e : \A q \in Seq(Strokes) :
    State(e, q, c) => \E z : Leads(t, e, z) /\ State(z, q \o x, b)

LEMMA PrintsEmpty == \A c : Prints(<<>>, <<>>, c, c)
<1> SUFFICES ASSUME NEW c, NEW e, NEW q \in Seq(Strokes), State(e, q, c)
             PROVE  \E z : Leads(<<>>, e, z) /\ State(z, q \o <<>>, c)
  BY DEF Prints
<1>1. q \o <<>> = q
  BY ConcatEmpty
<1>2. Leads(<<>>, e, e)
  BY LeadsEmpty
<1> QED BY <1>1, <1>2

LEMMA PrintsConcat ==
  ASSUME NEW s \in Seq(Accesses), NEW t \in Seq(Accesses), NEW x \in Seq(Strokes), NEW y \in Seq(Strokes),
         NEW a, NEW b, NEW c, Prints(s, x, a, b), Prints(t, y, b, c)
  PROVE  Prints(s \o t, x \o y, a, c)
<1> SUFFICES ASSUME NEW e, NEW q \in Seq(Strokes), State(e, q, a)
             PROVE  \E z : Leads(s \o t, e, z) /\ State(z, q \o (x \o y), c)
  BY DEF Prints
<1>1. PICK m : Leads(s, e, m) /\ State(m, q \o x, b)
  BY Zenon DEF Prints
<1>2. q \o x \in Seq(Strokes)
  BY Concat
<1>3. PICK z : Leads(t, m, z) /\ State(z, (q \o x) \o y, c)
  BY <1>1, <1>2, Zenon DEF Prints
<1>4. (q \o x) \o y = q \o (x \o y)
  BY Associative
<1>5. Leads(s \o t, e, z)
  BY <1>1, <1>3, LeadsConcat
<1> QED BY <1>3, <1>4, <1>5

LEMMA PrintsJoined ==
  ASSUME NEW ss \in Seq(Seq(Accesses)), NEW xx \in Seq(Seq(Strokes)), Len(ss) = Len(xx), NEW c,
         \A k \in 1 .. Len(ss) : Prints(ss[k], xx[k], c, c)
  PROVE  Prints(Joined(ss), Joined(xx), c, c)
<1>1. PICK r : r = {p \in Seq(Accesses) \X Seq(Strokes) : Prints(p[1], p[2], c, c)}
  BY Zenon
<1>2. \A a \in Seq(Accesses), b \in Seq(Strokes) : <<a, b>> \in r <=> Prints(a, b, c, c)
  BY <1>1
<1>3. <<<<>>, <<>>>> \in r
  <2>1. <<>> \in Seq(Accesses) /\ <<>> \in Seq(Strokes)
    OBVIOUS
  <2> QED BY <1>2, <2>1, PrintsEmpty, Zenon
<1>4. ASSUME NEW a \in Seq(Accesses), NEW s \in Seq(Accesses), NEW b \in Seq(Strokes), NEW d \in Seq(Strokes),
             <<a, b>> \in r, <<s, d>> \in r
      PROVE  <<a \o s, b \o d>> \in r
  <2>1. Prints(a, b, c, c) /\ Prints(s, d, c, c)
    BY <1>2, <1>4, Zenon
  <2>2. a \o s \in Seq(Accesses) /\ b \o d \in Seq(Strokes)
    BY Concat
  <2>3. Prints(a \o s, b \o d, c, c)
    BY <2>1, PrintsConcat
  <2> QED BY <1>2, <2>2, <2>3, Zenon
<1>5. \A k \in 1 .. Len(ss) : <<ss[k], xx[k]>> \in r
  <2>1. \A k \in 1 .. Len(ss) : ss[k] \in Seq(Accesses)
    BY Elements
  <2>2. \A k \in 1 .. Len(ss) : xx[k] \in Seq(Strokes)
    BY Elements
  <2> QED BY <1>2, <2>1, <2>2, Zenon
<1>6. <<Joined(ss), Joined(xx)>> \in r
  BY <1>3, <1>4, <1>5, JoinedRelated, Zenon
<1>7. Joined(ss) \in Seq(Accesses) /\ Joined(xx) \in Seq(Strokes)
  BY JoinedConcat
<1> QED BY <1>2, <1>6, <1>7, Zenon

\* A character.
LEMMA PutcPrints ==
  ASSUME NEW ch \in Tokens, NEW level \in Nat
  PROVE  Prints(early_vga_putc(ch), <<<<ch, level>>>>, get_level_color(level), get_level_color(level))
<1>0. PICK c : c = get_level_color(level)
  OBVIOUS
<1> SUFFICES ASSUME NEW e, NEW q \in Seq(Strokes), State(e, q, c)
             PROVE  \E z : Leads(early_vga_putc(ch), e, z) /\ State(z, q \o <<<<ch, level>>>>, c)
  BY <1>0, Zenon DEF Prints
<1>1. PICK d : d = e[1]
  OBVIOUS
<1>2. PICK r : r = e[2]
  OBVIOUS
<1>3. PICK p : p = Paper(q)
  OBVIOUS
<1>4. e = <<d, r>> /\ r \in Regs /\ d.color = c /\ Screen(d, p)
  BY <1>1, <1>2, <1>3, Zenon DEF State
<1>5. IsDev(d) /\ OnScreen(d) /\ IsPaper(p)
  BY <1>4, ScreenPlace DEF Screen
<1>6. PICK y, g : Leads(early_vga_putc(ch), <<d, r>>, <<y, g>>) /\ g \in Regs /\ Shown(d, ch, y)
  BY <1>5, PutcShows, Zenon
<1>7. PICK k : k = <<ch, level>>
  BY Zenon
<1>8. k \in Strokes /\ k[1] = ch /\ k[2] = level
  BY <1>7 DEF Strokes
<1>9. Paper(Append(q, k)) = Type(p, k)
  BY <1>3, <1>8, PaperAppend
<1>10. q \o <<k>> = Append(q, k)
  BY <1>8
<1>11. Typed(p, k[1], get_level_color(k[2]), Type(p, k))
  BY <1>5, TypeIs
<1>12. Typed(p, ch, d.color, Type(p, k))
  BY <1>0, <1>4, <1>8, <1>11, Zenon
<1>13. Screen(y, Type(p, k))
  BY <1>4, <1>6, <1>12, CharShown
<1>14. y.color = c
  BY <1>4, <1>6, Zenon DEF Shown
<1>15. PICK z : z = <<y, g>>
  BY Zenon
<1>16. z[1] = y /\ z[2] = g
  BY <1>15
<1>17. State(z, q \o <<k>>, c)
  BY <1>6, <1>9, <1>10, <1>13, <1>14, <1>15, <1>16, Zenon DEF State
<1> QED BY <1>4, <1>6, <1>7, <1>15, <1>17, Zenon

\* An access that leaves the cells and the cursor alone.
LEMMA QuietPrints ==
  ASSUME NEW a, NEW c, NEW b,
         \A d, r : IsDev(d) /\ r \in Regs /\ d.color = c =>
           \E y : /\ Done(a, d, r) = <<y, r>> /\ IsDev(y) /\ y.color = b
                  /\ y.cells = d.cells /\ y.cx = d.cx /\ y.cy = d.cy
  PROVE  Prints(<<a>>, <<>>, c, b)
<1> SUFFICES ASSUME NEW e, NEW q \in Seq(Strokes), State(e, q, c)
             PROVE  \E z : Leads(<<a>>, e, z) /\ State(z, q \o <<>>, b)
  BY Zenon DEF Prints
<1>1. PICK d : d = e[1]
  OBVIOUS
<1>2. PICK r : r = e[2]
  OBVIOUS
<1>3. PICK p : p = Paper(q)
  OBVIOUS
<1>4. e = <<d, r>> /\ r \in Regs /\ d.color = c /\ Screen(d, p)
  BY <1>1, <1>2, <1>3, Zenon DEF State
<1>5. PICK y : /\ Done(a, d, r) = <<y, r>> /\ IsDev(y) /\ y.color = b
               /\ y.cells = d.cells /\ y.cx = d.cx /\ y.cy = d.cy
  BY <1>4, Zenon DEF Screen
<1>6. Screen(y, p)
  BY <1>4, <1>5, Zenon DEF Screen, Shows
<1>7. PICK z : z = <<y, r>>
  BY Zenon
<1>8. z[1] = y /\ z[2] = r
  BY <1>7
<1>9. q \o <<>> = q
  BY ConcatEmpty
<1>10. State(z, q \o <<>>, b)
  BY <1>3, <1>4, <1>5, <1>6, <1>7, <1>8, <1>9, Zenon DEF State
<1>11. Leads(<<a>>, e, z)
  <2>1. Leads(<<a>>, e, Done(a, e[1], e[2]))
    BY LeadsOne
  <2> QED BY <1>1, <1>2, <1>5, <1>7, <2>1, Zenon
<1> QED BY <1>10, <1>11

LEMMA ColorPrints ==
  ASSUME NEW c, NEW b
  PROVE  Prints(<<Access("color", b)>>, <<>>, c, b)
<1>1. ASSUME NEW d, NEW r, IsDev(d)
      PROVE  \E y : /\ Done(Access("color", b), d, r) = <<y, r>> /\ IsDev(y) /\ y.color = b
                    /\ y.cells = d.cells /\ y.cx = d.cx /\ y.cy = d.cy
  <2>1. PICK y : y = [d EXCEPT !.color = b]
    BY Zenon
  <2>2. Done(Access("color", b), d, r) = <<y, r>>
    BY <2>1 DEF Done, Access
  <2>3. IsDev(y) /\ y.color = b /\ y.cells = d.cells /\ y.cx = d.cx /\ y.cy = d.cy
    BY <1>1, <2>1 DEF IsDev
  <2> QED BY <2>2, <2>3
<1> QED BY <1>1, QuietPrints

LEMMA SerialPrints ==
  ASSUME NEW c, NEW b \in Tokens
  PROVE  Prints(<<Access("serial", b)>>, <<>>, c, c)
<1>1. ASSUME NEW d, NEW r, IsDev(d), d.color = c
      PROVE  \E y : /\ Done(Access("serial", b), d, r) = <<y, r>> /\ IsDev(y) /\ y.color = c
                    /\ y.cells = d.cells /\ y.cx = d.cx /\ y.cy = d.cy
  <2>1. PICK y : y = [d EXCEPT !.serial = Append(d.serial, b)]
    BY Zenon
  <2>2. Done(Access("serial", b), d, r) = <<y, r>>
    BY <2>1, Zenon DEF Done, Access
  <2>3. Append(d.serial, b) \in Seq(Tokens)
    BY <1>1, Appended DEF IsDev
  <2>4. IsDev(y) /\ y.color = c /\ y.cells = d.cells /\ y.cx = d.cx /\ y.cy = d.cy
    BY <1>1, <2>1, <2>3, Zenon DEF IsDev
  <2> QED BY <2>2, <2>4
<1> QED BY <1>1, QuietPrints

\* A text at a level.
Marked(str, level) == [k \in DOMAIN str |-> <<str[k], level>>]

LEMMA MarkedIs ==
  ASSUME NEW str \in Seq(Tokens), NEW level \in Nat
  PROVE  /\ Marked(str, level) \in Seq(Strokes) /\ Len(Marked(str, level)) = Len(str)
         /\ \A k \in 1 .. Len(str) : Marked(str, level)[k] = <<str[k], level>>
<1>1. PICK n \in Nat : n = Len(str) /\ DOMAIN str = 1 .. n /\ \A k \in 1 .. n : str[k] \in Tokens
  BY Elements
<1>2. \A k \in 1 .. n : <<str[k], level>> \in Strokes
  BY <1>1 DEF Strokes
<1>3. PICK s : s = [k \in 1 .. n |-> <<str[k], level>>]
  BY Zenon
<1>4. s \in [1 .. n -> Strokes] /\ \A k \in 1 .. n : s[k] = <<str[k], level>>
  BY <1>2, <1>3, Zenon
<1>5. s \in Seq(Strokes) /\ Len(s) = n
  BY <1>4
<1>6. Marked(str, level) = s
  BY <1>1, <1>3, Zenon DEF Marked
<1> QED BY <1>1, <1>4, <1>5, <1>6, Zenon

LEMMA MarkedConcat ==
  ASSUME NEW a \in Seq(Tokens), NEW b \in Seq(Tokens), NEW level \in Nat
  PROVE  Marked(a \o b, level) = Marked(a, level) \o Marked(b, level)
<1>1. PICK c \in Seq(Tokens) : c = a \o b
  BY Concat, Zenon
<1>2. PICK m \in Nat : m = Len(a)
  OBVIOUS
<1>3. PICK n \in Nat : n = Len(b)
  OBVIOUS
<1>4. /\ Len(c) = m + n /\ \A i \in 1 .. m : c[i] = a[i]
      /\ \A i \in 1 .. n : c[m + i] = b[i]
  BY <1>1, <1>2, <1>3, Concat
<1>5. PICK p \in Seq(Strokes) :
        p = Marked(a, level) /\ Len(p) = m /\ \A k \in 1 .. m : p[k] = <<a[k], level>>
  BY <1>2, MarkedIs, Zenon
<1>6. PICK q \in Seq(Strokes) :
        q = Marked(b, level) /\ Len(q) = n /\ \A k \in 1 .. n : q[k] = <<b[k], level>>
  BY <1>3, MarkedIs, Zenon
<1>7. PICK r \in Seq(Strokes) :
        r = Marked(c, level) /\ Len(r) = m + n /\ \A k \in 1 .. m + n : r[k] = <<c[k], level>>
  BY <1>4, MarkedIs, Zenon
<1>8. PICK z \in Seq(Strokes) : z = p \o q
  BY Concat, Zenon
<1>9. /\ Len(z) = m + n /\ \A i \in 1 .. m : z[i] = p[i]
      /\ \A i \in 1 .. n : z[m + i] = q[i]
  <2>1. /\ Len(z) = Len(p) + Len(q) /\ \A i \in 1 .. Len(p) : z[i] = p[i]
        /\ \A i \in 1 .. Len(q) : z[Len(p) + i] = q[i]
    BY <1>8, Concat
  <2> QED BY <1>5, <1>6, <2>1, Zenon
<1>10. ASSUME NEW k \in 1 .. m + n PROVE r[k] = z[k]
  <2>1. CASE k \in 1 .. m
    <3>1. r[k] = <<c[k], level>> /\ c[k] = a[k] /\ z[k] = p[k]
      BY <1>4, <1>7, <1>9, <2>1, Zenon
    <3>2. p[k] = <<a[k], level>>
      BY <1>5, <2>1, Zenon
    <3> QED BY <3>1, <3>2, Zenon
  <2>2. CASE k \notin 1 .. m
    <3>1. PICK i \in 1 .. n : k = m + i
      <4>1. k - m \in 1 .. n /\ k = m + (k - m)
        BY <2>2
      <4> QED BY <4>1
    <3>2. r[k] = <<c[m + i], level>>
      BY <1>7, <3>1, Zenon
    <3>3. c[m + i] = b[i] /\ z[m + i] = q[i]
      BY <1>4, <1>9, Zenon
    <3>4. q[i] = <<b[i], level>>
      BY <1>6, Zenon
    <3> QED BY <3>1, <3>2, <3>3, <3>4, Zenon
  <2> QED BY <2>1, <2>2
<1>11. r = z
  BY <1>7, <1>9, <1>10, SameSeq
<1> QED BY <1>1, <1>5, <1>6, <1>7, <1>8, <1>11

LEMMA MarkedJoined ==
  ASSUME NEW ss \in Seq(Seq(Tokens)), NEW xx \in Seq(Seq(Strokes)), Len(ss) = Len(xx), NEW level \in Nat,
         \A k \in 1 .. Len(ss) : xx[k] = Marked(ss[k], level)
  PROVE  Joined(xx) = Marked(Joined(ss), level)
<1>1. PICK r : r = {p \in Seq(Tokens) \X Seq(Strokes) : p[2] = Marked(p[1], level)}
  BY Zenon
<1>2. \A a \in Seq(Tokens), b \in Seq(Strokes) : <<a, b>> \in r <=> b = Marked(a, level)
  BY <1>1
<1>3. <<<<>>, <<>>>> \in r
  <2>1. <<>> \in Seq(Tokens) /\ <<>> \in Seq(Strokes)
    OBVIOUS
  <2>2. Marked(<<>>, level) = <<>>
    BY DEF Marked
  <2> QED BY <1>2, <2>1, <2>2, Zenon
<1>4. ASSUME NEW a \in Seq(Tokens), NEW s \in Seq(Tokens), NEW b \in Seq(Strokes), NEW d \in Seq(Strokes),
             <<a, b>> \in r, <<s, d>> \in r
      PROVE  <<a \o s, b \o d>> \in r
  <2>1. b = Marked(a, level) /\ d = Marked(s, level)
    BY <1>2, <1>4, Zenon
  <2>2. a \o s \in Seq(Tokens) /\ b \o d \in Seq(Strokes)
    BY Concat
  <2>3. Marked(a \o s, level) = b \o d
    BY <2>1, MarkedConcat, Zenon
  <2> QED BY <1>2, <2>2, <2>3, Zenon
<1>5. \A k \in 1 .. Len(ss) : <<ss[k], xx[k]>> \in r
  <2>1. \A k \in 1 .. Len(ss) : ss[k] \in Seq(Tokens)
    BY Elements
  <2>2. \A k \in 1 .. Len(ss) : xx[k] \in Seq(Strokes)
    BY Elements
  <2> QED BY <1>2, <2>1, <2>2, Zenon
<1>6. <<Joined(ss), Joined(xx)>> \in r
  BY <1>3, <1>4, <1>5, JoinedRelated, Zenon
<1>7. Joined(ss) \in Seq(Tokens) /\ Joined(xx) \in Seq(Strokes)
  BY JoinedConcat
<1> QED BY <1>2, <1>6, <1>7, Zenon

LEMMA VgaPrints ==
  ASSUME NEW level \in Nat, NEW str \in Seq(Tokens)
  PROVE  Prints(early_vga_log_write(level, str), Marked(str, level), DEFAULT_COLOR, DEFAULT_COLOR)
<1>1. PICK n \in Nat : n = Len(str) /\ DOMAIN str = 1 .. n /\ \A k \in 1 .. n : str[k] \in Tokens
  BY Elements
<1>2. PICK c \in Nat : c = get_level_color(level)
  BY LevelColor
<1>3. PICK x \in Seq(Strokes) : x = Marked(str, level)
  BY MarkedIs
<1>4. Len(x) = n /\ \A k \in 1 .. n : x[k] = <<str[k], level>>
  BY <1>1, <1>3, MarkedIs
<1>5. PICK ss : ss = [k \in 1 .. n |-> early_vga_putc(str[k])]
  BY Zenon
<1>6. \A k \in 1 .. n : early_vga_putc(str[k]) \in Seq(Accesses)
  BY <1>1, PutcWhole, Zenon DEF Wholes
<1>7. ss \in [1 .. n -> Seq(Accesses)] /\ \A k \in 1 .. n : ss[k] = early_vga_putc(str[k])
  BY <1>5, <1>6, Zenon
<1>8. ss \in Seq(Seq(Accesses)) /\ Len(ss) = n
  BY <1>7
<1>9. PICK xx : xx = [k \in 1 .. n |-> <<x[k]>>]
  BY Zenon
<1>10. \A k \in 1 .. n : <<x[k]>> \in Seq(Strokes)
  <2>1. \A k \in 1 .. n : x[k] \in Strokes
    BY <1>3, <1>4, Elements
  <2> QED BY <2>1
<1>11. xx \in [1 .. n -> Seq(Strokes)] /\ \A k \in 1 .. n : xx[k] = <<x[k]>>
  BY <1>9, <1>10, Zenon
<1>12. xx \in Seq(Seq(Strokes)) /\ Len(xx) = n
  BY <1>11
<1>13. Joined(xx) = x
  BY <1>3, <1>4, <1>11, <1>12, JoinedSingles, Zenon
<1>14. \A k \in 1 .. n : Prints(ss[k], xx[k], c, c)
  <2>1. \A k \in 1 .. n : Prints(early_vga_putc(str[k]), <<<<str[k], level>>>>, c, c)
    BY <1>1, <1>2, PutcPrints, Zenon
  <2> QED BY <1>4, <1>7, <1>11, <2>1, Zenon
<1>15. Prints(Joined(ss), x, c, c)
  <2>1. Prints(Joined(ss), Joined(xx), c, c)
    BY <1>8, <1>12, <1>14, PrintsJoined, Zenon
  <2> QED BY <1>13, <2>1
<1>16. PICK a : a = <<Access("color", c)>>
  BY Zenon
<1>17. PICK b : b = <<Access("color", DEFAULT_COLOR)>>
  BY Zenon
<1>18. PICK j : j = Joined(ss)
  OBVIOUS
<1>19. a \in Seq(Accesses) /\ b \in Seq(Accesses) /\ j \in Seq(Accesses) /\ <<>> \in Seq(Strokes)
  <2>1. a \in Wholes
    BY <1>16, ColorWhole
  <2>2. DEFAULT_COLOR \in Nat
    BY DEF DEFAULT_COLOR
  <2>3. b \in Wholes
    BY <1>17, <2>2, ColorWhole
  <2>4. j \in Seq(Accesses)
    BY <1>8, <1>18, JoinedConcat
  <2>5. <<>> \in Seq(Strokes)
    OBVIOUS
  <2> QED BY <2>1, <2>3, <2>4, <2>5, Zenon DEF Wholes
<1>20. Prints(a, <<>>, DEFAULT_COLOR, c) /\ Prints(b, <<>>, c, DEFAULT_COLOR)
  BY <1>16, <1>17, ColorPrints
<1>21. Prints(a \o j, <<>> \o x, DEFAULT_COLOR, c)
  BY <1>15, <1>18, <1>19, <1>20, PrintsConcat, Zenon
<1>22. <<>> \o x = x /\ x \o <<>> = x
  BY ConcatEmpty
<1>23. a \o j \in Seq(Accesses) /\ Prints(a \o j, x, DEFAULT_COLOR, c)
  BY <1>19, <1>21, <1>22, Concat
<1>24. Prints((a \o j) \o b, x \o <<>>, DEFAULT_COLOR, DEFAULT_COLOR)
  BY <1>19, <1>20, <1>23, PrintsConcat, Zenon
<1>25. early_vga_log_write(level, str) = (a \o j) \o b
  BY <1>1, <1>2, <1>5, <1>16, <1>17, <1>18, Zenon DEF early_vga_log_write
<1> QED BY <1>3, <1>22, <1>24, <1>25

\* Nothing, however often.
LEMMA JoinedNothing ==
  ASSUME NEW S, NEW xx \in Seq(Seq(S)), \A k \in 1 .. Len(xx) : xx[k] = <<>>
  PROVE  Joined(xx) = <<>>
<1>1. PICK W : W = {<<>>}
  BY Zenon
<1>2. <<>> \o <<>> = <<>>
  OBVIOUS
<1>3. W \in SUBSET Seq(S) /\ <<>> \in W /\ \A a, b \in W : a \o b \in W
  BY <1>1, <1>2
<1>4. xx \in Seq(W)
  BY <1>1
<1>5. Joined(xx) \in W
  BY <1>3, <1>4, JoinedIn
<1> QED BY <1>1, <1>5

LEMMA UartPrints ==
  ASSUME NEW t \in Seq(Tokens), NEW c
  PROVE  Prints([k \in DOMAIN t |-> Access("serial", t[k])], <<>>, c, c)
<1>1. PICK n \in Nat : n = Len(t) /\ DOMAIN t = 1 .. n /\ \A k \in 1 .. n : t[k] \in Tokens
  BY Elements
<1>2. PICK s : s = [k \in 1 .. n |-> Access("serial", t[k])]
  BY Zenon
<1>3. s \in Seq(Accesses) /\ Len(s) = n
  <2>1. IsSerial(s, t)
    BY <1>1, <1>2, SerialOf
  <2> QED BY <1>1, <2>1 DEF IsSerial
<1>4. \A k \in 1 .. n : s[k] = Access("serial", t[k])
  BY <1>2, Zenon
<1>5. PICK ss : ss = [k \in 1 .. n |-> <<s[k]>>]
  BY Zenon
<1>6. \A k \in 1 .. n : <<s[k]>> \in Seq(Accesses)
  <2>1. \A k \in 1 .. n : s[k] \in Accesses
    BY <1>3, Elements
  <2> QED BY <2>1
<1>7. ss \in [1 .. n -> Seq(Accesses)] /\ \A k \in 1 .. n : ss[k] = <<s[k]>>
  BY <1>5, <1>6, Zenon
<1>8. ss \in Seq(Seq(Accesses)) /\ Len(ss) = n
  BY <1>7
<1>9. Joined(ss) = s
  BY <1>3, <1>7, <1>8, JoinedSingles, Zenon
<1>10. PICK o \in Seq(Strokes) : o = <<>>
  <2>1. <<>> \in Seq(Strokes)
    OBVIOUS
  <2> QED BY <2>1, Zenon
<1>11. PICK xx : xx = [k \in 1 .. n |-> o]
  BY Zenon
<1>12. xx \in [1 .. n -> Seq(Strokes)] /\ \A k \in 1 .. n : xx[k] = o
  BY <1>11, Zenon
<1>13. xx \in Seq(Seq(Strokes)) /\ Len(xx) = n
  BY <1>12
<1>14. Joined(xx) = o
  BY <1>10, <1>12, <1>13, JoinedNothing
<1>15. \A k \in 1 .. n : Prints(ss[k], xx[k], c, c)
  <2>1. \A k \in 1 .. n : Prints(<<Access("serial", t[k])>>, o, c, c)
    BY <1>1, <1>10, SerialPrints, Zenon
  <2> QED BY <1>4, <1>7, <1>12, <2>1, Zenon
<1>16. Prints(Joined(ss), Joined(xx), c, c)
  BY <1>8, <1>13, <1>15, PrintsJoined, Zenon
<1> QED BY <1>1, <1>2, <1>9, <1>10, <1>14, <1>16, Zenon

LEMMA EmptyTokens == <<>> \in Seq(Tokens)
OBVIOUS

LEMMA SinkPrints ==
  ASSUME NEW level \in Nat, NEW str \in Texts, NEW sink \in Sinks \cup {""}
  PROVE  Prints(WriteTo(sink, level, str), IF sink = "VGA" THEN Marked(str, level) ELSE <<>>,
                DEFAULT_COLOR, DEFAULT_COLOR)
<1>0. str \in Seq(Tokens)
  BY Zenon DEF Texts, IsText
<1>1. CASE sink = ""
  <2>1. WriteTo(sink, level, str) = <<>> /\ sink # "VGA"
    BY <1>1, Zenon DEF WriteTo
  <2> QED BY <2>1, PrintsEmpty, Zenon
<1>2. CASE sink = "VGA"
  <2>1. WriteTo(sink, level, str) = early_vga_log_write(level, str)
    BY <1>2 DEF WriteTo
  <2>2. Prints(early_vga_log_write(level, str), Marked(str, level), DEFAULT_COLOR, DEFAULT_COLOR)
    BY <1>0, VgaPrints, Zenon
  <2> QED BY <1>2, <2>1, <2>2, Zenon
<1>3. CASE sink = "UART"
  <2>1. PICK t : t = early_uart_log_write(level, str)
    BY Zenon
  <2>2. PICK s : s = [k \in DOMAIN t |-> Access("serial", t[k])]
    BY Zenon
  <2>3. WriteTo(sink, level, str) = s /\ sink # "VGA"
    BY <1>3, <2>1, <2>2 DEF WriteTo
  <2>4. t \in Seq(Tokens)
    <3>1. CASE ~uart_present \/ str = <<>>
      <4>1. t = <<>>
        BY <2>1, <3>1, Zenon DEF early_uart_log_write
      <4> QED BY <4>1, EmptyTokens, Zenon
    <3>2. CASE uart_present /\ str # <<>>
      BY <1>0, <2>1, <3>2, UartSent, Zenon DEF IsSent
    <3> QED BY <3>1, <3>2, Zenon
  <2>5. Prints(s, <<>>, DEFAULT_COLOR, DEFAULT_COLOR)
    BY <2>2, <2>4, UartPrints, Zenon
  <2> QED BY <2>3, <2>5, Zenon
<1> QED BY <1>1, <1>2, <1>3, Zenon DEF Sinks

Watching == \E i \in Slots : sinks[i] = "VGA"

LEMMA FlushPrints ==
  ASSUME NEW level \in Nat, NEW str \in Texts, SinksTyped, UniqueSinks
  PROVE  Prints(_flush(level, str), IF Watching THEN Marked(str, level) ELSE <<>>,
                DEFAULT_COLOR, DEFAULT_COLOR)
<1>0. str \in Seq(Tokens)
  BY DEF Texts, IsText
<1>1. PICK ss : IsFlush(ss, level, str)
  BY FlushSteps
<1>2. PICK n \in Nat : n = MAX_SINKS
  BY ScreenAssumption
<1>3. PICK x \in Seq(Strokes) : x = Marked(str, level)
  BY <1>0, MarkedIs
<1>4. PICK xx : xx = [i \in 1 .. n |-> IF sinks[i - 1] = "VGA" THEN x ELSE <<>>]
  BY Zenon
<1>5. xx \in Seq(Seq(Strokes)) /\ Len(xx) = n
  <2>1. <<>> \in Seq(Strokes)
    OBVIOUS
  <2>2. \A i \in 1 .. n : (IF sinks[i - 1] = "VGA" THEN x ELSE <<>>) \in Seq(Strokes)
    BY <1>3, <2>1, Zenon
  <2>3. xx \in [1 .. n -> Seq(Strokes)]
    BY <1>4, <2>2, Zenon
  <2> QED BY <2>3
<1>6. \A i \in 1 .. n : xx[i] = IF sinks[i - 1] = "VGA" THEN x ELSE <<>>
  BY <1>4, Zenon
<1>7. \A i \in 1 .. n : i - 1 \in Slots
  BY <1>2 DEF Slots
<1>8. ss \in Seq(Seq(Accesses)) /\ Len(ss) = n /\ _flush(level, str) = Joined(ss)
  BY <1>1, <1>2, Zenon DEF IsFlush
<1>9. \A i \in 1 .. n : Prints(ss[i], xx[i], DEFAULT_COLOR, DEFAULT_COLOR)
  <2>1. \A i \in 1 .. n : sinks[i - 1] \in Sinks \cup {""}
    BY <1>7, Zenon DEF SinksTyped
  <2>2. \A i \in 1 .. n : ss[i] = WriteTo(sinks[i - 1], level, str)
    BY <1>1, <1>2, Zenon DEF IsFlush
  <2>3. \A i \in 1 .. n : Prints(WriteTo(sinks[i - 1], level, str),
                                 IF sinks[i - 1] = "VGA" THEN Marked(str, level) ELSE <<>>,
                                 DEFAULT_COLOR, DEFAULT_COLOR)
    BY <2>1, SinkPrints, Zenon
  <2> QED BY <1>3, <1>6, <2>2, <2>3, Zenon
<1>10. Prints(Joined(ss), Joined(xx), DEFAULT_COLOR, DEFAULT_COLOR)
  BY <1>5, <1>8, <1>9, PrintsJoined, Zenon
<1>11. Joined(xx) = IF Watching THEN x ELSE <<>>
  <2>1. CASE Watching
    <3>1. PICK h \in Slots : sinks[h] = "VGA"
      BY <2>1 DEF Watching
    <3>2. h + 1 \in 1 .. n /\ (h + 1) - 1 = h
      BY <1>2 DEF Slots
    <3>3. xx[h + 1] = x
      BY <1>6, <3>1, <3>2, Zenon
    <3>4. \A i \in 1 .. n : i # h + 1 => i - 1 # h
      BY DEF Slots
    <3>5. \A i \in 1 .. n : i # h + 1 => sinks[i - 1] # "VGA"
      <4>1. "VGA" # ""
        OBVIOUS
      <4> QED BY <1>7, <3>1, <3>4, <4>1, Zenon DEF UniqueSinks
    <3>6. \A i \in 1 .. n : i # h + 1 => xx[i] = <<>>
      BY <1>6, <3>5, Zenon
    <3>7. Joined(xx) = xx[h + 1]
      BY <1>5, <3>2, <3>6, JoinedOne, Zenon
    <3> QED BY <2>1, <3>3, <3>7
  <2>2. CASE ~Watching
    <3>1. \A i \in 1 .. n : xx[i] = <<>>
      BY <1>6, <1>7, <2>2, Zenon DEF Watching
    <3>2. Joined(xx) = <<>>
      BY <1>5, <3>1, JoinedNothing
    <3> QED BY <2>2, <3>2
  <2> QED BY <2>1, <2>2
<1> QED BY <1>3, <1>8, <1>10, <1>11, Zenon

\* A message prints its text at its level, however it is cut into chunks.
LEMMA MessagePrints ==
  ASSUME NEW m \in Messages \cup {TickMessage}, SinksTyped, UniqueSinks
  PROVE  Prints(_vprintkl(m), IF Watching THEN Marked(m.text, m.level) ELSE <<>>,
                DEFAULT_COLOR, DEFAULT_COLOR)
<1>1. m.level \in Nat /\ m.text \in Texts /\ m.text \in Seq(Tokens)
  BY MessageText
<1>2. PICK chunks \in Seq(Texts) : chunks = Chunks(m.text)
  BY <1>1, ChunksAreTexts
<1>3. Texts \in SUBSET Seq(Tokens)
  BY DEF Texts, IsText
<1>4. chunks \in Seq(Seq(Tokens))
  BY <1>2, <1>3
<1>5. PICK n \in Nat : n = Len(chunks) /\ DOMAIN chunks = 1 .. n /\ \A k \in 1 .. n : chunks[k] \in Texts
  BY <1>2, Elements
<1>6. PICK ss : ss = [k \in DOMAIN chunks |-> _flush(m.level, chunks[k])]
  BY Zenon
<1>7. \A k \in 1 .. n : _flush(m.level, chunks[k]) \in Seq(Accesses)
  BY <1>1, <1>5, FlushWhole, Zenon DEF Wholes
<1>8. ss \in [1 .. n -> Seq(Accesses)] /\ \A k \in 1 .. n : ss[k] = _flush(m.level, chunks[k])
  BY <1>5, <1>6, <1>7, Zenon
<1>9. ss \in Seq(Seq(Accesses)) /\ Len(ss) = n
  BY <1>8
<1>10. _vprintkl(m) = Joined(ss)
  BY <1>2, <1>6 DEF _vprintkl
<1>11. PICK xx : xx = [k \in 1 .. n |-> IF Watching THEN Marked(chunks[k], m.level) ELSE <<>>]
  BY Zenon
<1>12. \A k \in 1 .. n : xx[k] = IF Watching THEN Marked(chunks[k], m.level) ELSE <<>>
  BY <1>11, Zenon
<1>13. xx \in Seq(Seq(Strokes)) /\ Len(xx) = n
  <2>1. <<>> \in Seq(Strokes)
    OBVIOUS
  <2>2. \A k \in 1 .. n : Marked(chunks[k], m.level) \in Seq(Strokes)
    <3>1. \A k \in 1 .. n : chunks[k] \in Seq(Tokens)
      BY <1>3, <1>5
    <3> QED BY <1>1, <3>1, MarkedIs, Zenon
  <2>3. \A k \in 1 .. n : (IF Watching THEN Marked(chunks[k], m.level) ELSE <<>>) \in Seq(Strokes)
    BY <2>1, <2>2, Zenon
  <2>4. xx \in [1 .. n -> Seq(Strokes)]
    BY <1>11, <2>3, Zenon
  <2> QED BY <2>4
<1>14. \A k \in 1 .. n : Prints(ss[k], xx[k], DEFAULT_COLOR, DEFAULT_COLOR)
  <2>1. \A k \in 1 .. n : Prints(_flush(m.level, chunks[k]),
                                 IF Watching THEN Marked(chunks[k], m.level) ELSE <<>>,
                                 DEFAULT_COLOR, DEFAULT_COLOR)
    BY <1>1, <1>5, FlushPrints, Zenon
  <2> QED BY <1>8, <1>12, <2>1, Zenon
<1>15. Prints(Joined(ss), Joined(xx), DEFAULT_COLOR, DEFAULT_COLOR)
  BY <1>9, <1>13, <1>14, PrintsJoined, Zenon
<1>16. Joined(xx) = IF Watching THEN Marked(m.text, m.level) ELSE <<>>
  <2>1. CASE Watching
    <3>1. \A k \in 1 .. n : xx[k] = Marked(chunks[k], m.level)
      BY <1>12, <2>1, Zenon
    <3>2. Joined(xx) = Marked(Joined(chunks), m.level)
      BY <1>1, <1>4, <1>5, <1>13, <3>1, MarkedJoined, Zenon
    <3>3. Joined(chunks) = m.text
      BY <1>1, <1>2, ChunksJoined
    <3> QED BY <2>1, <3>2, <3>3
  <2>2. CASE ~Watching
    <3>1. \A k \in 1 .. n : xx[k] = <<>>
      BY <1>12, <2>2, Zenon
    <3>2. Joined(xx) = <<>>
      BY <1>13, <3>1, JoinedNothing
    <3> QED BY <2>2, <3>2
  <2> QED BY <2>1, <2>2
<1> QED BY <1>10, <1>15, <1>16, Zenon

(***************************************************************************)
(* The invariant: unless a tick has come in the middle of a message, what  *)
(* is left of the message leads to the screen that shows all of the text.  *)
(***************************************************************************)

ScreenInv ==
  /\ due["VGA"] \in Seq(Strokes)
  /\ ~torn => /\ Rest = <<>>
              /\ \E e : Leads(todo, <<dev, regs>>, e) /\ State(e, due["VGA"], DEFAULT_COLOR)

LEMMA ScreenInit == Init => ScreenInv
<1> SUFFICES ASSUME Init PROVE ScreenInv
  OBVIOUS
<1>0. WIDTH \in Nat \ {0} /\ HEIGHT \in Nat \ {0} /\ Cells \in Nat
  BY ScreenAssumption DEF Cells
<1>1. due["VGA"] = <<>> /\ <<>> \in Seq(Strokes)
  <2>1. <<>> \in Seq(Strokes)
    OBVIOUS
  <2>2. due["VGA"] = <<>>
    BY Zenon DEF Init, Sinks
  <2> QED BY <2>1, <2>2
<1>2. todo = <<>> /\ Rest = <<>> /\ regs \in Regs
  BY Zenon DEF Init, Rest, NoRegs, Regs
<1>3. /\ dev.cells = [p \in 0 .. Cells |-> Blank] /\ dev.cx = 0 /\ dev.cy = 0
      /\ dev.color = DEFAULT_COLOR /\ dev.serial = <<>>
      /\ dev = [cells |-> dev.cells, cx |-> dev.cx, cy |-> dev.cy, color |-> dev.color, serial |-> dev.serial]
  BY Zenon DEF Init
<1>4. IsDev(dev)
  <2>1. <<>> \in Seq(Tokens)
    OBVIOUS
  <2> QED BY <1>3, <2>1 DEF IsDev
<1>5. PICK p : p = NewPaper
  OBVIOUS
<1>6. IsPaper(p) /\ \A y, x \in Nat : On(p, y, x) = Blank
  BY <1>5, NewPaperIs
<1>7. p.row = 0 /\ p.col = 0 /\ Top(p) = 0
  BY <1>0, <1>5 DEF NewPaper, Top
<1>8. \A i \in 0 .. Cells : dev.cells[i] = Blank
  BY <1>3
<1>9. dev.cells = [i \in 0 .. Cells |-> dev.cells[i]]
  BY <1>3, <1>8, Zenon
<1>10. ASSUME NEW y \in 0 .. HEIGHT - 1, NEW x \in 0 .. WIDTH - 1
       PROVE  dev.cells[y * WIDTH + x] = On(p, Top(p) + y, x)
  <2>1. y * WIDTH + x \in 0 .. Cells - 1
    BY CellOf
  <2>2. y * WIDTH + x \in 0 .. Cells
    BY <1>0, <2>1
  <2>3. Top(p) + y \in Nat /\ x \in Nat
    BY <1>7
  <2> QED BY <1>6, <1>8, <2>2, <2>3, Zenon
<1>11. Shows(dev, p)
  <2>1. dev.cells[Cells] = Blank
    BY <1>0, <1>8
  <2>2. dev.cx = p.col /\ dev.cy = p.row - Top(p)
    BY <1>3, <1>7
  <2> QED BY <1>10, <2>1, <2>2, ScreenIs, Zenon
<1>12. Screen(dev, Paper(due["VGA"]))
  BY <1>1, <1>4, <1>5, <1>6, <1>9, <1>11, PaperEmpty, Zenon DEF Screen
<1>13. PICK e : e = <<dev, regs>>
  BY Zenon
<1>14. e[1] = dev /\ e[2] = regs
  BY <1>13
<1>15. State(e, due["VGA"], DEFAULT_COLOR)
  BY <1>2, <1>3, <1>12, <1>13, <1>14, Zenon DEF State
<1>16. Leads(todo, <<dev, regs>>, e)
  BY <1>2, <1>13, LeadsEmpty, Zenon
<1> QED BY <1>1, <1>2, <1>15, <1>16, Zenon DEF ScreenInv

LEMMA MessageScreen ==
  ASSUME ConsoleInv, SentInv, ScreenInv, NEW m \in Messages \cup {TickMessage}, todo' = _vprintkl(m),
         due' = Owed(m), UNCHANGED <<dev, regs>>, interrupted = None,
         \/ todo = <<>> /\ interrupted' = None /\ torn' = torn
         \/ interrupted' = <<[todo |-> todo, regs |-> regs]>> /\ torn' = (torn \/ todo # <<>>)
  PROVE  ScreenInv'
<1>1. SinksTyped /\ UniqueSinks /\ due["VGA"] \in Seq(Strokes)
  BY DEF ConsoleInv, TypeInv, SentInv, ScreenInv
<1>2. PICK q \in Seq(Strokes) : q = due["VGA"]
  BY <1>1
<1>3. PICK x : x = IF Watching THEN Marked(m.text, m.level) ELSE <<>>
  OBVIOUS
<1>4. due'["VGA"] = IF Watching THEN q \o Marked(m.text, m.level) ELSE q
  BY <1>2 DEF Owed, Watching, Sinks, Marked
<1>5. x \in Seq(Strokes)
  <2>1. Marked(m.text, m.level) \in Seq(Strokes)
    BY MessageText, MarkedIs
  <2>2. <<>> \in Seq(Strokes)
    OBVIOUS
  <2> QED BY <1>3, <2>1, <2>2, Zenon
<1>6. due'["VGA"] = q \o x
  <2>1. q \o <<>> = q
    BY ConcatEmpty
  <2> QED BY <1>3, <1>4, <2>1, Zenon
<1>7. due'["VGA"] \in Seq(Strokes)
  BY <1>5, <1>6, Concat
<1>8. ASSUME ~torn'
      PROVE  /\ Rest' = <<>>
             /\ \E e : Leads(todo', <<dev, regs>>', e) /\ State(e, due'["VGA"], DEFAULT_COLOR)
  <2>1. ~torn /\ todo = <<>>
    <3>1. CASE todo = <<>> /\ torn' = torn
      BY <1>8, <3>1, Zenon
    <3>2. CASE torn' = (torn \/ todo # <<>>)
      BY <1>8, <3>2, Zenon
    <3> QED BY <3>1, <3>2, Zenon
  <2>2. Rest' = <<>>
    BY <2>1 DEF Rest, None
  <2>3. PICK e : Leads(<<>>, <<dev, regs>>, e) /\ State(e, q, DEFAULT_COLOR)
    BY <1>2, <2>1, Zenon DEF ScreenInv
  <2>4. e = <<dev, regs>>
    BY <2>3, LeadsEmpty, Zenon
  <2>5. Prints(_vprintkl(m), x, DEFAULT_COLOR, DEFAULT_COLOR)
    BY <1>1, <1>3, MessagePrints
  <2>6. PICK z : Leads(_vprintkl(m), e, z) /\ State(z, q \o x, DEFAULT_COLOR)
    BY <2>3, <2>5, Zenon DEF Prints
  <2>7. <<dev, regs>>' = <<dev, regs>>
    OBVIOUS
  <2>8. Leads(todo', <<dev, regs>>', z) /\ State(z, due'["VGA"], DEFAULT_COLOR)
    BY <1>6, <2>4, <2>6, <2>7, Zenon
  <2> QED BY <2>2, <2>8, Zenon
<1> QED BY <1>7, <1>8, Zenon DEF ScreenInv

LEMMA AccessScreen == ConsoleInv /\ ScreenInv /\ access => ScreenInv'
<1> SUFFICES ASSUME ConsoleInv, ScreenInv, access PROVE ScreenInv'
  OBVIOUS
<1>1. PICK t : t = todo
  OBVIOUS
<1>2. t # <<>> /\ t \in Seq(Accesses) /\ Head(t) = t[1]
  BY <1>1, TailOf, Zenon DEF ConsoleInv, TypeInv, Remains, access
<1>3. PICK z : z = Done(t[1], dev, regs)
  OBVIOUS
<1>4. /\ dev' = z[1] /\ regs' = z[2] /\ todo' = Tail(t)
      /\ UNCHANGED <<interrupted, due, torn>>
  BY <1>1, <1>2, <1>3 DEF access
<1>5. z = <<z[1], z[2]>>
  <2>1. t[1] \in Accesses
    BY <1>2, Elements
  <2> QED BY <1>3, <2>1, Zenon
          DEF Done, Accesses, PutcOps, Switch, PutCell, WrapColumn, WrapRow, Scroll, set_cursor
<1>6. Rest' = Rest
  BY <1>4 DEF Rest
<1>7. ASSUME ~torn'
      PROVE  \E e : Leads(todo', <<dev, regs>>', e) /\ State(e, due'["VGA"], DEFAULT_COLOR)
  <2>1. PICK e : Leads(t, <<dev, regs>>, e) /\ State(e, due["VGA"], DEFAULT_COLOR)
    BY <1>1, <1>4, <1>7, Zenon DEF ScreenInv
  <2>2. PICK s : s = <<dev, regs>>
    BY Zenon
  <2>3. s[1] = dev /\ s[2] = regs
    BY <2>2
  <2>4. Leads(Tail(t), Done(t[1], s[1], s[2]), e)
    BY <1>2, <2>1, <2>2, LeadsTail
  <2>5. <<dev, regs>>' = z
    BY <1>4, <1>5
  <2>6. due'["VGA"] = due["VGA"]
    BY <1>4
  <2> QED BY <1>3, <1>4, <2>1, <2>3, <2>4, <2>5, <2>6, Zenon
<1>8. ~torn' => Rest' = <<>>
  BY <1>4, <1>6 DEF ScreenInv
<1>9. due'["VGA"] \in Seq(Strokes)
  BY <1>4 DEF ScreenInv
<1> QED BY <1>7, <1>8, <1>9, Zenon DEF ScreenInv

LEMMA IretScreen == ConsoleInv /\ ScreenInv /\ iret => ScreenInv'
<1> SUFFICES ASSUME ConsoleInv, ScreenInv, iret PROVE ScreenInv'
  OBVIOUS
<1>1. /\ interrupted # None /\ todo = <<>> /\ todo' = interrupted[1].todo
      /\ regs' = interrupted[1].regs /\ interrupted' = None /\ UNCHANGED <<dev, due, torn>>
  BY DEF iret
<1>2. Rest = todo' /\ Rest' = <<>>
  BY <1>1 DEF Rest
<1>3. ASSUME ~torn'
      PROVE  \E e : Leads(todo', <<dev, regs>>', e) /\ State(e, due'["VGA"], DEFAULT_COLOR)
  <2>1. ~torn /\ todo' = <<>>
    BY <1>1, <1>2, <1>3 DEF ScreenInv
  <2>2. PICK e : Leads(<<>>, <<dev, regs>>, e) /\ State(e, due["VGA"], DEFAULT_COLOR)
    BY <1>1, <2>1, Zenon DEF ScreenInv
  <2>3. e = <<dev, regs>>
    BY <2>2, LeadsEmpty, Zenon
  <2>4. e[1] = dev
    BY <2>3
  <2>5. regs' \in Regs
    BY <1>1 DEF ConsoleInv, TypeInv
  <2>6. PICK z : z = <<dev, regs'>>
    BY Zenon
  <2>7. z[1] = dev /\ z[2] = regs'
    BY <2>6
  <2>8. State(z, due["VGA"], DEFAULT_COLOR)
    BY <2>2, <2>4, <2>5, <2>6, <2>7, Zenon DEF State
  <2>9. <<dev, regs>>' = z /\ due'["VGA"] = due["VGA"]
    BY <1>1, <2>6
  <2>10. Leads(todo', <<dev, regs>>', z)
    BY <2>1, <2>9, LeadsEmpty, Zenon
  <2> QED BY <2>8, <2>9, <2>10, Zenon
<1>4. due'["VGA"] \in Seq(Strokes)
  BY <1>1 DEF ScreenInv
<1> QED BY <1>2, <1>3, <1>4, Zenon DEF ScreenInv

LEMMA OtherScreen ==
  ASSUME ScreenInv, UNCHANGED <<dev, todo, regs, interrupted, due, torn>>
  PROVE  ScreenInv'
<1>1. Rest' = Rest
  BY DEF Rest
<1> QED BY <1>1 DEF ScreenInv

LEMMA ScreenNext == ConsoleInv /\ SentInv /\ ScreenInv /\ [Next]_vars => ScreenInv'
<1> SUFFICES ASSUME ConsoleInv, SentInv, ScreenInv, [Next]_vars PROVE ScreenInv'
  OBVIOUS
<1>1. ASSUME NEW s \in Sinks, printk_sink_register(s) PROVE ScreenInv'
  BY <1>1, OtherScreen, Zenon DEF printk_sink_register
<1>2. ASSUME NEW i \in Slots, printk_sink_unregister(i) PROVE ScreenInv'
  BY <1>2, OtherScreen, Zenon DEF printk_sink_unregister
<1>3. ASSUME NEW m \in Messages, printk(m) PROVE ScreenInv'
  BY <1>3, MessageScreen DEF printk, Idle
<1>4. CASE access
  BY <1>4, AccessScreen
<1>5. CASE tick
  BY <1>5, MessageScreen DEF tick
<1>6. CASE iret
  BY <1>6, IretScreen
<1>7. CASE __isr_dispatch
  BY <1>7, OtherScreen DEF __isr_dispatch
<1>8. CASE vpanic_cli
  BY <1>8, OtherScreen DEF vpanic_cli
<1>9. CASE UNCHANGED vars
  BY <1>9, OtherScreen DEF vars
<1> QED BY <1>1, <1>2, <1>3, <1>4, <1>5, <1>6, <1>7, <1>8, <1>9 DEF Next, Halted

\* Between messages the screen shows the last lines of all that early_vga_log_write
\* was given, in the colours of the levels, with the cursor after it and nothing written
\* past the last cell, for every size of the screen and of printk's buffer and however
\* the text wraps, tabs and scrolls; unless a tick has printed within a message.
THEOREM ScreenCorrect == Spec => []ScreenIsTail
<1>1. ScreenInv => ScreenIsTail
  <2> SUFFICES ASSUME ScreenInv, Idle, ~torn PROVE Shows(dev, Paper(due["VGA"]))
    BY DEF ScreenIsTail
  <2>1. PICK e : Leads(<<>>, <<dev, regs>>, e) /\ State(e, due["VGA"], DEFAULT_COLOR)
    BY Zenon DEF ScreenInv, Idle
  <2>2. e = <<dev, regs>>
    BY <2>1, LeadsEmpty, Zenon
  <2>3. e[1] = dev
    BY <2>2
  <2> QED BY <2>1, <2>3, Zenon DEF State, Screen
<1>2. Spec => []SentInv
  BY SentInit, SentNext, ConsoleInvariant, PTL DEF Spec
<1> QED BY <1>1, <1>2, ScreenInit, ScreenNext, ConsoleInvariant, PTL DEF Spec
=============================================================================
