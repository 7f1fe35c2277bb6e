------------------------------ MODULE Console ------------------------------
(***************************************************************************)
(* Where the kernel's messages go: printk's buffer and sinks (lib/printk.c)*)
(* the VGA text screen (driver/vga/early_vga.c) and the serial line        *)
(* (driver/uart/early_uart.c).                                             *)
(*                                                                         *)
(* A message is turned into the accesses it makes to the devices and to    *)
(* the variables of the drivers, in the order in which the kernel as built *)
(* makes them: with -O2 early_vga_putc keeps cx and cy in registers from   *)
(* its first load on, but stores them on the way.  An exception handler    *)
(* reached through a trap gate prints with interrupts on, so a timer tick  *)
(* whose schedule() prints may fall between any two of its accesses.  A    *)
(* sequence that starts a colour on the terminal is two tokens, so that it *)
(* may be interrupted too.                                                 *)
(***************************************************************************)
EXTENDS Integers, Sequences

CONSTANTS
  WIDTH, HEIGHT, TAB_WIDTH, PRINTK_BUFFER_SIZE, MAX_SINKS,
  Messages,      \* what boot code and handlers print: level and formatted text
  TickText,      \* what schedule() prints
  MaxMessages,   \* bound on the messages of boot code and handlers
  MaxTicks,      \* bound on the ticks that print
  MaxChanges     \* bound on the changes to the sinks

ASSUME ScreenAssumption ==
  /\ WIDTH \in Nat \ {0} /\ HEIGHT \in Nat \ {0} /\ TAB_WIDTH \in Nat \ {0}
  /\ WIDTH % TAB_WIDTH = 0
  /\ PRINTK_BUFFER_SIZE \in Nat \ {0} /\ MAX_SINKS \in Nat \ {0}

VARIABLES
  sinks,         \* sinks[i].name, "" if the slot is free
  uart_present,
  dev,           \* the screen, the drivers' variables, the serial line
  todo,          \* the accesses that the message being printed still makes
  regs,          \* the registers of the early_vga_putc in progress
  interrupted,   \* the todo and regs of the message that a tick has interrupted, or None
  mode,          \* who prints: "boot", "handler" or no one any more
  due,           \* ghost: the characters and levels that each sink is to write
  torn,          \* ghost: a tick has printed in the middle of a message
  messages, ticks, changes

vars == <<sinks, uart_present, dev, todo, regs, interrupted, mode, due, torn, messages, ticks, changes>>

DEFAULT_COLOR == 7
DEFAULT_LEVEL == 6
Slots == 0 .. MAX_SINKS - 1
Sinks == {"UART", "VGA"}
Cells == WIDTH * HEIGHT
Blank == <<" ", DEFAULT_COLOR>>
TickMessage == [level |-> DEFAULT_LEVEL, text |-> TickText]

-----------------------------------------------------------------------------
\* printk: the characters collect in a buffer that is flushed when it is full.

\* Mutant: a full buffer is flushed only after one more character has been lost.
_putc_late(ctx, c) ==
  IF Len(ctx.buffer) >= PRINTK_BUFFER_SIZE
  THEN [flushed |-> Append(ctx.flushed, ctx.buffer), buffer |-> <<>>]
  ELSE [ctx EXCEPT !.buffer = Append(@, c)]

_putc(ctx, c) ==
  IF Len(ctx.buffer) >= PRINTK_BUFFER_SIZE
  THEN [flushed |-> Append(ctx.flushed, ctx.buffer), buffer |-> <<c>>]
  ELSE [ctx EXCEPT !.buffer = Append(@, c)]

\* What the calls of _flush pass on, the last one by _vprintkl at the end.
Chunks(text) ==
  LET ctx[i \in 0 .. Len(text)] ==
        IF i = 0 THEN [flushed |-> <<>>, buffer |-> <<>>] ELSE _putc(ctx[i - 1], text[i])
      end == ctx[Len(text)]
  IN  IF end.buffer = <<>> THEN end.flushed ELSE Append(end.flushed, end.buffer)

-----------------------------------------------------------------------------
\* The serial line.

get_level_ansi(level) ==
  IF level \in 0 .. 5
  THEN <<"1;37;41m", "1;31m", "0;91m", "0;91m", "0;93m", "0;97m">>[level + 1] ELSE "0m"

Ansi(code) == <<"ESC[", code>>
Codes == {get_level_ansi(l) : l \in 0 .. 6}

\* The texts that the kernel prints hold no colour codes of their own, and a newline
\* only at their end.
ASSUME MessagesAssumption ==
  \A m \in Messages \cup {TickMessage} :
    /\ m.level \in Nat /\ m.text \in Seq(STRING)
    /\ \A k \in 1 .. Len(m.text) : m.text[k] \notin Codes \cup {"ESC["}
    /\ \A k \in 1 .. Len(m.text) - 1 : m.text[k] # "\n"

\* Mutant: the reset follows the text, whatever its last character is.
early_uart_log_write_plain(level, str) ==
  IF ~uart_present \/ str = <<>> THEN <<>>
  ELSE Ansi(get_level_ansi(level)) \o str \o Ansi("0m")

early_uart_log_write(level, str) ==
  IF ~uart_present \/ str = <<>> THEN <<>>
  ELSE LET last == str[Len(str)]
       IN  Ansi(get_level_ansi(level)) \o SubSeq(str, 1, Len(str) - 1)
             \o (IF last = "\n" THEN Append(Ansi("0m"), "\n") ELSE <<last>> \o Ansi("0m"))

-----------------------------------------------------------------------------
\* The screen.  cx and cy are the variables, x and y the registers.

\* The switch of early_vga_putc: the new position, stored, and the cell to write.
Switch(ch, d, r) ==
  LET x == CASE ch \in {"\n", "\r"} -> 0
             [] ch = "\t" -> d.cx + TAB_WIDTH - (d.cx % TAB_WIDTH)
             [] OTHER -> d.cx + 1
      y == IF ch = "\n" THEN d.cy + 1 ELSE d.cy
  IN  <<[d EXCEPT !.cx = x, !.cy = y],
        [x |-> x, y |-> y, wrapped |-> FALSE, position |-> d.cy * WIDTH + d.cx]>>

\* putc; the screen is followed by memory of the adapter that does not show.
PutCell(ch, d, r) ==
  IF ch \in {"\n", "\r", "\t"} \/ r.position \notin 0 .. Cells THEN <<d, r>>
  ELSE <<[d EXCEPT !.cells[r.position] = <<ch, d.color>>], r>>

WrapColumn(d, r) ==
  IF r.x >= WIDTH
  THEN <<[d EXCEPT !.cx = 0], [r EXCEPT !.x = 0, !.y = @ + 1, !.wrapped = TRUE]>>
  ELSE <<d, r>>

WrapRow(d, r) == <<IF r.wrapped THEN [d EXCEPT !.cy = r.y] ELSE d, r>>

\* Mutant: the last line is not cleared.
ShiftedOnly(cells) ==
  [p \in 0 .. Cells |-> IF p < Cells - WIDTH THEN cells[p + WIDTH] ELSE cells[p]]

Shifted(cells) ==
  [p \in 0 .. Cells |-> IF p < Cells - WIDTH THEN cells[p + WIDTH]
                        ELSE IF p < Cells THEN Blank ELSE cells[p]]

\* Mutant: the line is scrolled away but the cursor stays below the screen.
ScrollStay(d, r) ==
  IF r.y >= HEIGHT
  THEN <<[d EXCEPT !.cells = Shifted(@), !.cx = r.x, !.cy = r.y], r>>
  ELSE <<d, r>>

\* scroll(1), with its call of set_cursor.
Scroll(d, r) ==
  IF r.y >= HEIGHT
  THEN <<[d EXCEPT !.cells = Shifted(@), !.cx = r.x, !.cy = r.y - 1], [r EXCEPT !.y = @ - 1]>>
  ELSE <<d, r>>

set_cursor(d, r) == <<[d EXCEPT !.cx = r.x, !.cy = r.y], r>>

get_level_color(level) ==
  IF level \in 0 .. 5 THEN <<64, 4, 12, 12, 14, 15>>[level + 1] ELSE DEFAULT_COLOR

-----------------------------------------------------------------------------
\* A message as a sequence of accesses, and what one of them does.

Access(op, arg) == [op |-> op, arg |-> arg]

\* The sequences of ss, one after the other.
Joined(ss) ==
  LET upto[k \in 0 .. Len(ss)] == IF k = 0 THEN <<>> ELSE upto[k - 1] \o ss[k]
  IN  upto[Len(ss)]

early_vga_putc(ch) ==
  <<Access("switch", ch), Access("cell", ch), Access("column", ch), Access("row", ch),
    Access("scroll", ch), Access("cursor", ch)>>

early_vga_log_write(level, str) ==
  <<Access("color", get_level_color(level))>>
  \o Joined([k \in DOMAIN str |-> early_vga_putc(str[k])])
  \o <<Access("color", DEFAULT_COLOR)>>

WriteTo(sink, level, str) ==
  CASE sink = "" -> <<>>
    [] sink = "VGA" -> early_vga_log_write(level, str)
    [] sink = "UART" -> LET t == early_uart_log_write(level, str)
                        IN  [k \in DOMAIN t |-> Access("serial", t[k])]

_flush(level, str) ==
  Joined([i \in 1 .. MAX_SINKS |-> WriteTo(sinks[i - 1], level, str)])

_vprintkl(m) ==
  LET chunks == Chunks(m.text)
  IN  Joined([k \in DOMAIN chunks |-> _flush(m.level, chunks[k])])

Done(a, d, r) ==
  CASE a.op = "serial" -> <<[d EXCEPT !.serial = Append(@, a.arg)], r>>
    [] a.op = "color" -> <<[d EXCEPT !.color = a.arg], r>>
    [] a.op = "switch" -> Switch(a.arg, d, r)
    [] a.op = "cell" -> PutCell(a.arg, d, r)
    [] a.op = "column" -> WrapColumn(d, r)
    [] a.op = "row" -> WrapRow(d, r)
    [] a.op = "scroll" -> Scroll(d, r)
    [] a.op = "cursor" -> set_cursor(d, r)

NoRegs == [x |-> 0, y |-> 0, wrapped |-> FALSE, position |-> 0]
None == <<>>
Idle == todo = <<>> /\ interrupted = None

Register(name) ==
  LET i == CHOOSE i \in Slots : sinks[i] = "" /\ \A j \in 0 .. i - 1 : sinks[j] # ""
  IN  [sinks EXCEPT ![i] = name]

\* The ghost: who is to write the message.
Owed(m) ==
  [s \in Sinks |->
     IF \E i \in Slots : sinks[i] = s
     THEN due[s] \o [k \in DOMAIN m.text |-> <<m.text[k], m.level>>] ELSE due[s]]

-----------------------------------------------------------------------------
\* entry() after early_vga_clrscr and the registration of both sinks.
Init ==
  /\ sinks = [i \in Slots |-> CASE i = 0 -> "UART" [] i = 1 -> "VGA" [] OTHER -> ""]
  /\ uart_present \in BOOLEAN
  /\ dev = [cells |-> [p \in 0 .. Cells |-> Blank], cx |-> 0, cy |-> 0,
            color |-> DEFAULT_COLOR, serial |-> <<>>]
  /\ todo = <<>> /\ regs = NoRegs /\ interrupted = None
  /\ mode = "boot"
  /\ due = [s \in Sinks |-> <<>>]
  /\ torn = FALSE
  /\ messages = 0 /\ ticks = 0 /\ changes = 0

printk_sink_register(name) ==
  /\ mode = "boot" /\ Idle /\ changes < MaxChanges
  /\ \A i \in Slots : sinks[i] # name
  /\ \E i \in Slots : sinks[i] = ""
  /\ sinks' = Register(name)
  /\ changes' = changes + 1
  /\ UNCHANGED <<uart_present, dev, todo, regs, interrupted, mode, due, torn, messages, ticks>>

printk_sink_unregister(i) ==
  /\ mode = "boot" /\ Idle /\ changes < MaxChanges
  /\ sinks[i] # ""
  /\ sinks' = [sinks EXCEPT ![i] = ""]
  /\ changes' = changes + 1
  /\ UNCHANGED <<uart_present, dev, todo, regs, interrupted, mode, due, torn, messages, ticks>>

\* A call of printk, by boot code with interrupts off or by an exception handler.
printk(m) ==
  /\ mode # "halted" /\ Idle /\ messages < MaxMessages
  /\ todo' = _vprintkl(m)
  /\ due' = Owed(m)
  /\ messages' = messages + 1
  /\ UNCHANGED <<sinks, uart_present, dev, regs, interrupted, mode, torn, ticks, changes>>

\* One of the accesses of a message.
access ==
  /\ todo # <<>>
  /\ LET e == Done(Head(todo), dev, regs) IN dev' = e[1] /\ regs' = e[2]
  /\ todo' = Tail(todo)
  /\ UNCHANGED <<sinks, uart_present, interrupted, mode, due, torn, messages, ticks, changes>>

\* A tick finds the handler's interrupts on, and schedule() prints, with them off.
tick ==
  /\ mode = "handler" /\ interrupted = None /\ ticks < MaxTicks
  /\ todo' = _vprintkl(TickMessage)
  /\ due' = Owed(TickMessage)
  /\ interrupted' = <<[todo |-> todo, regs |-> regs]>>
  /\ torn' = (torn \/ todo # <<>>)
  /\ ticks' = ticks + 1
  /\ UNCHANGED <<sinks, uart_present, dev, regs, mode, messages, changes>>

\* The return to where the tick was taken.
iret ==
  /\ interrupted # None /\ todo = <<>>
  /\ todo' = interrupted[1].todo /\ regs' = interrupted[1].regs
  /\ interrupted' = None
  /\ UNCHANGED <<sinks, uart_present, dev, mode, due, torn, messages, ticks, changes>>

\* An exception is taken through a trap gate once tasks run.
__isr_dispatch ==
  /\ mode = "boot" /\ Idle
  /\ mode' = "handler"
  /\ UNCHANGED <<sinks, uart_present, dev, todo, regs, interrupted, due, torn, messages, ticks, changes>>

\* vpanic has printed and stops the processor.
vpanic_cli ==
  /\ mode = "handler" /\ Idle
  /\ mode' = "halted"
  /\ UNCHANGED <<sinks, uart_present, dev, todo, regs, interrupted, due, torn, messages, ticks, changes>>

Halted == mode = "halted" /\ UNCHANGED vars

Next ==
  \/ \E s \in Sinks : printk_sink_register(s)
  \/ \E i \in Slots : printk_sink_unregister(i)
  \/ \E m \in Messages : printk(m)
  \/ access \/ tick \/ iret \/ __isr_dispatch \/ vpanic_cli \/ Halted

Spec == Init /\ [][Next]_vars

-----------------------------------------------------------------------------
\* Between messages the cursor is on the screen, also after a tick has printed
\* in the middle of early_vga_putc and moved cx and cy under it.
CursorOnScreen ==
  Idle => dev.cx \in 0 .. WIDTH - 1 /\ dev.cy \in 0 .. HEIGHT - 1

\* Paper without end: the cells that have a character, the place of the next one.
NewPaper == [cell |-> <<>>, row |-> 0, col |-> 0]
On(p, row, col) == IF <<row, col>> \in DOMAIN p.cell THEN p.cell[<<row, col>>] ELSE Blank

MoveTo(p, row, col) ==
  [p EXCEPT !.row = IF col >= WIDTH THEN row + 1 ELSE row,
            !.col = IF col >= WIDTH THEN 0 ELSE col]

Ink(p, c) ==
  LET here == <<p.row, p.col>>
  IN  [p EXCEPT !.cell = [q \in DOMAIN @ \cup {here} |-> IF q = here THEN c ELSE @[q]]]

\* A character and its level are typed.
Type(p, e) ==
  CASE e[1] = "\n" -> MoveTo(p, p.row + 1, 0)
    [] e[1] = "\r" -> MoveTo(p, p.row, 0)
    [] e[1] = "\t" -> MoveTo(p, p.row, TAB_WIDTH * (p.col \div TAB_WIDTH + 1))
    [] OTHER -> MoveTo(Ink(p, <<e[1], get_level_color(e[2])>>), p.row, p.col + 1)

Paper(text) ==
  LET typed[k \in 0 .. Len(text)] == IF k = 0 THEN NewPaper ELSE Type(typed[k - 1], text[k])
  IN  typed[Len(text)]

\* The screen shows the last lines of the paper.
Shows(d, p) ==
  LET top == IF p.row >= HEIGHT THEN p.row - HEIGHT + 1 ELSE 0
  IN  /\ d.cx = p.col /\ d.cy = p.row - top /\ d.cells[Cells] = Blank
      /\ \A y \in 0 .. HEIGHT - 1, x \in 0 .. WIDTH - 1 :
           d.cells[y * WIDTH + x] = On(p, top + y, x)

\* Unless a tick came in the middle of a message, the screen shows the last lines
\* of all that the VGA sink was given, in the colours of their levels, however the
\* text was cut into chunks, wrapped and scrolled, and the cursor is where it ends;
\* and nothing has been written beyond the screen.
ScreenIsTail == Idle /\ ~torn => Shows(dev, Paper(due["VGA"]))

\* s without the elements of drop.
Without(s, drop) == Joined([k \in DOMAIN s |-> IF s[k] \in drop THEN <<>> ELSE <<s[k]>>])

Marks == Codes \cup {"ESC[", "\n"}
TickMarks == Marks \cup {TickText[k] : k \in DOMAIN TickText}

\* Between messages all the text that the serial sink was given has been sent: its
\* letters are those of the messages, none lost at the edge of a chunk and none
\* twice, and in order but for ticks, which write theirs in between.
SerialComplete ==
  Idle =>
    LET owed == [k \in DOMAIN due["UART"] |-> due["UART"][k][1]]
    IN  IF ~uart_present THEN dev.serial = <<>>
        ELSE /\ Without(dev.serial, TickMarks) = Without(owed, TickMarks)
             /\ Len(Without(dev.serial, Marks)) = Len(Without(owed, Marks))

\* What early_uart.c says of its reset codes: every newline is sent with the
\* colours reset, so that none bleeds into the next line, also when the message is
\* cut into chunks and when a tick interrupts it, even within a code.
NoBleeding ==
  \A k \in DOMAIN dev.serial :
    dev.serial[k] = "\n" =>
      \E j \in 1 .. k - 2 :
        /\ dev.serial[j] = "ESC[" /\ dev.serial[j + 1] = "0m"
        /\ \A i \in j + 1 .. k - 2 : ~(dev.serial[i] = "ESC[" /\ dev.serial[i + 1] \in Codes)
=============================================================================
