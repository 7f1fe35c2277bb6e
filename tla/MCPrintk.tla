------------------------------ MODULE MCPrintk ------------------------------
EXTENDS Printk

MCBits == [hh |-> 3, h |-> 4, none |-> 5, l |-> 6]

Conversion(c, f, w, p, l, a) ==
  [conv |-> c, flags |-> f, width |-> w, precision |-> p, len |-> l, arg |-> a]
Plain(c, a) == Conversion(c, {}, 0, -1, "none", a)

\* Arguments around zero and around the limits of each of the four types.
Args == {0, 1, 4, 7, 8, 15, 16, 31, 32, 63}

Integers1 ==
  {Conversion(c, f, w, p, l, a) :
     c \in {"d", "u", "o", "x", "X"}, f \in SUBSET {"-", "+", " ", "#", "0"},
     w \in {-3, 0, 4}, p \in {-1, 0, 3}, l \in Lengths, a \in Args}

Wide == {Conversion("c", f, w, -1, "l", a) : f \in {{}, {"-"}}, w \in {0, 3},
           a \in {65, 127, 128, 2047, 2048, 65535, 65536, 1114111, 1114112}}

Others ==
  {Plain("literal", "a"), Plain("unknown", <<"%", "y">>), Plain("incomplete", "%"),
   Plain("d", 31), Plain("c", "b"), Plain("n", 0), Conversion("n", {}, 0, -1, "hh", 1)}
  \cup {Conversion("s", f, w, p, "none", a) : f \in {{}, {"-"}}, w \in {0, 3},
          p \in {-1, 1}, a \in {<<>>, <<"a", "b">>, NullString}}
  \cup {Conversion("s", {}, 3, p, "l", a) : p \in {-1, 1}, a \in {<<65, 2048>>, NullString}}
  \cup {Conversion("p", f, w, -1, "none", a) : f \in {{}, {"-"}}, w \in {0, 5}, a \in {0, 31}}

MCFormats ==
  {<<i>> : i \in Integers1 \cup Wide}
  \cup {<<i, j, Plain("n", 1)>> : i \in Others, j \in Others}
=============================================================================
