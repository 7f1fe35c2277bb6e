---------------------------- MODULE MCBootMemory ----------------------------
(* Model-checking instance of BootMemory: pages of eight bytes, large pages of *)
(* four pages, the kernel in the second large page.                          *)
EXTENDS BootMemory

\* The memory map changes its type only at these addresses: page and large page
\* boundaries and other addresses, up to beyond the identity mapping.
Cuts == <<0, 12, 16, 24, 32, 60, 72, 128, 150, 192, 256, 320>>

\* From the types of the stretches between the cuts to the map.
MapOf(types) ==
  LET n == Len(types)
      begins(i) == types[i] # 0 /\ (i > 1 => types[i - 1] # types[i])
      past(i) == Min({j \in i .. n : types[j] # types[i]} \cup {n + 1})
      starts == SelectSeq([i \in 1 .. n |-> i], begins)
  IN  [k \in DOMAIN starts |-> [addr |-> Cuts[starts[k]],
                                size |-> Cuts[past(starts[k])] - Cuts[starts[k]],
                                type |-> types[starts[k]]]]

\* Low memory, the VGA hole, the kernel's RAM, then anything, with enough RAM in it
\* for many of the boots to succeed.
MCSanitizedMaps ==
  {MapOf(<<1, l, v, k, 1, t[1], h, t[2], t[3], t[4], t[5]>>) :
     l \in {0, 2}, v \in {0, 2}, k \in {0, 1}, h \in {1, 2}, t \in [1 .. 5 -> 0 .. 3]}
=============================================================================
