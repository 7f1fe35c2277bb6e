------------------------------- MODULE MCFat -------------------------------
(* Model-checking instance of Fat: cluster numbers below 14, two entries in  *)
(* a sector of the FAT, names of three and two characters, LBAs modulo 64.   *)
EXTENDS Fat

Path == <<"s", "y", "s", "t", "/", "k", "e", ".", "b">>
Stored == <<<<"S", "Y", "S", "T", " ">>, <<"K", "E", " ", "B", " ">>>>

E(name, lfn, directory, c) ==
  [name |-> name, lfn |-> lfn, directory |-> directory, cluster |-> c]
Other == E(<<"K", "E", "B", " ", " ">>, FALSE, FALSE, 6)
Deleted(name) == E(<<"E5">> \o Tail(name), FALSE, TRUE, 6)
LastEntry == E(<<"0", " ", " ", " ", " ">>, FALSE, FALSE, 0)
Lfn(name) == E(name, TRUE, TRUE, 7)

\* The root is cluster 2 (and 3, if its chain says so), with the first component in
\* one or the other (and then, if start is 0, it is no directory); the second is in
\* cluster 4, the file anywhere.  Sector At(c, i) is the i-th of cluster c.
Dirs(data, spc, where, start) ==
  LET At(c, i) == (data + (c - 2) * spc + i) % LbaMod
  IN  [l \in 0 .. LbaMod - 1 |->
         CASE l = At(2, 0) -> <<Other, Lfn(Stored[1])>>
           [] l = At(2, 1) ->
                IF where = 2 THEN <<Deleted(Stored[1]), E(Stored[1], FALSE, TRUE, 4)>>
                ELSE <<Deleted(Stored[1]), Other>>
           [] l = At(3, 0) ->
                IF where = 3 THEN <<E(Stored[1], FALSE, start # 0, 4), LastEntry>>
                ELSE <<LastEntry, E(Stored[1], FALSE, TRUE, 4)>>
           [] l = At(4, 0) -> <<Lfn(Stored[2]), Other>>
           [] l = At(4, 1) -> <<E(Stored[2], FALSE, start = 3, start)>>
           [] l = At(9, 0) -> <<E(Stored[1], FALSE, TRUE, 4)>>
           [] OTHER -> <<Other, Other>>]

Words(n2, n3, n5, n6, n7, n9) ==
  [c \in 0 .. 15 |-> IF c = 9 THEN n9
                     ELSE IF c < 8 THEN <<14, 14, n2, n3, 14, n5, n6, n7>>[c + 1] ELSE 14]

\* Two sectors per cluster.  9 is beyond the end of the FAT, and in the larger
\* partition only; 14 ends a chain, 0 marks a free cluster.
Small ==
  {[sectors |-> size, reserved |-> 1, fat_sectors |-> 4, spc |-> 2, root |-> 2,
    dirs |-> Dirs(5, 2, where, start), next |-> Words(n2, n3, n5, n6, n7, 5)] :
     size \in {14, 21}, where \in 2 .. 4, start \in {0, 3, 5}, n2 \in {3, 14},
     n3 \in {2, 6, 14}, n5 \in {0, 6, 9, 14}, n6 \in {5, 7}, n7 \in {0, 14}}

\* No sectors in a cluster, or eight, when cluster 9 reaches beyond LbaMod.
Odd ==
  {[sectors |-> size, reserved |-> 1, fat_sectors |-> fat, spc |-> spc, root |-> root,
    dirs |-> Dirs(1 + fat, spc, 2, start), next |-> Words(14, 14, n5, 14, 14, n9)] :
     size \in {0, 40}, fat \in {4, 6}, spc \in {0, 8}, root \in {2, 9},
     start \in {5, 9}, n5 \in {9, 14}, n9 \in {5, 14}}

MCVolumes == Small \cup Odd
=============================================================================
