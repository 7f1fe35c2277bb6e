--------------------------- MODULE PageAllocator ---------------------------
(***************************************************************************)
(* What alloc_pages and free_pages promise their callers, whatever data    *)
(* structure is behind them: a block that is handed out consists of free   *)
(* RAM pages and overlaps no other block that is handed out.               *)
(*                                                                         *)
(* The promise may lapse: once broken is TRUE nothing is required.  An     *)
(* implementation says through the value it substitutes for broken up to   *)
(* which event it keeps the promise (for Buddy, the first merge of a       *)
(* freed block into the buddy on its left).                                *)
(***************************************************************************)
EXTENDS Integers

CONSTANTS Pages, Orders, Size, RamSets

VARIABLES ram, held, broken

vars == <<ram, held, broken>>

Block(p, k) == p .. p + Size[k] - 1

Init ==
  /\ ram \in RamSets
  /\ held = {}
  /\ broken = FALSE

Alloc(p, k) ==
  /\ ~broken /\ ~broken'
  /\ Block(p, k) \subseteq ram
  /\ \A b \in held : Block(p, k) \cap Block(b[1], b[2]) = {}
  /\ held' = held \cup {<<p, k>>}
  /\ UNCHANGED ram

Free(b) ==
  /\ ~broken /\ ~broken'
  /\ b \in held
  /\ held' = held \ {b}
  /\ UNCHANGED ram

Lapse == broken'

Next ==
  \/ \E p \in Pages, k \in Orders : Alloc(p, k)
  \/ \E b \in held : Free(b)
  \/ Lapse

Spec == Init /\ [][Next]_vars
=============================================================================
