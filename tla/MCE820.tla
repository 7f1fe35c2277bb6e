------------------------------- MODULE MCE820 -------------------------------
(* Model-checking instance of E820: every map of up to two entries over a   *)
(* few addresses (the last entry may end beyond the address space), a       *)
(* selection of three and four, and a table of three entries, so that       *)
(* sweeps of up to five pieces overflow it.                                 *)
EXTENDS E820

SmallEntries == [addr : 0 .. 4, size : {0, 1, 2, 4}, type : 1 .. 3]
FirstEntries == {e \in SmallEntries : e.addr <= 2 /\ e.size # 1}

MCFirmwareMaps ==
  {<<>>} \cup {<<e>> : e \in SmallEntries}
  \cup {<<e, f>> : e, f \in SmallEntries}
  \cup {<<e, f, g>> : e, f \in FirstEntries, g \in {h \in SmallEntries : h.type # 1}}
  \cup {<<e, e, f, f>> : e, f \in FirstEntries}
=============================================================================
