------------------------------ MODULE MCBuddy ------------------------------
EXTENDS Buddy

MCSize == [k \in 0 .. MaxOrder |-> 2 ^ k]

\* All of memory, memory with the kernel image and bootmem pool in it, and
\* memory whose ends are not aligned.
MCRamSets ==
  {Pages, Pages \ {2, 3}, 1 .. NrPages - 2}

\* Behaviours are followed up to the first left merge.
UpToLeftMerge == ~left_merged
=============================================================================
