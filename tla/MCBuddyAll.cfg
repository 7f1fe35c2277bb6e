\* Three pages, all behaviours, left merges and what follows them included.
CONSTANTS
  NrPages = 3
  MaxOrder = 2
  Size <- MCSize
  RamSets <- MCRamSets
SPECIFICATION Spec
INVARIANT OnlyRam
