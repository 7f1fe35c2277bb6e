\* Four pages: the assertion of alloc_pages fails after left merges.
CONSTANTS
  NrPages = 4
  MaxOrder = 2
  Size <- MCSize
  RamSets <- MCRamSets
SPECIFICATION Spec
INVARIANT UpperHalfIsTail
