\* Four pages: a free list leads to an allocated page after a left merge.
CONSTANTS
  NrPages = 4
  MaxOrder = 2
  Size <- MCSize
  RamSets <- MCRamSets
SPECIFICATION Spec
INVARIANT ListedIsFree
