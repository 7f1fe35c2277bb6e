\* Eight pages, blocks of up to four: all behaviours up to the first left merge.
CONSTANTS
  NrPages = 8
  MaxOrder = 2
  Size <- MCSize
  RamSets <- MCRamSets
SPECIFICATION Spec
CONSTRAINT UpToLeftMerge
INVARIANTS
  TypeOK
  Partition
  FreeListsExact
  Coalesced
  SplitFindsTail
  GroupingAccounts
PROPERTY KeepsContract
