SPECIFICATION FairSpec
CONSTANTS
  FAT_EOC = 14
  FAT_ENTRIES = 2
  NAME_LEN = 3
  NAME_EXT_LEN = 5
  KERNEL_FILE <- Path
  Components <- Stored
  Volumes <- MCVolumes
  LbaMod = 64
  MaxLoaded = 128
INVARIANTS
  LoadedIsFile
  ReadsInPartition
PROPERTY
  BootEnds
