SPECIFICATION Spec
CONSTANTS
  PAGE_SIZE = 8
  ENTRIES = 4
  PML4_ENTRIES = 6
  HHDM_BASE = 1536
  MEM_MAP_ADDR = 2048
  KERNEL_VMA = 2560
  KERNEL_PHYS = 32
  KERNEL_END = 37
  LOW_MAP_END = 128
  VGA = 16
  VGA_SIZE = 8
  STRUCT_PAGE = 1
  SanitizedMaps <- MCSanitizedMaps
INVARIANTS
  TypeOK
  PoolTakesRam
  PoolAccounts
  HhdmExact
  MemMapMapped
  ReleasedExactly
  ConsoleMapped
