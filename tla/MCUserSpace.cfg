SPECIFICATION Spec
CONSTANTS
  PAGE_SIZE = 1
  ENTRIES = 4
  PML4_ENTRIES = 4
  HHDM_BASE = 128
  LOW_MAP_END = 16
  KERNEL_PHYS = 1
  KERNEL_END = 2
  MEM_MAP_ADDR = 0
  KERNEL_VMA = 0
  VGA = 0
  VGA_SIZE = 0
  RamPages <- MCRamPages
  Places = {3, 4, 14}
  Orders = {1, 2}
  MaxSpaces = 2
INVARIANTS
  OwnershipExact
  MappingsExact
  TableInUseLive
