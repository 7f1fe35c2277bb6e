SPECIFICATION Spec
CONSTANTS
  E820_MAX_ENTRIES = 3
  AddrMod = 8
  FirmwareMaps <- MCFirmwareMaps
INVARIANTS
  TypeOK
  LargestTypeWins
  SanitizedWellFormed
  LastRamIsTop
