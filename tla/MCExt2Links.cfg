SPECIFICATION ExtSpec
CONSTANTS
  Modules <- MCModules
  RamDiskPath = "ramdisk"
  Lookups = {"d", "f", "s", "up"}
  SymlinkMax = 60
CHECK_DEADLOCK FALSE
INVARIANT LinkReadsTarget
