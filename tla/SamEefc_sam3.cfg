\* SAM3X/N/U region: one-page blocks, erase is a no-op, writes use EWP; one page locked.
CONSTANTS
  Family = "SAM3"
  PageSize = 1
  FlashStart = 4
  NBlocks = 4
  LockedPages <- MCSam3Locked
  GpnvmBits = 1
  GpnvmArgs <- MCGpnvmArgs
  ErrorClearOnRead = FALSE
  MaxFaults = 0
  MaxOps = 3
  AlignedErase = TRUE
SPECIFICATION Spec
INVARIANT WriteLands OpSync
