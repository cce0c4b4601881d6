\* SAM4 region over a link that may fail twice: every operation still returns.
CONSTANTS
  Family = "SAM4"
  PageSize = 1
  FlashStart = 8
  NBlocks = 1
  LockedPages <- MCNoLocks
  GpnvmBits = 1
  GpnvmArgs <- MCGpnvmArgs
  ErrorClearOnRead = FALSE
  MaxFaults = 2
  MaxOps = 2
  AlignedErase = TRUE
SPECIFICATION Spec
PROPERTY OpTerminates
