\* SAM4 region of four 8-page blocks; the flashing layer passes an erase address that is page- but not block-aligned.
CONSTANTS
  Family = "SAM4"
  PageSize = 1
  FlashStart = 4
  NBlocks = 4
  LockedPages <- MCNoLocks
  GpnvmBits = 1
  GpnvmArgs <- MCGpnvmArgs
  ErrorClearOnRead = FALSE
  MaxFaults = 0
  MaxOps = 1
  AlignedErase = FALSE
SPECIFICATION Spec
INVARIANT EraseExact
