\* Fault-free link; gpnvm_set is given a bit number that does not fit in 16 bits.
CONSTANTS
  Family = "SAM4"
  PageSize = 1
  FlashStart = 8
  NBlocks = 1
  LockedPages <- MCNoLocks
  GpnvmBits = 1
  GpnvmArgs <- MCGpnvmWideArgs
  ErrorClearOnRead = FALSE
  MaxFaults = 0
  MaxOps = 1
  AlignedErase = TRUE
SPECIFICATION Spec
INVARIANT GpnvmSetNamedBit
