\* One transport fault: gpnvm_get ignores the result of GGPB and prints EEFC_FRR anyway.
CONSTANTS
  Family = "SAM4"
  PageSize = 1
  FlashStart = 8
  NBlocks = 1
  LockedPages <- MCNoLocks
  GpnvmBits = 1
  GpnvmArgs <- MCGpnvmArgs
  ErrorClearOnRead = FALSE
  MaxFaults = 1
  MaxOps = 2
  AlignedErase = TRUE
SPECIFICATION Spec
INVARIANT GpnvmShown
