\* Reliable link: `monitor gpnvm_set 1 1` on a device with one GPNVM bit; the controller answers FCMDE and the handler returns true.
CONSTANTS
  Family = "SAM4"
  PageSize = 1
  FlashStart = 8
  NBlocks = 1
  LockedPages <- MCNoLocks
  GpnvmBits = 1
  GpnvmArgs <- MCGpnvmArgs
  ErrorClearOnRead = FALSE
  MaxFaults = 0
  MaxOps = 1
  AlignedErase = TRUE
SPECIFICATION Spec
INVARIANT GpnvmSetReportsError
