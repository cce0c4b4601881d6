\* One transport fault: sam3x_flash_cmd only consults target_check_error while FRDY is clear.
CONSTANTS
  Family = "SAM4"
  PageSize = 1
  FlashStart = 8
  NBlocks = 1
  LockedPages <- MCNoLocks
  GpnvmBits = 1
  GpnvmArgs <- MCGpnvmArgs
  ErrorClearOnRead = FALSE
  MaxFaults = 1
  MaxOps = 2
  AlignedErase = TRUE
SPECIFICATION Spec
INVARIANT CmdResultFaithful
