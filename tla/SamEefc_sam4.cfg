\* SAM4S/SAMx7x region (two 8-page blocks, the second locked), fault-free link, sticky FSR error bits; also checks that the driver implements FlashOps.
CONSTANTS
  Family = "SAM4"
  PageSize = 1
  FlashStart = 4
  NBlocks = 2
  LockedPages <- MCSam4Locked
  GpnvmBits = 1
  GpnvmArgs <- MCGpnvmArgs
  ErrorClearOnRead = FALSE
  MaxFaults = 0
  MaxOps = 3
  AlignedErase = TRUE
SPECIFICATION Spec
INVARIANT TypeOK CmdInv CmdResultFaithful EraseExact WriteLands GpnvmShown GpnvmSetNamedBit RefInv OpSync
PROPERTY OpTerminates AbsSpec FlashChangesInRequest
