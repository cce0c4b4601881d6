INIT ProbeInit
NEXT ProbeNext
CONSTANTS
  Archs <- MCArchs
  Eprocs <- MCEprocs
  NvpsizCodes <- MCNvpsiz
  SramCodes <- MCSram
  VersionCodes <- MCVersions
  ExidValues <- MCExid
  AllocMayFail = TRUE
INVARIANT ProbeTypeOK RegionsTileFlash GpnvmBaseIsBank0
