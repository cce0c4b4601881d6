INIT ProbeInit
NEXT ProbeNext
CONSTANTS
  Archs <- MCArchsX7x
  Eprocs <- MCEprocs
  NvpsizCodes <- MCNvpsizSome
  SramCodes <- MCSram
  VersionCodes <- MCVersions
  ExidValues <- MCExid
  AllocMayFail = TRUE
INVARIANT FailedProbeLeavesNoState
