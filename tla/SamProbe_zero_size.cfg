INIT ProbeInit
NEXT ProbeNext
CONSTANTS
  Archs <- MCArchs
  Eprocs <- MCEprocs
  NvpsizCodes <- MCNvpsizSome
  SramCodes <- MCSram
  VersionCodes <- MCVersions
  ExidValues <- MCExid
  AllocMayFail = FALSE
INVARIANT ProbeTrueMeansUsableRegion
