INIT ProbeInit
NEXT ProbeNext
CONSTANTS
  Archs <- MCArchsSam3U
  Eprocs <- MCEprocs
  NvpsizCodes <- MCNvpsiz
  SramCodes <- MCSram
  VersionCodes <- MCVersions
  ExidValues <- MCExid
  AllocMayFail = FALSE
INVARIANT FlashSizeAccounted
