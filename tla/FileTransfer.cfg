SPECIFICATION FairTransferSpec
CONSTANTS
  MaxSize = 7
  CHUNK = 3
  Capacity = 4
  Modulus = 8
INVARIANTS
  TransferTypeOK
  StreamIsPrefix
  CompletedIsWhole
PROPERTIES
  DownloadEnds
  Refinement
