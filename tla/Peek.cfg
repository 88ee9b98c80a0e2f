SPECIFICATION FairSpec
CONSTANTS
  Files <- MCFiles
  MaxFiles = 3
  Capacity = 12
  BUFFER = 8
  REQUEST = 5
  FILE_NAME_SPACE = 3
  FILE_SIZE_SPACE = 2
  MaxListed = 4
INVARIANTS PeekTypeOK RightUnlessRefused
PROPERTIES PeekEnds
