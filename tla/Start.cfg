SPECIFICATION Spec
CONSTANTS
  NESTING_LIMIT = 3
  INT_MAX = 99999
  NULL = NULL
  Files <- MCFiles
  Unknown = Unknown
  Stacks <- MCStacks
  BUFFER = 128
  Addresses <- MCAddresses
  NUM_THREADS = 2
INVARIANTS ParsedIsWritten CutIsRefused ParserMemory ServesAsConfigured ReturnedIsOpen ArgOutlivesThreads
