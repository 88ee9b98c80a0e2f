SPECIFICATION FairSpec
CONSTANTS
  Names = {f, g}
  v = v
  w = w
  Versions = {v, w}
  SizeOf <- MCSizeOf
  Conns = {c}
  None = None
INVARIANTS TypeOK  FreedOnlyIfReplaced 
 
