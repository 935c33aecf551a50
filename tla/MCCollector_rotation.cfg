SPECIFICATION Spec

CONSTANTS
  short = short
  long = long
  huge = huge
  noise = noise
  Live = {"cowrie"}
  Archive = {"kept"}
  Truncatable = {"cowrie"}
  Events = {long, huge, noise}
  Unusable = {noise}
  LineLen <- MCLineLen
  MAX_BYTES_PER_FILE = 2
  MAX_FILES_PER_CYCLE = 2
  MaxChunks = 4
  MaxIds = 3
  MaxFaults = 1

INVARIANTS
  TypeOK
  CursorVouches
  

PROPERTIES
  FeedIsDurable
  
