SPECIFICATION Spec

CONSTANTS
  short = short
  long = long
  huge = huge
  noise = noise
  Live = {"cowrie", "dionaea"}
  Archive = {}
  Truncatable = {}
  Events = {short}
  Unusable = {}
  LineLen <- MCLineLen
  MAX_BYTES_PER_FILE = 2
  MAX_FILES_PER_CYCLE = 1
  MaxChunks = 2
  MaxIds = 2
  MaxFaults = 0

PROPERTIES
  EveryLineIngested
