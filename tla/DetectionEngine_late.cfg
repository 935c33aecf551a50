SPECIFICATION Spec

CONSTANTS
  Writers = {"collector", "shell"}
  Cycles = {"loop", "validation"}
  Sources = {"a"}
  Lags = {1}
  Limit = 3
  Threshold = 2
  Timeframe = 2
  IncidentWindow = 2
  WholeSeconds = TRUE
  StaleRefused = FALSE
  MaxRows = 3
  MaxDisturbances = 1

CHECK_DEADLOCK FALSE

INVARIANTS
  
  EvidenceFiled
