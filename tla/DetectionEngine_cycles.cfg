SPECIFICATION Spec

CONSTANTS
  Writers = {"collector"}
  Cycles = {"loop", "validation"}
  Sources = {"a"}
  Lags = {0}
  Limit = 2
  Threshold = 2
  Timeframe = 3
  IncidentWindow = 2
  WholeSeconds = FALSE
  StaleRefused = TRUE
  MaxRows = 3
  MaxDisturbances = 2

CHECK_DEADLOCK FALSE

INVARIANTS
  TypeOK
  
  NoLostWakeup
  EffectsOnce
  OneCase


  
