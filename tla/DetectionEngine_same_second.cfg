SPECIFICATION Spec

CONSTANTS
  Writers = {"collector"}
  Cycles = {"loop"}
  Sources = {"a"}
  Lags = {0}
  Limit = 3
  Threshold = 2
  Timeframe = 2
  IncidentWindow = 2
  WholeSeconds = TRUE
  StaleRefused = TRUE
  MaxRows = 2
  MaxDisturbances = 0

CHECK_DEADLOCK FALSE

PROPERTIES
  EventuallyExamined
