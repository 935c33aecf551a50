SPECIFICATION Spec
CONSTANTS
  Labs = {l1}
  Stops = {s1, s2}
  Reattaches = {r1, r2}
  NoLab = NoLab
  MaxConns = 3
  MaxFaults = 1
  MaxRestarts = 1
INVARIANTS
  ReadyConnects
  TerminatedIsGone
  
PROPERTIES
  LabsSettle
CHECK_DEADLOCK FALSE
