SPECIFICATION Spec
CONSTANTS
  Labs = {l1}
  Stops = {s1}
  Reattaches = {r1}
  NoLab = NoLab
  MaxConns = 1
  MaxFaults = 0
  MaxRestarts = 0
INVARIANT StopRevokes
CHECK_DEADLOCK FALSE
