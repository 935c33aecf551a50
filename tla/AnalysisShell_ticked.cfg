SPECIFICATION Spec
CONSTANTS
  Owners = {o1}
  Sessions = {s1}
  Ptys = {p1}
  Peers = {a1}
  Texts = {c1}
  MaxSessions = 2
  MaxCommands = 2
  MaxFaults = 0
INVARIANT AttemptsRecorded
CHECK_DEADLOCK FALSE
