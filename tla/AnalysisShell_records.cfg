SPECIFICATION Spec
CONSTANTS
  Owners = {o1}
  Sessions = {s1}
  Ptys = {p1, p2}
  Peers = {a1}
  Texts = {c1}
  MaxSessions = 2
  MaxCommands = 2
  MaxFaults = 1
INVARIANTS
  CommandsCounted
PROPERTIES
  ExpiredIsReaped
CHECK_DEADLOCK FALSE
