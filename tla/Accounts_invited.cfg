SPECIFICATION AccountsSpec

CONSTANTS
  Users = {"admin", "ann"}
  Root = "admin"
  Links = {l1, l2}
  Requests = {r1, r2}
  NoRequest = NoRequest
  NoLink = NoLink
  RateLimit = 1
  StaleRefused = TRUE
  MaxRequests = 2

CHECK_DEADLOCK FALSE

INVARIANTS
  FormsActivate
