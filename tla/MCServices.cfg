SPECIFICATION ServicesSpec

CONSTANTS
  Users = {"admin", "ann"}
  Root = "admin"
  Links = {l1, l2}
  Requests = {r1, r2}
  NoRequest = NoRequest
  NoLink = NoLink
  RateLimit = 1
  StaleRefused = TRUE
  MaxRequests = 2
  Tasks = {t1, t2}
  NoTask = NoTask
  Sources = {"a", "b"}
  Notes = {"n1", "n2"}
  LastSecond = 2
  Margin = 0
  Window = 1
  MaxLinked = 1
  MaxIncidents = 2
  MaxTasks = 2
  ConflictsRefused = TRUE
  Posts = {p1, p2, p3}
  LastMoment = 1
  Gap = 0
  Batch = 1
  MaxRewrites = 1
  Owners = {"o1", "o2"}
  Sessions = {"s1", "s2"}
  Ptys = {}
  Peers = {}
  Texts = {}
  MaxSessions = 1
  MaxCommands = 0
  MaxFaults = 1
  LogLines = {1, 2}
  MaxCycles = 2
  MaxJobs = 1
  Keys = {"k"}
  S3Events = {"x", "y"}
  Pulls = {"pull"}
  MarksRefused = TRUE
  Remembered = 1
  LastPoll = 3
  MaxReads = 4
  MaxPollFaults = 1
  Samples = {"s1", "s2", "s3"}
  Papers = {"dump", "file"}
  Long = {"dump"}
  TextPapers = {"dump"}
  Cases <- SampleCases
  ReportCap = 2
  HistoryCap = 1
  MaxRuns = 3
  MaxCrashes = 1
  ScenarioRuns = {"r1", "r2"}
  Recent = 2
  LastTick = 7
  MaxEvents = 2
  MaxFailures = 1
  Clouds = {"l1"}
  Stoppers = {"s1", "s2"}
  MaxApiFaults = 3
  MaxApiRestarts = 2
  Apps = {"a1"}
  MobsfRequests = {"q1", "q2"}
  MobsfPorts = {1, 2}
  Severities <- SeverityWords
  Reports <- ScanReports
  MaxTroubles = 2
  Lines <- SensorLines
  Words <- WordsOfTypes
  DropLoopback = FALSE
  LastClock = 2
  RuleFiles = {"f1", "f2"}
  MaxWrites = 2
  Sensors = {"COWRIE"}
  TTL = 1
  Recency = 1
  LastProbe = 2
  MaxBytes = 2
  MaxChanges = 2
  MaxRefusals = 1

CHECK_DEADLOCK FALSE

INVARIANTS
  SingleUse
  
  SyncedIsStructured
  ResetHolds
  
  AnalysesHold
  
  
  
  
  ShownIsTrue
  LimitsHoldInTurn
  OnlyKnownLeaks

PROPERTIES
  BlockHolds
  
  HistoryIsOfScans
