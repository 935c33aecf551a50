---------------------------- MODULE PlatformReset ----------------------------
(***************************************************************************)
(* Resetting and populating the platform's data while the collector, the   *)
(* detection engine and the analysts keep working (services/data_admin.py, *)
(* endpoints/diagnostics.py).                                              *)
(*                                                                         *)
(* A row is the sensor's line it comes from.  TRUNCATE commits at once and *)
(* waits for every transaction that has used its table; a transaction that *)
(* has not used it yet does not make it wait.                              *)
(***************************************************************************)
EXTENDS Naturals, Sequences

CONSTANTS
  LogLines,  \* lines sensors and the corpus write
  MaxCycles, \* bound on the collector's and the engine's transactions
  MaxJobs    \* bound on the jobs

VARIABLES
  logs,      \* the sensors' log files
  written,   \* lines written so far
  sensors,   \* the sensors run
  contents,  \* what is in the tables
  worker,    \* transactions of the platform's background tasks and analysts
  cycles,    \* transactions so far
  job,       \* JOB, with the step the job is at
  jobs,      \* jobs so far
  old,       \* history: lines written before the logs were last emptied
  overtaken, \* history: the wipe met a collector's cycle with such lines
  stranded   \* history: the sensors are down by a crash or Docker's failure

platform == <<logs, written, sensors>>
work == <<contents, worker, cycles>>
resetPast == <<old, overtaken, stranded>>
resetVars == <<platform, work, job, jobs, resetPast>>

(* DATA_TABLES, as far as these tasks use them, in their order.            *)
DATA_TABLES == <<"normalized_events", "raw_events", "ingest_cursors", "attacker_sessions",
                 "detections", "incident_events", "incidents">>

Tables == {DATA_TABLES[i] : i \in DOMAIN DATA_TABLES}

Reads == [collector |-> "ingest_cursors", engine |-> "normalized_events", desk |-> "incidents"]
Writes == [collector |-> <<"normalized_events", "raw_events", "ingest_cursors">>,
           engine |-> <<"attacker_sessions", "detections", "incidents", "incident_events">>,
           desk |-> <<"incident_events">>]

Off == [on |-> FALSE, used |-> {}, lines |-> {}, ready |-> FALSE, left |-> <<>>]
NoJob == [kind |-> "none", status |-> "idle", step |-> "none", failing |-> FALSE]

-----------------------------------------------------------------------------
(* Transactions of the collector, the engine and the desk.                 *)

BeginWork(w) ==
  /\ ~ worker[w].on /\ cycles < MaxCycles
  /\ worker' = [worker EXCEPT ![w] =
                  [on |-> TRUE, used |-> {Reads[w]}, lines |-> contents[Reads[w]],
                   ready |-> w # "collector", left |-> Writes[w]]]
  /\ cycles' = cycles + 1
  /\ UNCHANGED <<platform, contents, job, jobs, resetPast>>

(* The collector reads the logs after it has read its cursors.             *)
FetchLogs ==
  LET c == worker["collector"]
  IN  /\ c.on /\ ~ c.ready /\ logs \ c.lines # {}
      /\ worker' = [worker EXCEPT !["collector"].lines = logs \ @,
                                  !["collector"].ready = TRUE]
      /\ UNCHANGED <<platform, contents, cycles, job, jobs, resetPast>>

UseTable(w) ==
  /\ worker[w].ready /\ worker[w].left # <<>>
  /\ worker' = [worker EXCEPT ![w].used = @ \cup {Head(worker[w].left)},
                              ![w].left = Tail(@)]
  /\ UNCHANGED <<platform, contents, cycles, job, jobs, resetPast>>

CommitTask(w) ==
  /\ worker[w].ready /\ worker[w].left = <<>>
  /\ contents' = [t \in Tables |-> IF \E i \in DOMAIN Writes[w] : Writes[w][i] = t
                               THEN contents[t] \cup worker[w].lines ELSE contents[t]]
  /\ worker' = [worker EXCEPT ![w] = Off]
  /\ UNCHANGED <<platform, cycles, job, jobs, resetPast>>

(* Nothing to do, or the database refuses.                                 *)
Rollback(w) ==
  /\ worker[w].on
  /\ worker' = [worker EXCEPT ![w] = Off]
  /\ UNCHANGED <<platform, contents, cycles, job, jobs, resetPast>>

-----------------------------------------------------------------------------
(* The job.                                                                *)

(* start: one job at a time.                                               *)
StartJob(kind) ==
  /\ job.status # "running" /\ jobs < MaxJobs
  /\ job' = [kind |-> kind, status |-> "running", failing |-> FALSE,
             step |-> IF kind = "reset" THEN "sandboxes" ELSE "populate"]
  /\ jobs' = jobs + 1
  /\ UNCHANGED <<platform, work, resetPast>>

OnStep(step) == job.status = "running" /\ job.step = step
Go(step) == job' = [job EXCEPT !.step = step] /\ UNCHANGED jobs
End(status) == job' = [job EXCEPT !.status = status, !.step = "none"] /\ UNCHANGED jobs

StopSandboxes ==
  /\ OnStep("sandboxes") /\ Go("stop")
  /\ UNCHANGED <<platform, work, resetPast>>

(* A sensor that cannot be stopped is logged and goes on.                  *)
StopSensors ==
  /\ OnStep("stop") /\ Go("empty")
  /\ sensors' \in {sensors, FALSE}
  /\ UNCHANGED <<logs, written, work, resetPast>>

EmptyLogs ==
  /\ OnStep("empty") /\ Go("wait")
  /\ logs' = {} /\ old' = written
  /\ UNCHANGED <<written, sensors, work, overtaken, stranded>>

(* Five seconds, in which a cycle in flight ends or does not.              *)
AwaitCycle ==
  /\ OnStep("wait") /\ Go(DATA_TABLES[1])
  /\ overtaken' = (worker["collector"].ready /\ worker["collector"].lines \cap old # {})
  /\ UNCHANGED <<platform, work, old, stranded>>

Truncate(i) ==
  /\ OnStep(DATA_TABLES[i]) /\ \A w \in DOMAIN worker : DATA_TABLES[i] \notin worker[w].used
  /\ contents' = [contents EXCEPT ![DATA_TABLES[i]] = {}]
  /\ Go(IF i = Len(DATA_TABLES) THEN "dirs" ELSE DATA_TABLES[i + 1])
  /\ UNCHANGED <<platform, worker, cycles, resetPast>>

ClearDirectories ==
  /\ OnStep("dirs") /\ Go("start")
  /\ UNCHANGED <<platform, work, resetPast>>

(* The finally clause; a sensor that cannot be started is logged.          *)
StartSensors ==
  /\ OnStep("start")
  /\ \/ sensors' = TRUE /\ stranded' = FALSE
     \/ UNCHANGED sensors /\ stranded' = (stranded \/ ~ sensors)
  /\ IF job.failing THEN End("failed") ELSE Go("inventory")
  /\ UNCHANGED <<logs, written, work, old, overtaken>>

(* Faulty: there is no finally clause.                                     *)
FailAtOnce ==
  /\ job.status = "running" /\ job.step # "start"
  /\ End("failed")
  /\ UNCHANGED <<platform, work, resetPast>>

(* An exception, before the sensors are stopped or after.                  *)
FailJob ==
  /\ job.status = "running" /\ job.step # "start"
  /\ IF job.step \in {"sandboxes", "stop", "populate", "inventory"} THEN End("failed")
     ELSE job' = [job EXCEPT !.step = "start", !.failing = TRUE] /\ UNCHANGED jobs
  /\ UNCHANGED <<platform, work, resetPast>>

(* The corpus and the attack waves put lines into the logs.                *)
Populate ==
  /\ OnStep("populate")
  /\ \E new \in SUBSET (LogLines \ written) :
       logs' = logs \cup new /\ written' = written \cup new
  /\ Go("inventory")
  /\ UNCHANGED <<sensors, work, resetPast>>

CountRows ==
  /\ OnStep("inventory") /\ End("done")
  /\ UNCHANGED <<platform, work, resetPast>>

-----------------------------------------------------------------------------
WriteLog ==
  /\ sensors
  /\ \E l \in LogLines \ written : logs' = logs \cup {l} /\ written' = written \cup {l}
  /\ UNCHANGED <<sensors, work, job, jobs, resetPast>>

(* The backend's process ends, and with it the job, its lock and every     *)
(* transaction; the sensors are as they were.                              *)
LoseJob ==
  /\ job.status = "running"
  /\ worker' = [w \in DOMAIN worker |-> Off]
  /\ job' = NoJob
  /\ stranded' = ~ sensors
  /\ UNCHANGED <<platform, contents, cycles, jobs, old, overtaken>>

ResetInit ==
  /\ logs = {} /\ written = {} /\ sensors = TRUE
  /\ contents = [t \in Tables |-> {}]
  /\ worker = [w \in DOMAIN Writes |-> Off] /\ cycles = 0
  /\ job = NoJob /\ jobs = 0
  /\ old = {} /\ overtaken = FALSE /\ stranded = FALSE

Task(w) == BeginWork(w) \/ UseTable(w) \/ CommitTask(w) \/ Rollback(w)

Job ==
  \/ \E kind \in {"reset", "populate"} : StartJob(kind)
  \/ StopSandboxes \/ StopSensors \/ EmptyLogs \/ AwaitCycle
  \/ \E i \in DOMAIN DATA_TABLES : Truncate(i)
  \/ ClearDirectories \/ StartSensors \/ CountRows \/ FailJob \/ Populate

ResetNext ==
  \/ \E w \in DOMAIN Writes : Task(w)
  \/ FetchLogs \/ WriteLog
  \/ Job
  \/ LoseJob

ResetSpec == ResetInit /\ [][ResetNext]_resetVars

-----------------------------------------------------------------------------
(* Properties.                                                             *)

(* What a reset that went through has wiped does not come back: no row of  *)
(* a line from before is left, though cycles ran all the while, because    *)
(* each table is wiped before those made from it (DATA_TABLES).  Excepted  *)
(* are a collector's cycle longer than the five seconds the job waits, and *)
(* what analysts hang onto an incident meanwhile, which is wiped last.     *)
WipedForGood ==
  job.kind = "reset" /\ job.status = "done" /\ ~ overtaken =>
    \A t \in Tables \ {"incident_events"} : contents[t] \cap old = {}

(* The sensors run again after a job, whichever of its steps failed.       *)
SensorsReturn == job.status # "running" /\ ~ sensors => stranded

(* What a job leaves: no old rows, and sensors that run.                   *)
ResetHolds == WipedForGood /\ SensorsReturn

=============================================================================
