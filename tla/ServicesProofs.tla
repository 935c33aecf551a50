--------------------------- MODULE ServicesProofs ---------------------------
(* The theorems about the platform's smaller services, one part for each   *)
(* module: the sync manager, the reset job, the rule store, the sensor     *)
(* monitor, the cloud instances, the MobSF service, the normaliser's       *)
(* ingestion, the S3 pipeline, detection validation and the analysis of    *)
(* samples.                                                                *)
EXTENDS SessionIntake, PlatformReset, RuleBook, SensorMonitor, CloudLabs,
        MobileScans, Normalizer, S3Pipeline, DetectionValidation,
        SampleAnalysis, Integers, TLAPS, FiniteSetTheorems,
        WellFoundedInduction

-----------------------------------------------------------------------------
(* SessionIntake.                                                          *)

(* A row of raw_events, whatever its moment and session.                   *)
IsRow(row) == row = [at |-> row.at, session |-> row.session, status |-> row.status]

RawType == /\ raw = [p \in Posts |-> raw[p]]
           /\ \A p \in Posts : IsRow(raw[p])

(* A batch is of posted events, so that a failed one leaves nothing and a  *)
(* successful one copies rows that are there; events do not disappear.     *)
SyncInv ==
  /\ RawType
  /\ syncing \subseteq Posted
  /\ SyncedIsStructured

LEMMA InitSync == IntakeInit => SyncInv
  BY DEF IntakeInit, SyncInv, RawType, IsRow, Posted, NotPosted, SyncedIsStructured

(* Setting the sessions of the rows leaves their statuses alone.           *)
LEMMA SessionsOnly ==
  ASSUME SyncInv, NEW into,
         raw' = [p \in Posts |-> [raw[p] EXCEPT !.session = into[p]]],
         UNCHANGED <<structured, syncing>>
  PROVE  SyncInv'
  <1>1. \A p \in Posts : raw'[p] = [at |-> raw[p].at, session |-> into[p], status |-> raw[p].status]
    BY DEF SyncInv, RawType, IsRow
  <1>2. \A p \in Posts : IsRow(raw'[p]) /\ raw'[p].status = raw[p].status
    BY <1>1 DEF IsRow
  <1>3. RawType'
    BY <1>2 DEF RawType, IsRow
  <1>4. Posted' = Posted
    BY <1>2 DEF Posted
  <1> QED
    BY <1>2, <1>3, <1>4 DEF SyncInv, SyncedIsStructured, Posted

LEMMA StepSync == SyncInv /\ [IntakeNext]_intakeVars => SyncInv'
  <1> SUFFICES ASSUME SyncInv, [IntakeNext]_intakeVars PROVE SyncInv'
    OBVIOUS
  <1>1. ASSUME NEW new \in (SUBSET Posts) \ {{}}, Ingest(new) PROVE SyncInv'
    <2>1. PICK at \in [new -> Moments], given \in [new -> {None, Unknown}] :
            raw' = [p \in Posts |-> IF p \in new
                                    THEN [at |-> at[p], session |-> given[p], status |-> "PENDING"]
                                    ELSE raw[p]]
      BY <1>1 DEF Ingest
    <2>2. RawType'
      BY <2>1 DEF SyncInv, RawType, IsRow
    <2>3. /\ \A p \in new : raw'[p].status = "PENDING"
          /\ \A p \in Posts \ new : raw'[p] = raw[p]
      BY <2>1
    <2>4. new \cap Posted = {} /\ UNCHANGED <<structured, syncing>>
      BY <1>1 DEF Ingest
    <2>5. Posted' = Posted \cup new
      BY <2>3 DEF Posted
    <2> QED
      BY <2>2, <2>3, <2>4, <2>5 DEF SyncInv, SyncedIsStructured, Posted
  <1>2. CASE CommitMapping
    <2>1. CASE UNCHANGED <<raw, sessions>>
      BY <1>2, <2>1 DEF CommitMapping, SyncInv, RawType, IsRow, SyncedIsStructured, Posted
    <2>2. CASE raw' = [p \in Posts |-> [raw[p] EXCEPT !.session = Plan.into[p]]]
      BY <1>2, <2>2, SessionsOnly DEF CommitMapping
    <2> QED
      BY <1>2, <2>1, <2>2 DEF CommitMapping
  <1>3. CASE StartSync
    BY <1>3 DEF StartSync, SyncInv, RawType, IsRow, SyncedIsStructured, Posted, Pending
  <1>4. CASE Push
    <2>1. CASE UNCHANGED <<raw, structured>>
      BY <1>4, <2>1 DEF Push, SyncInv, RawType, IsRow, SyncedIsStructured, Posted
    <2>2. CASE /\ structured' = structured \cup syncing
               /\ raw' = [p \in Posts |-> IF p \in MarkRead
                                          THEN [raw[p] EXCEPT !.status = "SYNCED"] ELSE raw[p]]
      <3>1. syncing \subseteq Posts
        BY DEF SyncInv, Posted
      <3>2. \A p \in Posts : raw'[p] = IF p \in syncing
                                        THEN [raw[p] EXCEPT !.status = "SYNCED"] ELSE raw[p]
        BY <2>2 DEF MarkRead
      <3>3. \A p \in syncing : raw'[p] = [at |-> raw[p].at, session |-> raw[p].session,
                                          status |-> "SYNCED"]
        BY <3>1, <3>2 DEF SyncInv, RawType, IsRow
      <3>4. \A p \in Posts : IsRow(raw'[p])
        BY <3>2, <3>3 DEF SyncInv, RawType, IsRow
      <3>5. RawType'
        BY <2>2, <3>4 DEF RawType, IsRow
      <3>6. \A p \in Posts : raw'[p].status = IF p \in syncing THEN "SYNCED" ELSE raw[p].status
        BY <3>2, <3>3
      <3>7. \A p \in syncing : raw[p].status # "absent"
        BY DEF SyncInv, Posted
      <3>8. Posted' = Posted
        BY <3>1, <3>6, <3>7 DEF Posted
      <3>9. {p \in Posted : raw[p].status = "SYNCED"} = structured
        BY DEF SyncInv, SyncedIsStructured
      <3>10. {p \in Posted' : raw'[p].status = "SYNCED"} = structured \cup syncing
        <4>1. Posted \subseteq Posts /\ syncing \subseteq Posted
          BY DEF Posted, SyncInv
        <4> QED
          BY <3>6, <3>8, <3>9, <4>1
      <3> QED
        BY <1>4, <2>2, <3>5, <3>10 DEF Push, SyncInv, SyncedIsStructured
    <2> QED
      BY <1>4, <2>1, <2>2 DEF Push
  <1>5. CASE UNCHANGED <<raw, structured, syncing>>
    BY <1>5 DEF SyncInv, RawType, IsRow, SyncedIsStructured, Posted
  <1> QED
    BY <1>1, <1>2, <1>3, <1>4, <1>5 DEF IntakeNext, StartMapping, Rewrite, intakeVars

(* An event is marked as synced exactly when its copy is stored, whatever  *)
(* is posted between the read of a batch and its commit, and whichever     *)
(* batches fail (run_sync_cycle).                                          *)
THEOREM SyncMarksCopies == IntakeSpec => []SyncedIsStructured
  <1>1. SyncInv => SyncedIsStructured
    BY DEF SyncInv
  <1> QED
    BY <1>1, InitSync, StepSync, PTL DEF IntakeSpec

-----------------------------------------------------------------------------
(* PlatformReset.                                                          *)

(* How many of the tables a reset that goes well has dealt with, plus one; *)
(* nothing before it waited, nor after it failed.                          *)
StageOf(step) ==
  CASE step = "normalized_events" -> 1
    [] step = "raw_events" -> 2
    [] step = "ingest_cursors" -> 3
    [] step = "attacker_sessions" -> 4
    [] step = "detections" -> 5
    [] step = "incident_events" -> 6
    [] step = "incidents" -> 7
    [] step \in {"dirs", "start", "inventory"} -> 8
    [] OTHER -> 0

Progress ==
  IF job.kind # "reset" \/ job.failing = TRUE THEN 0
  ELSE IF job.status = "done" THEN 8
  ELSE IF job.status = "running" THEN StageOf(job.step) ELSE 0

IsWork(v) ==
  /\ v = [on |-> v.on, used |-> v.used, lines |-> v.lines, ready |-> v.ready, left |-> v.left]
  /\ v.on \in BOOLEAN /\ v.ready \in BOOLEAN

ResetType ==
  /\ sensors \in BOOLEAN /\ stranded \in BOOLEAN /\ overtaken \in BOOLEAN
  /\ job = [kind |-> job.kind, status |-> job.status, step |-> job.step, failing |-> job.failing]
  /\ job.failing \in BOOLEAN
  /\ contents = [t \in Tables |-> contents[t]]
  /\ worker = [w \in DOMAIN Writes |-> worker[w]]
  /\ \A w \in DOMAIN Writes : IsWork(worker[w])

(* A job that is to fail is at its finally clause, or has failed; a reset  *)
(* does not populate.                                                      *)
JobOrder ==
  /\ job.failing => \/ job.status = "running" /\ job.step = "start"
                    \/ job.status = "failed"
  /\ job.step = "populate" => job.kind = "populate"

(* Lines from before the logs were emptied are not written again.          *)
LogsAreNew == logs \subseteq written /\ old \subseteq written /\ logs \cap old = {}

(* A transaction uses the table it has read until it ends.                 *)
UsesWhatItRead ==
  \A w \in DOMAIN Writes : IF worker[w].on THEN Reads[w] \in worker[w].used ELSE worker[w] = Off

(* Once a reset that met no old cycle has waited, the collector has no old *)
(* lines; once it has wiped the events, nor has the engine; and the tables *)
(* it has wiped have none again.                                           *)
NothingOld ==
  ~ overtaken =>
    /\ Progress > 0 /\ worker["collector"].ready => worker["collector"].lines \cap old = {}
    /\ Progress > 1 => worker["engine"].lines \cap old = {}
    /\ \A t \in Tables \ {"incident_events"} :
         StageOf(t) < Progress => contents[t] \cap old = {}

(* The sensors are down while a job needs it, or for a reason.             *)
SensorsDown ==
  ~ sensors =>
    \/ stranded
    \/ job.status = "running" /\ job.step \in Tables \cup {"empty", "wait", "dirs", "start"}

ResetInv ==
  ResetType /\ JobOrder /\ LogsAreNew /\ UsesWhatItRead /\ NothingOld /\ SensorsDown

LEMMA TablesAre ==
  /\ Tables = {"normalized_events", "raw_events", "ingest_cursors", "attacker_sessions",
               "detections", "incident_events", "incidents"}
  /\ DOMAIN DATA_TABLES = 1 .. 7 /\ Len(DATA_TABLES) = 7
  /\ DATA_TABLES[1] = "normalized_events" /\ DATA_TABLES[2] = "raw_events"
  /\ DATA_TABLES[3] = "ingest_cursors" /\ DATA_TABLES[4] = "attacker_sessions"
  /\ DATA_TABLES[5] = "detections" /\ DATA_TABLES[6] = "incident_events"
  /\ DATA_TABLES[7] = "incidents"
  <1>1. /\ DOMAIN DATA_TABLES = 1 .. 7 /\ Len(DATA_TABLES) = 7
        /\ DATA_TABLES[1] = "normalized_events" /\ DATA_TABLES[2] = "raw_events"
        /\ DATA_TABLES[3] = "ingest_cursors" /\ DATA_TABLES[4] = "attacker_sessions"
        /\ DATA_TABLES[5] = "detections" /\ DATA_TABLES[6] = "incident_events"
        /\ DATA_TABLES[7] = "incidents"
    BY DEF DATA_TABLES
  <1>2. \A i \in 1 .. 7 : i = 1 \/ i = 2 \/ i = 3 \/ i = 4 \/ i = 5 \/ i = 6 \/ i = 7
    OBVIOUS
  <1> QED
    BY <1>1, <1>2 DEF Tables

LEMMA TasksAre ==
  /\ DOMAIN Writes = {"collector", "engine", "desk"}
  /\ Reads["collector"] = "ingest_cursors" /\ Reads["engine"] = "normalized_events"
  BY DEF Writes, Reads

LEMMA WritesAre ==
  /\ \A t : (\E i \in DOMAIN Writes["collector"] : Writes["collector"][i] = t)
            => t \in {"normalized_events", "raw_events", "ingest_cursors"}
  /\ \A t : (\E i \in DOMAIN Writes["engine"] : Writes["engine"][i] = t)
            => t \in {"attacker_sessions", "detections", "incidents", "incident_events"}
  /\ \A t : (\E i \in DOMAIN Writes["desk"] : Writes["desk"][i] = t) => t = "incident_events"
  <1>1. /\ Writes["collector"] = <<"normalized_events", "raw_events", "ingest_cursors">>
        /\ Writes["engine"] = <<"attacker_sessions", "detections", "incidents", "incident_events">>
        /\ Writes["desk"] = <<"incident_events">>
    BY DEF Writes
  <1>2. /\ \A i \in 1 .. 3 : i = 1 \/ i = 2 \/ i = 3
        /\ \A i \in 1 .. 4 : i = 1 \/ i = 2 \/ i = 3 \/ i = 4
        /\ \A i \in 1 .. 1 : i = 1
    OBVIOUS
  <1> QED
    BY <1>1, <1>2

LEMMA InitReset == ResetInit => ResetInv
  <1> SUFFICES ASSUME ResetInit PROVE ResetInv
    OBVIOUS
  <1>1. Progress = 0
    BY DEF ResetInit, Progress, NoJob
  <1>2. ResetType /\ UsesWhatItRead
    BY DEF ResetInit, ResetType, UsesWhatItRead, IsWork, Off, NoJob
  <1>3. NothingOld
    BY <1>1, TasksAre DEF ResetInit, NothingOld, Off
  <1> QED
    BY <1>2, <1>3 DEF ResetInit, ResetInv, JobOrder, LogsAreNew, SensorsDown, NoJob

(* What a task does to its transaction.                                    *)
LEMMA TaskWork ==
  ASSUME ResetType, UsesWhatItRead, NEW w \in DOMAIN Writes, Task(w)
  PROVE  \E v : /\ worker' = [worker EXCEPT ![w] = v] /\ IsWork(v)
                /\ IF v.on THEN Reads[w] \in v.used ELSE v = Off
  <1>1. CASE BeginWork(w)
    <2> DEFINE v == [on |-> TRUE, used |-> {Reads[w]}, lines |-> contents[Reads[w]],
                     ready |-> w # "collector", left |-> Writes[w]]
    <2>1. worker' = [worker EXCEPT ![w] = v] /\ IsWork(v) /\ v.on /\ Reads[w] \in v.used
      BY <1>1 DEF BeginWork, IsWork
    <2> QED
      BY <2>1
  <1>2. CASE UseTable(w)
    <2> DEFINE v == [worker[w] EXCEPT !.used = @ \cup {Head(worker[w].left)}, !.left = Tail(@)]
    <2>1. IsWork(worker[w]) /\ worker[w].on /\ Reads[w] \in worker[w].used
      BY <1>2 DEF UseTable, ResetType, UsesWhatItRead, Off
    <2>2. IsWork(v) /\ v.on /\ Reads[w] \in v.used
      <3>1. PICK u, l : u = worker[w].used \cup {Head(worker[w].left)} /\ l = Tail(worker[w].left)
        OBVIOUS
      <3>2. v = [worker[w] EXCEPT !.used = u, !.left = l] /\ Reads[w] \in u
        BY <2>1, <3>1
      <3> HIDE DEF v
      <3> QED
        BY <2>1, <3>2 DEF IsWork
    <2>3. worker' = [worker EXCEPT ![w] = v]
      BY <1>2, <2>1 DEF UseTable, ResetType
    <2> QED
      BY <2>2, <2>3
  <1>3. CASE CommitTask(w) \/ Rollback(w)
    BY <1>3 DEF CommitTask, Rollback, IsWork, Off
  <1> QED
    BY <1>1, <1>2, <1>3 DEF Task

(* What leaves the job alone, by what a task does.                         *)
LEMMA TaskStep ==
  ASSUME ResetInv, NEW w \in DOMAIN Writes, Task(w)
  PROVE  ResetInv'
  <1> USE DEF ResetInv
  <1>1. /\ UNCHANGED <<logs, written, sensors, old, overtaken, stranded, job>>
        /\ Progress' = Progress
    BY DEF Task, BeginWork, UseTable, CommitTask, Rollback, platform, resetPast, Progress, StageOf
  <1>2. /\ IsWork(worker'[w]) /\ worker' = [v \in DOMAIN Writes |-> worker'[v]]
        /\ \A v \in DOMAIN Writes \ {w} : worker'[v] = worker[v]
    BY TaskWork DEF ResetType
  <1>3. IF worker'[w].on THEN Reads[w] \in worker'[w].used ELSE worker'[w] = Off
    BY TaskWork DEF ResetType
  <1>4. contents' = [t \in Tables |-> contents'[t]]
    BY DEF Task, BeginWork, UseTable, CommitTask, Rollback, ResetType
  <1>5. ResetType' /\ UsesWhatItRead'
    BY <1>1, <1>2, <1>3, <1>4 DEF ResetType, UsesWhatItRead
  <1>6. ASSUME ~ overtaken, Progress > 0, worker'["collector"].ready
        PROVE  worker'["collector"].lines \cap old = {}
    <2>1. CASE w = "collector"
      <3>1. worker["collector"].ready /\ worker'["collector"].lines = worker["collector"].lines
        BY <1>6, <2>1, TasksAre
           DEF Task, BeginWork, UseTable, CommitTask, Rollback, ResetType, IsWork, Off
      <3> QED
        BY <1>6, <3>1 DEF NothingOld
    <2> QED
      BY <1>2, <1>6, <2>1, TasksAre DEF NothingOld
  <1>7. ASSUME ~ overtaken, Progress > 1
        PROVE  worker'["engine"].lines \cap old = {}
    <2>1. CASE w = "engine"
      <3>1. \/ worker'["engine"].lines = worker["engine"].lines
            \/ worker'["engine"].lines = {}
            \/ worker'["engine"].lines = contents["normalized_events"]
        BY <2>1, TasksAre
           DEF Task, BeginWork, UseTable, CommitTask, Rollback, ResetType, IsWork, Off
      <3>2. contents["normalized_events"] \cap old = {}
        BY <1>7, TablesAre DEF NothingOld, StageOf
      <3> QED
        BY <1>7, <3>1, <3>2 DEF NothingOld
    <2> QED
      BY <1>2, <1>7, <2>1, TasksAre DEF NothingOld
  <1>8. ASSUME ~ overtaken, NEW t \in Tables \ {"incident_events"}, StageOf(t) < Progress
        PROVE  contents'[t] \cap old = {}
    <2>1. contents[t] \cap old = {}
      BY <1>8 DEF NothingOld
    <2>2. CASE contents'[t] = contents[t]
      BY <2>1, <2>2
    <2>3. CASE contents'[t] # contents[t]
      <3>1. /\ worker[w].ready /\ contents'[t] = contents[t] \cup worker[w].lines
            /\ \E i \in DOMAIN Writes[w] : Writes[w][i] = t
        BY <2>3 DEF Task, BeginWork, UseTable, CommitTask, Rollback
      <3>2. \/ w = "collector"
            \/ w = "engine" /\ t \in {"attacker_sessions", "detections", "incidents"}
        BY <3>1, TasksAre, WritesAre
      <3>3. Progress \in Nat /\ StageOf(t) \in Nat
        BY DEF Progress, StageOf
      <3>4. worker[w].lines \cap old = {}
        <4>1. CASE w = "collector"
          BY <1>8, <3>1, <3>3, <4>1 DEF NothingOld
        <4>2. CASE w = "engine" /\ t \in {"attacker_sessions", "detections", "incidents"}
          BY <1>8, <3>3, <4>2 DEF NothingOld, StageOf
        <4> QED
          BY <3>2, <4>1, <4>2
      <3> QED
        BY <2>1, <3>1, <3>4
    <2> QED
      BY <2>2, <2>3
  <1>9. NothingOld'
    BY <1>1, <1>6, <1>7, <1>8 DEF NothingOld, StageOf
  <1> QED
    BY <1>1, <1>5, <1>9 DEF JobOrder, LogsAreNew, SensorsDown

(* The steps that move the job and leave the transactions, the tables and  *)
(* the history alone, and get no further with the wipe.                    *)
LEMMA JobMoves ==
  ASSUME ResetInv, UNCHANGED <<contents, worker, old, overtaken>>, LogsAreNew',
         Progress' = 0 \/ Progress' = Progress,
         sensors' \in BOOLEAN, stranded' \in BOOLEAN, job'.failing \in BOOLEAN,
         job' = [kind |-> job'.kind, status |-> job'.status, step |-> job'.step,
                 failing |-> job'.failing],
         JobOrder', SensorsDown'
  PROVE  ResetInv'
  <1>1. ResetType' /\ UsesWhatItRead'
    BY DEF ResetInv, ResetType, UsesWhatItRead
  <1>2. NothingOld'
    <2>1. \A t : StageOf(t) \in Nat
      BY DEF StageOf
    <2> QED
      BY <2>1 DEF ResetInv, NothingOld, StageOf
  <1> QED
    BY <1>1, <1>2 DEF ResetInv

LEMMA FetchStep ==
  ASSUME ResetInv, FetchLogs
  PROVE  ResetInv'
  <1> USE DEF ResetInv
  <1>1. /\ UNCHANGED <<logs, written, sensors, old, overtaken, stranded, job, contents>>
        /\ Progress' = Progress
    BY DEF FetchLogs, platform, resetPast, Progress, StageOf
  <1>2. PICK v : v = [worker["collector"] EXCEPT !.lines = logs \ @, !.ready = TRUE]
    OBVIOUS
  <1>3. IsWork(worker["collector"]) /\ worker["collector"].on
    BY TasksAre DEF FetchLogs, ResetType
  <1>4. /\ IsWork(v) /\ v.on /\ v.used = worker["collector"].used
        /\ v.lines = logs \ worker["collector"].lines
    BY <1>2, <1>3 DEF IsWork
  <1>5. worker' = [worker EXCEPT !["collector"] = v]
    BY <1>2, TasksAre DEF FetchLogs, ResetType
  <1>6. ResetType' /\ UsesWhatItRead'
    BY <1>1, <1>3, <1>4, <1>5, TasksAre DEF ResetType, UsesWhatItRead
  <1>7. worker'["collector"].lines \cap old = {} /\ worker'["engine"] = worker["engine"]
    BY <1>4, <1>5, TasksAre DEF LogsAreNew, ResetType
  <1>8. NothingOld'
    BY <1>1, <1>7 DEF NothingOld, StageOf
  <1> QED
    BY <1>1, <1>6, <1>8 DEF JobOrder, LogsAreNew, SensorsDown

LEMMA WriteLogStep ==
  ASSUME ResetInv, WriteLog
  PROVE  ResetInv'
  <1>1. UNCHANGED <<contents, worker, old, overtaken, sensors, stranded, job>>
    BY DEF WriteLog, work, resetPast
  <1>2. LogsAreNew'
    BY <1>1 DEF WriteLog, ResetInv, LogsAreNew
  <1>3. Progress' = Progress
    BY <1>1 DEF Progress, StageOf
  <1> QED
    BY <1>1, <1>2, <1>3, JobMoves DEF ResetInv, ResetType, JobOrder, SensorsDown

(* The job's steps other than the wait and the wipes.                      *)
LEMMA OtherJobStep ==
  ASSUME ResetInv,
         \/ \E kind \in {"reset", "populate"} : StartJob(kind)
         \/ StopSandboxes \/ StopSensors \/ EmptyLogs
         \/ ClearDirectories \/ StartSensors \/ CountRows \/ FailJob \/ Populate
  PROVE  ResetInv'
  <1>1. ASSUME NEW kind \in {"reset", "populate"}, StartJob(kind) PROVE ResetInv'
    <2>1. UNCHANGED <<logs, written, sensors, contents, worker, old, overtaken, stranded>>
      BY <1>1 DEF StartJob, platform, work, resetPast
    <2>2. Progress' = 0
      BY <1>1 DEF StartJob, Progress, StageOf
    <2> QED
      BY <1>1, <2>1, <2>2, JobMoves
         DEF StartJob, ResetInv, ResetType, JobOrder, LogsAreNew, SensorsDown
  <1>2. CASE StopSandboxes
    <2>1. UNCHANGED <<logs, written, sensors, contents, worker, old, overtaken, stranded>>
      BY <1>2 DEF StopSandboxes, platform, work, resetPast
    <2>2. job' = [job EXCEPT !.step = "stop"] /\ job.status = "running" /\ job.step = "sandboxes"
      BY <1>2 DEF StopSandboxes, Go, OnStep
    <2>3. Progress' = 0
      BY <2>2 DEF Progress, StageOf, ResetInv, ResetType
    <2> QED
      BY <2>1, <2>2, <2>3, JobMoves, TablesAre
         DEF ResetInv, ResetType, JobOrder, LogsAreNew, SensorsDown
  <1>3. CASE StopSensors
    <2>1. UNCHANGED <<logs, written, contents, worker, old, overtaken, stranded>>
      BY <1>3 DEF StopSensors, work, resetPast
    <2>2. job' = [job EXCEPT !.step = "empty"] /\ job.status = "running" /\ job.step = "stop"
      BY <1>3 DEF StopSensors, Go, OnStep
    <2>3. Progress' = 0 /\ sensors' \in BOOLEAN
      BY <1>3, <2>2 DEF StopSensors, Progress, StageOf, ResetInv, ResetType
    <2> QED
      BY <2>1, <2>2, <2>3, JobMoves DEF ResetInv, ResetType, JobOrder, LogsAreNew, SensorsDown
  <1>4. CASE EmptyLogs
    <2> USE DEF ResetInv
    <2>1. UNCHANGED <<written, sensors, contents, worker, overtaken, stranded>>
      BY <1>4 DEF EmptyLogs, work
    <2>2. job' = [job EXCEPT !.step = "wait"] /\ job.status = "running" /\ job.step = "empty"
      BY <1>4 DEF EmptyLogs, Go, OnStep
    <2>3. Progress' = 0
      BY <2>2 DEF Progress, StageOf, ResetType
    <2>4. LogsAreNew'
      BY <1>4, <2>1 DEF EmptyLogs, LogsAreNew
    <2>5. NothingOld'
      <3>1. \A t : ~ (StageOf(t) < 0)
        BY DEF StageOf
      <3> QED
        BY <2>3, <3>1 DEF NothingOld, StageOf
    <2> QED
      BY <2>1, <2>2, <2>4, <2>5 DEF ResetType, JobOrder, UsesWhatItRead, SensorsDown
  <1>5. CASE ClearDirectories
    <2>1. UNCHANGED <<logs, written, sensors, contents, worker, old, overtaken, stranded>>
      BY <1>5 DEF ClearDirectories, platform, work, resetPast
    <2>2. job' = [job EXCEPT !.step = "start"] /\ job.status = "running" /\ job.step = "dirs"
      BY <1>5 DEF ClearDirectories, Go, OnStep
    <2>3. Progress' = Progress
      BY <2>2 DEF Progress, StageOf, ResetInv, ResetType
    <2> QED
      BY <2>1, <2>2, <2>3, JobMoves DEF ResetInv, ResetType, JobOrder, LogsAreNew, SensorsDown
  <1>6. CASE StartSensors
    <2>1. UNCHANGED <<logs, written, contents, worker, old, overtaken>>
      BY <1>6 DEF StartSensors, work
    <2>2. /\ sensors' \in BOOLEAN /\ stranded' \in BOOLEAN /\ (~ sensors' => stranded')
          /\ job.status = "running" /\ job.step = "start"
      <3>1. CASE sensors' = TRUE /\ stranded' = FALSE
        BY <1>6, <3>1 DEF StartSensors, OnStep
      <3>2. CASE UNCHANGED sensors /\ stranded' = (stranded \/ ~ sensors)
        BY <1>6, <3>2 DEF StartSensors, OnStep, ResetInv, ResetType
      <3> QED
        BY <1>6, <3>1, <3>2 DEF StartSensors
    <2>3. \/ job.failing /\ job' = [job EXCEPT !.status = "failed", !.step = "none"]
          \/ ~ job.failing /\ job' = [job EXCEPT !.step = "inventory"]
      BY <1>6 DEF StartSensors, Go, End
    <2>4. Progress' = 0 \/ Progress' = Progress
      BY <2>2, <2>3 DEF Progress, StageOf, ResetInv, ResetType
    <2>5. /\ job' = [kind |-> job'.kind, status |-> job'.status, step |-> job'.step,
                      failing |-> job'.failing]
          /\ job'.failing = job.failing /\ JobOrder'
      BY <2>3 DEF ResetInv, ResetType, JobOrder
    <2> QED
      BY <2>1, <2>2, <2>4, <2>5, JobMoves DEF ResetInv, ResetType, LogsAreNew, SensorsDown
  <1>7. CASE CountRows
    <2>1. UNCHANGED <<logs, written, sensors, contents, worker, old, overtaken, stranded>>
      BY <1>7 DEF CountRows, platform, work, resetPast
    <2>2. /\ job' = [job EXCEPT !.status = "done", !.step = "none"]
          /\ job.status = "running" /\ job.step = "inventory"
      BY <1>7 DEF CountRows, End, OnStep
    <2>3. Progress' = 0 \/ Progress' = Progress
      BY <2>2 DEF Progress, StageOf, ResetInv, ResetType
    <2> QED
      BY <2>1, <2>2, <2>3, JobMoves, TablesAre
         DEF ResetInv, ResetType, JobOrder, LogsAreNew, SensorsDown
  <1>8. CASE FailJob
    <2>1. UNCHANGED <<logs, written, sensors, contents, worker, old, overtaken, stranded>>
      BY <1>8 DEF FailJob, platform, work, resetPast
    <2>2. \/ /\ job.step \in {"sandboxes", "stop", "populate", "inventory"}
             /\ job' = [job EXCEPT !.status = "failed", !.step = "none"]
          \/ job' = [job EXCEPT !.step = "start", !.failing = TRUE]
      BY <1>8 DEF FailJob, End
    <2>3. Progress' = 0
      BY <2>2 DEF Progress, StageOf, ResetInv, ResetType
    <2>4. /\ job' = [kind |-> job'.kind, status |-> job'.status, step |-> job'.step,
                      failing |-> job'.failing]
          /\ job'.failing \in BOOLEAN /\ job.status = "running" /\ JobOrder'
      BY <1>8, <2>2 DEF FailJob, ResetInv, ResetType, JobOrder
    <2>5. SensorsDown'
      BY <2>1, <2>2, <2>4, TablesAre DEF ResetInv, ResetType, SensorsDown
    <2> QED
      BY <2>1, <2>3, <2>4, <2>5, JobMoves DEF ResetInv, ResetType, LogsAreNew
  <1>9. CASE Populate
    <2>1. UNCHANGED <<sensors, contents, worker, old, overtaken, stranded>>
      BY <1>9 DEF Populate, work, resetPast
    <2>2. job' = [job EXCEPT !.step = "inventory"] /\ job.status = "running" /\ job.step = "populate"
      BY <1>9 DEF Populate, Go, OnStep
    <2>3. LogsAreNew'
      BY <1>9, <2>1 DEF Populate, ResetInv, LogsAreNew
    <2>4. Progress' = 0
      BY <2>2 DEF Progress, ResetInv, ResetType, JobOrder
    <2> QED
      BY <2>1, <2>2, <2>3, <2>4, JobMoves, TablesAre
         DEF ResetInv, ResetType, JobOrder, SensorsDown
  <1> QED
    BY <1>1, <1>2, <1>3, <1>4, <1>5, <1>6, <1>7, <1>8, <1>9

(* The wait ends: the collector's cycle is known to have no old lines, or  *)
(* the reset was overtaken.                                                *)
LEMMA AwaitStep ==
  ASSUME ResetInv, AwaitCycle
  PROVE  ResetInv'
  <1> USE DEF ResetInv
  <1>1. UNCHANGED <<logs, written, sensors, contents, worker, old, stranded>>
    BY DEF AwaitCycle, platform, work
  <1>2. /\ job' = [job EXCEPT !.step = "normalized_events"]
        /\ job.status = "running" /\ job.step = "wait"
    BY TablesAre DEF AwaitCycle, Go, OnStep
  <1>3. Progress' \in {0, 1}
    BY <1>2 DEF Progress, StageOf, ResetType
  <1>4. /\ overtaken' \in BOOLEAN
        /\ overtaken' \/ (worker["collector"].ready => worker["collector"].lines \cap old = {})
    BY DEF AwaitCycle
  <1>5. NothingOld'
    <2>1. \A t \in Tables : StageOf(t) > 0 /\ StageOf(t) \in Nat
      BY TablesAre DEF StageOf
    <2>2. /\ ~ (1 < Progress')
          /\ \A t \in Tables : ~ (StageOf(t) < Progress')
      BY <1>3, <2>1
    <2> QED
      BY <1>1, <1>3, <1>4, <2>2 DEF NothingOld, StageOf
  <1> QED
    BY <1>1, <1>2, <1>4, <1>5, TablesAre
       DEF ResetType, JobOrder, LogsAreNew, UsesWhatItRead, SensorsDown

(* A table is wiped when no transaction is using it.                       *)
LEMMA TruncateStep ==
  ASSUME ResetInv, NEW i \in DOMAIN DATA_TABLES, Truncate(i)
  PROVE  ResetInv'
  <1> USE DEF ResetInv
  <1>1. UNCHANGED <<logs, written, sensors, worker, old, overtaken, stranded>>
    BY DEF Truncate, platform, resetPast
  <1>2. /\ i \in 1 .. 7 /\ job.status = "running" /\ job.step = DATA_TABLES[i]
        /\ job' = [job EXCEPT !.step = IF i = 7 THEN "dirs" ELSE DATA_TABLES[i + 1]]
    BY TablesAre DEF Truncate, Go, OnStep
  <1>3. i = 1 \/ i = 2 \/ i = 3 \/ i = 4 \/ i = 5 \/ i = 6 \/ i = 7
    BY <1>2
  <1>4. job'.step # "populate" /\ job'.step \in Tables \cup {"dirs"} /\ StageOf(DATA_TABLES[i]) = i
    BY <1>2, <1>3, TablesAre DEF ResetType, StageOf
  <1>5. Progress' = 0 \/ (Progress = i /\ Progress' = i + 1)
    BY <1>2, <1>3, TablesAre DEF Progress, StageOf, ResetType
  <1>6. contents' = [contents EXCEPT ![DATA_TABLES[i]] = {}] /\ DATA_TABLES[i] \in Tables
    BY DEF Truncate, Tables
  <1>7. ASSUME ~ overtaken, Progress' # 0, i = 1
        PROVE  worker["engine"].lines = {}
    <2>1. DATA_TABLES[1] = "normalized_events" /\ "engine" \in DOMAIN worker
      BY TablesAre, TasksAre DEF ResetType
    <2>2. Reads["engine"] \notin worker["engine"].used
      BY <1>7, <2>1, TasksAre DEF Truncate
    <2> QED
      BY <2>2, TasksAre DEF UsesWhatItRead, Off
  <1>8. ASSUME ~ overtaken, Progress' # 0, NEW t \in Tables \ {"incident_events"},
               StageOf(t) < Progress'
        PROVE  contents'[t] \cap old = {}
    <2>1. CASE t = DATA_TABLES[i]
      BY <1>6, <2>1 DEF ResetType
    <2>2. CASE t # DATA_TABLES[i]
      <3>1. StageOf(t) # i /\ StageOf(t) \in Nat
        BY <1>3, <2>2, TablesAre DEF StageOf
      <3>2. contents[t] \cap old = {}
        BY <1>2, <1>5, <1>8, <3>1 DEF NothingOld
      <3> QED
        BY <1>6, <2>2, <3>2 DEF ResetType
    <2> QED
      BY <2>1, <2>2
  <1>9. NothingOld'
    <2>1. CASE Progress' = 0
      <3>1. \A t : ~ (StageOf(t) < 0)
        BY DEF StageOf
      <3> QED
        BY <2>1, <3>1 DEF NothingOld, StageOf
    <2>2. CASE Progress' # 0
      <3>1. Progress = i /\ Progress' = i + 1
        BY <1>5, <2>2
      <3>2. ~ overtaken => worker["engine"].lines \cap old = {}
        BY <1>2, <1>7, <2>2, <3>1 DEF NothingOld
      <3>3. ~ overtaken /\ worker["collector"].ready => worker["collector"].lines \cap old = {}
        BY <1>2, <3>1 DEF NothingOld
      <3> QED
        BY <1>1, <1>8, <2>2, <3>2, <3>3 DEF NothingOld, StageOf
    <2> QED
      BY <2>1, <2>2
  <1>10. ResetType'
    BY <1>1, <1>2, <1>6 DEF ResetType
  <1> QED
    <2>1. JobOrder'
      <3>1. job.step # "start"
        BY <1>2, <1>3, TablesAre
      <3> QED
        BY <1>2, <1>4, <3>1 DEF ResetType, JobOrder
    <2>2. SensorsDown'
      BY <1>1, <1>2, <1>4 DEF ResetType, SensorsDown
    <2>3. LogsAreNew' /\ UsesWhatItRead'
      BY <1>1 DEF LogsAreNew, UsesWhatItRead
    <2> QED
      BY <1>9, <1>10, <2>1, <2>2, <2>3

LEMMA LoseStep ==
  ASSUME ResetInv, LoseJob
  PROVE  ResetInv'
  <1> USE DEF ResetInv
  <1>1. /\ UNCHANGED <<logs, written, sensors, contents, old, overtaken>>
        /\ job' = NoJob /\ stranded' = ~ sensors
    BY DEF LoseJob, platform
  <1>2. worker' = [w \in DOMAIN Writes |-> Off]
    BY DEF LoseJob, ResetType
  <1>3. Progress' = 0
    BY <1>1 DEF Progress, NoJob
  <1>4. ResetType' /\ UsesWhatItRead'
    BY <1>1, <1>2 DEF ResetType, UsesWhatItRead, IsWork, Off, NoJob
  <1>5. NothingOld'
    <2>1. \A t : ~ (StageOf(t) < 0)
      BY DEF StageOf
    <2> QED
      BY <1>3, <2>1 DEF NothingOld, StageOf
  <1> QED
    BY <1>1, <1>4, <1>5 DEF ResetType, JobOrder, LogsAreNew, SensorsDown, NoJob

LEMMA StepReset == ResetInv /\ [ResetNext]_resetVars => ResetInv'
  <1> SUFFICES ASSUME ResetInv, [ResetNext]_resetVars PROVE ResetInv'
    OBVIOUS
  <1>1. CASE UNCHANGED resetVars
    BY <1>1, JobMoves DEF resetVars, platform, work, resetPast, ResetInv, ResetType, Progress,
       StageOf, JobOrder, LogsAreNew, SensorsDown
  <1>2. CASE ResetNext
    BY <1>2, TaskStep, FetchStep, WriteLogStep, OtherJobStep, AwaitStep, TruncateStep, LoseStep
       DEF ResetNext, Job
  <1> QED
    BY <1>1, <1>2

(* A reset that went through leaves no row of a line from before it, unless *)
(* a collector's cycle outlasted its wait, and no job leaves the sensors    *)
(* down but by a crash or Docker's failure, for any number of lines, jobs   *)
(* and transactions of the collector, the engine and analysts that overlap  *)
(* it (services/data_admin.py).                                             *)
THEOREM ResetsHold == ResetSpec => []ResetHolds
  <1>1. ResetInv => ResetHolds
    <2> SUFFICES ASSUME ResetInv PROVE ResetHolds
      OBVIOUS
    <2>1. WipedForGood
      <3> SUFFICES ASSUME job.kind = "reset", job.status = "done", ~ overtaken,
                          NEW t \in Tables \ {"incident_events"}
                   PROVE  contents[t] \cap old = {}
        BY DEF WipedForGood
      <3>1. Progress = 8
        BY DEF Progress, ResetInv, ResetType, JobOrder
      <3>2. StageOf(t) < 8
        BY TablesAre DEF StageOf
      <3> QED
        BY <3>1, <3>2 DEF ResetInv, NothingOld
    <2>2. SensorsReturn
      BY DEF SensorsReturn, ResetInv, SensorsDown
    <2> QED
      BY <2>1, <2>2 DEF ResetHolds
  <1> QED
    BY <1>1, InitReset, StepReset, PTL DEF ResetSpec

-----------------------------------------------------------------------------
(* RuleBook.                                                               *)

RuleType ==
  /\ writes \in Nat
  /\ DOMAIN files = RuleFiles
  /\ \A f \in RuleFiles : files[f] = NoFile \/ files[f].time \in 1 .. writes
  /\ kept = [time |-> kept.time, rules |-> kept.rules] /\ kept.time \in Nat
  /\ loading = [time |-> loading.time, todo |-> loading.todo, rules |-> loading.rules,
                on |-> loading.on, stirred |-> loading.stirred]
  /\ loading.time \in Nat

(* NewestTime is the greatest time of a file.                              *)
NewestIs ==
  /\ NewestTime \in 0 .. writes
  /\ \A f \in Files : files[f].time <= NewestTime
  /\ Files = {} => NewestTime = 0

(* What is kept, and what has been read so far, is older than a file or    *)
(* what the directory holds, unless a file was removed or put back.        *)
ReadOf(done) == {Parsed(f) : f \in {g \in Files \cap done : files[g].doc.rule}}

KeptHolds ==
  ~ disturbed =>
    /\ kept.time <= NewestTime
    /\ kept.time = NewestTime => kept.rules = Directory

LoadingHolds ==
  loading.on /\ ~ loading.stirred =>
    /\ loading.time <= NewestTime
    /\ loading.time = NewestTime => loading.rules = ReadOf(RuleFiles \ loading.todo)

RuleInv == RuleType /\ KeptHolds /\ LoadingHolds

LEMMA NewestFile == RuleType => NewestIs
  <1> SUFFICES ASSUME RuleType PROVE NewestIs
    OBVIOUS
  <1>1. \A f \in Files : f \in RuleFiles /\ files[f].time \in 1 .. writes
    BY DEF Files, RuleType
  <1>2. CASE Files = {}
    BY <1>2 DEF NewestIs, NewestTime, RuleType
  <1>3. CASE Files # {}
    <2> DEFINE T == {n \in Nat : \A f \in Files : files[f].time <= n}
    <2>1. writes \in T
      BY <1>1 DEF RuleType
    <2>2. PICK n \in T : \A y \in T : ~ (<<y, n>> \in OpToRel(<, Nat))
      BY <2>1, NatLessThanWellFounded, WFMin
    <2>3. \A y \in T : ~ (y < n)
      BY <2>2 DEF OpToRel
    <2>4. PICK f \in Files : files[f].time = n
      <3>1. PICK g \in Files : TRUE
        BY <1>3
      <3>2. n >= 1
        BY <1>1, <3>1
      <3>3. n - 1 \in Nat /\ n - 1 < n /\ n - 1 \notin T
        BY <2>3, <3>2
      <3>4. PICK f \in Files : ~ (files[f].time <= n - 1)
        BY <3>3
      <3>5. files[f].time <= n /\ files[f].time \in Nat
        BY <1>1, <3>4
      <3> QED
        BY <3>2, <3>4, <3>5
    <2>5. n \in {files[g].time : g \in Files} /\ \A g \in Files : files[g].time <= n
      BY <2>4
    <2>6. /\ NewestTime \in {files[g].time : g \in Files}
          /\ \A g \in Files : files[g].time <= NewestTime
      BY <1>3, <2>5 DEF NewestTime
    <2> QED
      BY <1>1, <1>3, <2>6 DEF NewestIs, RuleType
  <1> QED
    BY <1>2, <1>3

LEMMA NewestNext == RuleType' => NewestIs'
  BY NewestFile, PTL

LEMMA InitRules == RuleInit => RuleInv
  <1> SUFFICES ASSUME RuleInit PROVE RuleInv
    OBVIOUS
  <1>1. RuleType
    BY DEF RuleInit, RuleType, NoFile, NotReading
  <1>2. Files = {} /\ NewestTime = 0 /\ Directory = {}
    BY DEF RuleInit, Files, NewestTime, Directory
  <1> QED
    BY <1>1, <1>2 DEF RuleInit, RuleInv, KeptHolds, LoadingHolds, NotReading

(* While no file changes, neither does what is made of the files.          *)
LEMMA SameFiles ==
  ASSUME UNCHANGED files
  PROVE  /\ NewestTime' = NewestTime /\ Directory' = Directory /\ Files' = Files
         /\ \A s : ReadOf(s)' = ReadOf(s)
  BY DEF NewestTime, Directory, ReadOf, Files, Parsed

LEMMA StepRules == RuleInv /\ [RuleNext]_ruleVars => RuleInv'
  <1> SUFFICES ASSUME RuleInv, [RuleNext]_ruleVars PROVE RuleInv'
    OBVIOUS
  <1> USE DEF RuleInv
  <1>0. NewestIs
    BY NewestFile
  <1>1. ASSUME NEW force \in BOOLEAN, LoadRules(force) PROVE RuleInv'
    <2>1. UNCHANGED <<files, kept, writes, disturbed>>
      BY <1>1 DEF LoadRules
    <2>2. \/ UNCHANGED loading
          \/ loading' = [time |-> NewestTime, todo |-> Files, rules |-> {}, on |-> TRUE,
                         stirred |-> FALSE]
      BY <1>1 DEF LoadRules
    <2>3. RuleType'
      BY <1>0, <2>1, <2>2 DEF RuleType, NewestIs
    <2>4. KeptHolds'
      BY <2>1, SameFiles DEF KeptHolds
    <2>5. LoadingHolds'
      <3>1. CASE UNCHANGED loading
        BY <2>1, <3>1, SameFiles DEF LoadingHolds
      <3>2. CASE loading' = [time |-> NewestTime, todo |-> Files, rules |-> {}, on |-> TRUE,
                             stirred |-> FALSE]
        <4>1. loading'.time = NewestTime' /\ loading'.rules = {} /\ loading'.todo = Files
          BY <2>1, <3>2, SameFiles
        <4>2. ReadOf(RuleFiles \ Files) = {}
          BY DEF ReadOf
        <4>3. loading'.time <= NewestTime'
          BY <1>0, <2>1, <4>1, SameFiles DEF NewestIs, RuleType
        <4>4. ReadOf(RuleFiles \ loading.todo)' = ReadOf(RuleFiles \ Files)
          BY <2>1, <4>1 DEF ReadOf, Files, Parsed
        <4> QED
          BY <4>1, <4>2, <4>3, <4>4 DEF LoadingHolds
      <3> QED
        BY <2>2, <3>1, <3>2
    <2> QED
      BY <2>3, <2>4, <2>5
  <1>2. ASSUME NEW f \in RuleFiles, ReadFile(f) PROVE RuleInv'
    <2>1. UNCHANGED <<files, kept, writes, disturbed>> /\ f \in loading.todo
      BY <1>2 DEF ReadFile
    <2>2. loading' = [loading EXCEPT !.todo = @ \ {f}, !.rules = @ \cup ReadOf({f})]
      BY <1>2 DEF ReadFile, ReadOf
    <2>3. RuleType' /\ KeptHolds'
      BY <2>1, <2>2, SameFiles DEF RuleType, KeptHolds
    <2>4. /\ loading'.todo = loading.todo \ {f} /\ loading'.rules = loading.rules \cup ReadOf({f})
          /\ loading'.time = loading.time /\ loading'.on = loading.on
          /\ loading'.stirred = loading.stirred
      BY <2>2 DEF RuleType
    <2>5. ReadOf(RuleFiles \ (loading.todo \ {f})) = ReadOf(RuleFiles \ loading.todo) \cup ReadOf({f})
      BY <2>1 DEF ReadOf
    <2>6. LoadingHolds'
      BY <2>1, <2>4, <2>5, SameFiles DEF LoadingHolds
    <2> QED
      BY <2>3, <2>6
  <1>3. CASE Finish
    <2>1. /\ UNCHANGED <<files, writes>> /\ loading' = NotReading
          /\ kept' = [time |-> loading.time, rules |-> loading.rules]
          /\ disturbed' = loading.stirred /\ loading.on /\ loading.todo = {}
      BY <1>3 DEF Finish, TimeKept
    <2>2. RuleType' /\ LoadingHolds'
      BY <2>1 DEF RuleType, LoadingHolds, NotReading
    <2>3. ReadOf(RuleFiles \ {}) = Directory
      BY DEF ReadOf, Directory, Files
    <2>4. KeptHolds'
      BY <2>1, <2>3, SameFiles DEF KeptHolds, LoadingHolds
    <2> QED
      BY <2>2, <2>4
  <1>4. CASE Mount
    <2>1. UNCHANGED <<files, kept, loading, writes, disturbed>>
      BY <1>4 DEF Mount
    <2> QED
      BY <2>1, SameFiles DEF RuleType, KeptHolds, LoadingHolds
  <1>5. ASSUME NEW f \in RuleFiles, NEW doc \in Documents, WriteRule(f, doc) PROVE RuleInv'
    <2>1. /\ UNCHANGED <<kept, loading, disturbed>> /\ writes' = writes + 1
          /\ files' = [files EXCEPT ![f] = [time |-> writes + 1, doc |-> doc]]
      BY <1>5 DEF WriteRule
    <2>2. RuleType'
      BY <2>1 DEF RuleType
    <2>3. f \in Files' /\ files'[f].time = writes + 1
      BY <2>1 DEF RuleType, Files, NoFile
    <2>4. NewestTime' >= writes + 1 /\ NewestTime' > NewestTime /\ NewestTime' \in Nat
      BY <1>0, <2>1, <2>2, <2>3, NewestNext DEF NewestIs, RuleType
    <2> QED
      BY <1>0, <2>1, <2>2, <2>4 DEF KeptHolds, LoadingHolds, NewestIs, RuleType
  <1>6. ASSUME NEW f \in RuleFiles, RemoveRule(f) PROVE RuleInv'
    <2>1. /\ UNCHANGED <<kept, writes>> /\ disturbed' = TRUE
          /\ loading' = [loading EXCEPT !.stirred = loading.on]
          /\ files' = [files EXCEPT ![f] = NoFile]
      BY <1>6 DEF RemoveRule
    <2> QED
      BY <2>1 DEF RuleType, KeptHolds, LoadingHolds
  <1>7. ASSUME NEW f \in RuleFiles, NEW doc \in Documents, NEW t \in 1 .. MaxWrites,
               PutBack(f, t, doc)
        PROVE  RuleInv'
    <2>1. /\ UNCHANGED <<kept, writes>> /\ disturbed' = TRUE /\ t \in 1 .. writes
          /\ loading' = [loading EXCEPT !.stirred = loading.on]
          /\ files' = [files EXCEPT ![f] = [time |-> t, doc |-> doc]]
      BY <1>7 DEF PutBack, RuleType
    <2> QED
      BY <2>1 DEF RuleType, KeptHolds, LoadingHolds
  <1>8. CASE UNCHANGED ruleVars
    BY <1>8, SameFiles DEF ruleVars, RuleType, KeptHolds, LoadingHolds
  <1> QED
    BY <1>1, <1>2, <1>3, <1>4, <1>5, <1>6, <1>7, <1>8 DEF RuleNext

(* The cached rules that a cycle would use are those of the files, however  *)
(* many files are written while the rules are read one by one, unless one   *)
(* was removed or came with an older time (detection_rules.py).             *)
THEOREM CacheIsCurrent == RuleSpec => []KeptIsCurrent
  <1>1. RuleInv => KeptIsCurrent
    BY DEF RuleInv, KeptHolds, KeptIsCurrent, CacheHolds
  <1> QED
    BY <1>1, InitRules, StepRules, PTL DEF RuleSpec

-----------------------------------------------------------------------------
(* SensorMonitor.                                                          *)

MonitorType ==
  /\ moment \in Nat
  /\ DOMAIN container = Sensors /\ DOMAIN previous = Sensors /\ DOMAIN metrics = Sensors
  /\ DOMAIN sampling = Sensors /\ DOMAIN arrived = Sensors /\ DOMAIN ran = Sensors
  /\ \A s \in Sensors : /\ DOMAIN container[s] = {"state", "rx"} /\ container[s].rx \in Nat
                        /\ previous[s].rx \in Nat /\ arrived[s] \in Nat /\ ran[s] \in 0 .. moment
  /\ states.at \in 0 .. moment

(* What a container that runs has received came before the last reading,   *)
(* or is counted as having arrived since.                                  *)
Received == \A s \in Sensors : Runs(s) => container[s].rx <= previous[s].rx + arrived[s]

TrueRate(m) == m.rx # NoRate => m.rx \in 0 .. m.arrived
Rates == /\ \A s \in Sensors : TrueRate(metrics[s])
         /\ \A s \in Sensors : sampling[s].step = "read" => TrueRate(sampling[s].reading)

(* A sensor that is listed as running ran when the list was made.          *)
RanWhenListed ==
  /\ \A s \in Sensors : Runs(s) => ran[s] = moment
  /\ \A s \in Sensors : states.data[s].available /\ states.data[s].running => ran[s] >= states.at

TrueRow(row) == row.verified /\ row.online => row.quiet < TTL
Rows == \A s \in Sensors : TrueRow(grid[s])

MonitorInv == MonitorType /\ Received /\ Rates /\ RanWhenListed /\ Rows

LEMMA InitMonitor == MonitorInit => MonitorInv
  <1> SUFFICES ASSUME MonitorInit PROVE MonitorInv
    OBVIOUS
  <1>1. \A s \in Sensors : container[s] \in {Absent, [state |-> "running", rx |-> 0]}
    BY DEF MonitorInit
  <1>2. \A s \in Sensors : DOMAIN container[s] = {"state", "rx"} /\ container[s].rx = 0
    <2>1. /\ DOMAIN Absent = {"state", "rx"} /\ Absent.rx = 0
          /\ DOMAIN [state |-> "running", rx |-> 0] = {"state", "rx"}
          /\ [state |-> "running", rx |-> 0].rx = 0
      BY DEF Absent
    <2> QED
      BY <1>1, <2>1
  <1>3. MonitorType
    BY <1>2 DEF MonitorInit, MonitorType, NoneBefore, Never
  <1>4. Received
    BY <1>2 DEF MonitorInit, Received, NoneBefore
  <1>5. Rates
    BY DEF MonitorInit, Rates, TrueRate, Unavailable, Sampling
  <1>6. RanWhenListed
    BY DEF MonitorInit, RanWhenListed, NoStates
  <1>7. Rows
    BY DEF MonitorInit, Rows, TrueRow
  <1> QED
    BY <1>3, <1>4, <1>5, <1>6, <1>7 DEF MonitorInv

LEMMA Asking == MonitorInv /\ AskGrid => MonitorInv'
  <1> SUFFICES ASSUME MonitorInv, AskGrid PROVE MonitorInv'
    OBVIOUS
  <1>1. PICK answer \in {states.data, AsListed, NoStates} :
          /\ States(answer)
          /\ grid' = [s \in Sensors |-> Row(s, answer[s])]
    BY DEF AskGrid
  <1>2. UNCHANGED <<container, moment, previous, metrics, sampling, arrived, ran>>
    BY DEF AskGrid
  <1>3. MonitorType /\ Received /\ Rates /\ RanWhenListed
    BY DEF MonitorInv
  <1>4. UNCHANGED states \/ states' = [at |-> moment, data |-> AsListed]
    BY <1>1 DEF States
  <1>5. MonitorType' /\ Received' /\ Rates'
    BY <1>2, <1>3, <1>4 DEF MonitorType, Received, Rates, Runs
  <1>6. RanWhenListed'
    <2>1. CASE UNCHANGED states
      BY <1>2, <1>3, <2>1 DEF RanWhenListed, Runs
    <2>2. CASE states' = [at |-> moment, data |-> AsListed]
      <3>1. \A s \in Sensors : states'.data[s].running = Runs(s) /\ states'.at = moment
        BY <2>2 DEF AsListed
      <3>2. \A s \in Sensors : states'.data[s].running => ran[s] >= states'.at
        BY <1>3, <3>1 DEF RanWhenListed, MonitorType
      <3> QED
        BY <1>2, <1>3, <3>2 DEF RanWhenListed, Runs
    <2> QED
      BY <1>4, <2>1, <2>2
  <1>7. ASSUME NEW s \in Sensors, answer[s].available, answer[s].running
        PROVE  moment - ran[s] < TTL
    <2>0. moment \in Nat /\ ran[s] \in Nat /\ TTL \in Nat \ {0} /\ states.at \in Nat
      BY <1>3, MonitorAssumption DEF MonitorType
    <2>1. CASE StatesKept /\ answer = states.data
      <3>1. ran[s] >= states.at
        BY <1>3, <1>7, <2>1 DEF RanWhenListed
      <3> QED
        BY <2>0, <2>1, <3>1 DEF StatesKept
    <2>2. CASE answer = AsListed
      <3>1. ran[s] = moment
        BY <1>3, <1>7, <2>2 DEF AsListed, RanWhenListed
      <3> QED
        BY <2>0, <3>1
    <2>3. CASE answer = NoStates
      BY <1>7, <2>3 DEF NoStates
    <2> QED
      BY <1>1, <2>1, <2>2, <2>3 DEF States
  <1>8. \A s \in Sensors : grid'[s].verified /\ grid'[s].online
                             => answer[s].available /\ answer[s].running
    BY <1>1 DEF Row
  <1>9. \A s \in Sensors : grid'[s].quiet = moment - ran[s]
    BY <1>1 DEF Row
  <1>10. Rows'
    BY <1>7, <1>8, <1>9 DEF Rows, TrueRow
  <1> QED
    BY <1>5, <1>6, <1>10 DEF MonitorInv

(* What does not touch containers, time, the list or the grid.             *)
Still == UNCHANGED <<container, moment, states, grid, ran>>

LEMMA StillKeeps == ASSUME MonitorInv, Still PROVE RanWhenListed' /\ Rows'
  BY DEF MonitorInv, Still, RanWhenListed, Rows, Runs

LEMMA TrueReadings == TrueRate(Unavailable) /\ TrueRate(NotRunning)
  BY DEF TrueRate, NotRunning, Unavailable

LEMMA Reading ==
  ASSUME MonitorInv, NEW s \in Sensors, Still, UNCHANGED metrics,
         NEW to, sampling' = [sampling EXCEPT ![s] = to],
         to.step = "read" => TrueRate(to.reading)
  PROVE  Rates' /\ DOMAIN sampling' = Sensors
  <1>1. \A t \in Sensors : sampling'[t] = IF t = s THEN to ELSE sampling[t]
    BY DEF MonitorInv, MonitorType
  <1>2. \A t \in Sensors : sampling'[t].step = "read" => TrueRate(sampling'[t].reading)
    BY <1>1 DEF MonitorInv, Rates
  <1>3. Rates'
    BY <1>2 DEF MonitorInv, Rates, TrueRate
  <1> QED
    BY <1>3 DEF MonitorInv, MonitorType

LEMMA StepMonitor == MonitorInv /\ [MonitorNext]_monitorVars => MonitorInv'
  <1> SUFFICES ASSUME MonitorInv, [MonitorNext]_monitorVars PROVE MonitorInv'
    OBVIOUS
  <1>1. CASE AskGrid
    BY <1>1, Asking
  <1>2. CASE BeginRound
    <2>1. Still /\ UNCHANGED <<metrics, previous, arrived>>
          /\ sampling' = [s \in Sensors |-> Sampling("find")]
      BY <1>2 DEF BeginRound, Still
    <2>2. \A s \in Sensors : sampling'[s].step = "find"
      BY <2>1 DEF Sampling
    <2>3. MonitorType' /\ Received'
      BY <2>1 DEF MonitorInv, MonitorType, Received, Runs, Still
    <2>4. Rates'
      BY <2>1, <2>2 DEF MonitorInv, Rates
    <2> QED
      BY <2>1, <2>3, <2>4, StillKeeps DEF MonitorInv
  <1>3. CASE Publish
    <2>1. Still /\ UNCHANGED <<previous, arrived>>
          /\ sampling' = [s \in Sensors |-> Sampling("sleeps")]
          /\ metrics' = [s \in Sensors |-> sampling[s].reading]
          /\ \A s \in Sensors : sampling[s].step = "read"
      BY <1>3 DEF Publish, Still
    <2>2. \A s \in Sensors : sampling'[s].step = "sleeps" /\ metrics'[s] = sampling[s].reading
      BY <2>1 DEF Sampling
    <2>3. MonitorType' /\ Received'
      BY <2>1 DEF MonitorInv, MonitorType, Received, Runs, Still
    <2>4. Rates'
      BY <2>1, <2>2 DEF MonitorInv, Rates
    <2> QED
      BY <2>1, <2>3, <2>4, StillKeeps DEF MonitorInv
  <1>4. ASSUME NEW s \in Sensors, SampleFails(s) PROVE MonitorInv'
    <2>1. Still /\ UNCHANGED <<metrics, previous, arrived>>
          /\ sampling' = [sampling EXCEPT ![s] = Sampled(Unavailable)]
      BY <1>4 DEF SampleFails, Still
    <2>2. Rates' /\ DOMAIN sampling' = Sensors
      BY <2>1, Reading, TrueReadings DEF Sampled
    <2>3. MonitorType' /\ Received'
      BY <2>1, <2>2 DEF MonitorInv, MonitorType, Received, Runs, Still
    <2> QED
      BY <2>1, <2>2, <2>3, StillKeeps DEF MonitorInv
  <1>5. ASSUME NEW s \in Sensors, Find(s) PROVE MonitorInv'
    <2>1. Still /\ UNCHANGED metrics
          /\ sampling' = [sampling EXCEPT ![s] = IF Runs(s) THEN Sampling("stats")
                                                 ELSE Sampled(NotRunning)]
      BY <1>5 DEF Find, Still
    <2> DEFINE to == IF Runs(s) THEN Sampling("stats") ELSE Sampled(NotRunning)
    <2>6. to.step = "read" => TrueRate(to.reading)
      BY TrueReadings DEF Sampled, Sampling
    <2> HIDE DEF to
    <2>7. sampling' = [sampling EXCEPT ![s] = to]
      BY <2>1 DEF to
    <2>2. Rates' /\ DOMAIN sampling' = Sensors
      BY <2>1, <2>6, <2>7, Reading
    <2>3. \/ Runs(s) /\ UNCHANGED <<previous, arrived>>
          \/ ~ Runs(s) /\ previous' = [previous EXCEPT ![s] = NoneBefore]
             /\ arrived' = [arrived EXCEPT ![s] = 0]
      BY <1>5 DEF Find
    <2>4. MonitorType'
      BY <2>1, <2>2, <2>3 DEF MonitorInv, MonitorType, Still, NoneBefore
    <2>5. Received'
      BY <2>1, <2>3 DEF MonitorInv, MonitorType, Received, Runs, Still
    <2> QED
      BY <2>1, <2>2, <2>4, <2>5, StillKeeps DEF MonitorInv
  <1>6. ASSUME NEW s \in Sensors, Stats(s) PROVE MonitorInv'
    <2> DEFINE rx == IF Runs(s) THEN container[s].rx ELSE 0
               rated == previous[s] # NoneBefore /\ moment > previous[s].at
               reading == [available |-> TRUE, running |-> TRUE,
                           rx |-> IF rated THEN Since(s, rx) ELSE NoRate,
                           over |-> IF rated THEN moment - previous[s].at ELSE 0,
                           arrived |-> arrived[s]]
    <2>1. /\ Still /\ UNCHANGED metrics
          /\ sampling' = [sampling EXCEPT ![s] = Sampled(reading)]
          /\ previous' = [previous EXCEPT ![s] = [at |-> moment, rx |-> rx]]
          /\ arrived' = [arrived EXCEPT ![s] = 0]
      BY <1>6 DEF Stats, Still
    <2>2. /\ rx \in Nat /\ previous[s].rx \in Nat /\ arrived[s] \in Nat
          /\ rx <= previous[s].rx + arrived[s]
      BY DEF MonitorInv, MonitorType, Received
    <2>3. reading.arrived = arrived[s] /\ (reading.rx = Since(s, rx) \/ reading.rx = NoRate)
      OBVIOUS
    <2> HIDE DEF rx, reading, rated
    <2>4. Since(s, rx) \in 0 .. arrived[s]
      BY <2>2 DEF Since
    <2>5. TrueRate(reading)
      BY <2>3, <2>4 DEF TrueRate
    <2>6. Rates' /\ DOMAIN sampling' = Sensors
      BY <2>1, <2>5, Reading DEF Sampled
    <2>7. MonitorType'
      BY <2>1, <2>2, <2>6 DEF MonitorInv, MonitorType, Still
    <2>8. Runs(s) => rx = container[s].rx
      BY DEF rx
    <2>9. Received'
      BY <2>1, <2>2, <2>8 DEF MonitorInv, MonitorType, Received, Runs, Still
    <2> QED
      BY <2>1, <2>6, <2>7, <2>9, StillKeeps DEF MonitorInv
  <1>7. ASSUME NEW s \in Sensors, Receive(s) PROVE MonitorInv'
    <2>1. /\ UNCHANGED <<moment, states, previous, metrics, sampling, grid, ran>>
          /\ container' = [container EXCEPT ![s].rx = @ + 1]
          /\ arrived' = [arrived EXCEPT ![s] = @ + 1]
      BY <1>7 DEF Receive
    <2>2. \A t \in Sensors : /\ DOMAIN container'[t] = {"state", "rx"}
                             /\ container'[t].state = container[t].state
                             /\ container'[t].rx = IF t = s THEN container[t].rx + 1
                                                   ELSE container[t].rx
                             /\ arrived'[t] = IF t = s THEN arrived[t] + 1 ELSE arrived[t]
      BY <2>1 DEF MonitorInv, MonitorType
    <2>3. MonitorType'
      BY <2>1, <2>2 DEF MonitorInv, MonitorType
    <2>4. Received'
      BY <2>1, <2>2 DEF MonitorInv, MonitorType, Received, Runs
    <2>5. Rates' /\ RanWhenListed' /\ Rows'
      BY <2>1, <2>2 DEF MonitorInv, Rates, RanWhenListed, Rows, Runs
    <2> QED
      BY <2>3, <2>4, <2>5 DEF MonitorInv
  <1>8. ASSUME NEW s \in Sensors, NEW to \in {"absent", "stopped", "running"}, Change(s, to)
        PROVE  MonitorInv'
    <2>1. /\ UNCHANGED <<moment, states, previous, metrics, sampling, grid, arrived>>
          /\ ran' = [ran EXCEPT ![s] = IF Runs(s) \/ to = "running" THEN moment ELSE @]
          /\ container' = [container EXCEPT ![s] =
                             CASE to = "absent"  -> Absent
                               [] to = "stopped" -> [@ EXCEPT !.state = to]
                               [] to = "running" -> [state |-> to, rx |-> 0]]
      BY <1>8 DEF Change
    <2>2. /\ \A t \in Sensors \ {s} : container'[t] = container[t] /\ ran'[t] = ran[t]
          /\ DOMAIN container' = Sensors /\ DOMAIN ran' = Sensors
      BY <2>1 DEF MonitorInv, MonitorType
    <2>3. ran'[s] = moment \/ (to # "running" /\ ran'[s] = ran[s])
      BY <2>1 DEF MonitorInv, MonitorType
    <2>4. /\ DOMAIN container'[s] = {"state", "rx"} /\ container'[s].rx \in Nat
          /\ container'[s].state = "running" => to = "running" /\ container'[s].rx = 0
      <3>1. CASE to = "absent"
        BY <2>1, <3>1 DEF MonitorInv, MonitorType, Absent
      <3>2. CASE to = "stopped"
        BY <2>1, <3>2 DEF MonitorInv, MonitorType
      <3>3. CASE to = "running"
        BY <2>1, <3>3 DEF MonitorInv, MonitorType
      <3> QED
        BY <3>1, <3>2, <3>3
    <2>5. \A t \in Sensors : ran'[t] \in 0 .. moment /\ ran'[t] >= ran[t]
      BY <2>2, <2>3 DEF MonitorInv, MonitorType
    <2>6. MonitorType'
      BY <2>1, <2>2, <2>4, <2>5 DEF MonitorInv, MonitorType
    <2>7. Received'
      BY <2>1, <2>2, <2>4 DEF MonitorInv, MonitorType, Received, Runs
    <2>8. RanWhenListed'
      <3>1. \A t \in Sensors : Runs(t)' => ran'[t] = moment
        BY <2>2, <2>3, <2>4 DEF MonitorInv, RanWhenListed, Runs
      <3>2. \A t \in Sensors : ran[t] \in Nat /\ ran'[t] \in Nat /\ states.at \in Nat
        BY <2>5 DEF MonitorInv, MonitorType
      <3> QED
        BY <2>1, <2>5, <3>1, <3>2 DEF MonitorInv, RanWhenListed
    <2>9. Rates' /\ Rows'
      BY <2>1 DEF MonitorInv, Rates, Rows
    <2> QED
      BY <2>6, <2>7, <2>8, <2>9 DEF MonitorInv
  <1>9. CASE Pass
    <2>1. /\ UNCHANGED <<container, states, previous, metrics, sampling, grid, arrived>>
          /\ moment' = moment + 1
          /\ ran' = [s \in Sensors |-> IF Runs(s) THEN moment + 1 ELSE ran[s]]
      BY <1>9 DEF Pass
    <2>2. \A s \in Sensors : /\ Runs(s) => ran'[s] = moment + 1
                             /\ ran'[s] \in 0 .. (moment + 1) /\ ran'[s] >= ran[s]
      BY <2>1 DEF MonitorInv, MonitorType
    <2>3. MonitorType' /\ Received'
      BY <2>1, <2>2 DEF MonitorInv, MonitorType, Received, Runs
    <2>4. \A s \in Sensors : ran[s] \in Nat /\ ran'[s] \in Nat /\ states.at \in Nat
      BY <2>2 DEF MonitorInv, MonitorType
    <2>5. RanWhenListed'
      BY <2>1, <2>2, <2>4 DEF MonitorInv, RanWhenListed, Runs
    <2>6. Rates' /\ Rows'
      BY <2>1 DEF MonitorInv, Rates, Rows
    <2> QED
      BY <2>3, <2>5, <2>6 DEF MonitorInv
  <1>10. CASE UNCHANGED monitorVars
    BY <1>10 DEF monitorVars, MonitorInv, MonitorType, Received, Rates, RanWhenListed, Rows, Runs
  <1> QED
    BY <1>1, <1>2, <1>3, <1>4, <1>5, <1>6, <1>7, <1>8, <1>9, <1>10 DEF MonitorNext

(* A rate shown of a sensor is no more than the traffic since the reading  *)
(* before and no less than none, and a sensor verified as online ran       *)
(* within the last TTL, whatever containers start, stop and vanish while   *)
(* they are sampled (container_status.py).                                 *)
THEOREM SensorsShownTruly == MonitorSpec => []ShownIsTrue
  <1>1. MonitorInv => ShownIsTrue
    BY DEF MonitorInv, Rates, TrueRate, Rows, TrueRow, ShownIsTrue
  <1> QED
    BY <1>1, InitMonitor, StepMonitor, PTL DEF MonitorSpec

-----------------------------------------------------------------------------
(* CloudLabs.                                                              *)

Launching(l) == provisioning[l] \in {"launched", "recording"}
IsGone(l) == instance[l].state \notin Live \/ l \in unseen

CloudType ==
  /\ DOMAIN instance = Clouds /\ DOMAIN shown = Clouds
  /\ DOMAIN provisioning = Clouds /\ DOMAIN stopping = Stoppers
  /\ \A l \in Clouds : /\ DOMAIN instance[l] = {"state", "env", "tagged"}
                       /\ shown[l] = [status |-> shown[l].status, door |-> shown[l].door]
  /\ \A s \in Stoppers : stopping[s] = [step |-> stopping[s].step, labs |-> stopping[s].labs]

(* A lab that is shown has been launched, and is not launched again.       *)
ShownWasLaunched ==
  \A l \in Clouds :
    shown[l] # NotShown => shown[l].status # "unknown" /\ provisioning[l] \notin {"none"}
                           /\ ~ Launching(l)

(* A stop is of a lab that is shown, and takes for gone what is gone, or   *)
(* what it could not look up.                                              *)
StopsKnow ==
  \A s \in Stoppers, l \in Clouds :
    stopping[s].labs = {l} => /\ shown[l] # NotShown
                              /\ stopping[s].step = "gone" => IsGone(l)

CloudInv == CloudType /\ ShownWasLaunched /\ StopsKnow /\ InstancesAreShown

LEMMA InitCloud == CloudInit => CloudInv
  <1> SUFFICES ASSUME CloudInit PROVE CloudInv
    OBVIOUS
  <1>1. CloudType
    BY DEF CloudInit, CloudType, NoInstance, NotShown, NoStop
  <1>2. ShownWasLaunched /\ StopsKnow
    BY DEF CloudInit, ShownWasLaunched, StopsKnow, NoStop
  <1>3. InstancesAreShown
    BY DEF CloudInit, InstancesAreShown, NoInstance, Live
  <1> QED
    BY <1>1, <1>2, <1>3 DEF CloudInv

(* Marking a lab changes the status of one that is shown.                  *)
MarkedAs(l, status) ==
  /\ DOMAIN shown' = Clouds
  /\ \A m \in Clouds : /\ shown'[m] = [status |-> shown'[m].status, door |-> shown'[m].door]
                       /\ (shown'[m] = NotShown) = (shown[m] = NotShown)
                       /\ m # l => shown'[m] = shown[m]
  /\ \/ shown[l] = NotShown /\ shown' = shown
     \/ shown[l] # NotShown /\ shown'[l].status = status

LEMMA Marked ==
  ASSUME CloudType, NEW l \in Clouds, NEW status \in {"ERROR", "STOPPING", "TERMINATED"},
         MarkLab(l, status)
  PROVE  MarkedAs(l, status)
  <1>1. CASE shown[l] = NotShown
    BY <1>1 DEF MarkLab, CloudType, MarkedAs
  <1>2. CASE shown[l] # NotShown
    <2>1. shown' = [shown EXCEPT ![l].status = status]
      BY <1>2 DEF MarkLab
    <2>2. shown'[l] = [status |-> status, door |-> shown[l].door]
      BY <2>1 DEF CloudType
    <2>3. \A m \in Clouds : m # l => shown'[m] = shown[m]
      BY <2>1 DEF CloudType
    <2>4. shown'[l].status = status /\ shown'[l] # NotShown
      BY <2>2 DEF NotShown
    <2>5. DOMAIN shown' = Clouds
      BY <2>1 DEF CloudType
    <2> QED
      BY <1>2, <2>2, <2>3, <2>4, <2>5 DEF CloudType, MarkedAs
  <1> QED
    BY <1>1, <1>2

LEMMA StepCloud == CloudInv /\ [CloudNext]_cloudVars => CloudInv'
  <1> SUFFICES ASSUME CloudInv, [CloudNext]_cloudVars PROVE CloudInv'
    OBVIOUS
  <1> USE DEF CloudInv
  <1>1. ASSUME NEW l \in Clouds, NEW env \in Environments, Launch(l, env) PROVE CloudInv'
    <2>1. /\ provisioning[l] = "none" /\ UNCHANGED <<shown, stopping>>
          /\ shown[l] = NotShown
      BY <1>1 DEF Launch, ShownWasLaunched
    <2>2. PICK to \in {"launched", "over"} : provisioning' = [provisioning EXCEPT ![l] = to]
      BY <1>1 DEF Launch
    <2>3. /\ \A m \in Clouds \ {l} : instance'[m] = instance[m]
          /\ DOMAIN instance' = Clouds /\ DOMAIN instance'[l] = {"state", "env", "tagged"}
          /\ unseen \subseteq unseen'
          /\ instance'[l] = instance[l] \/ to = "launched" \/ l \in unseen'
      BY <1>1, <2>2 DEF Launch, CloudType
    <2>4. CloudType'
      BY <2>1, <2>2, <2>3 DEF CloudType
    <2>5. ShownWasLaunched'
      BY <2>1, <2>2 DEF ShownWasLaunched, CloudType, Launching
    <2>6. StopsKnow'
      BY <2>1, <2>3 DEF StopsKnow, IsGone
    <2>7. InstancesAreShown'
      BY <2>1, <2>2, <2>3 DEF InstancesAreShown, CloudType
    <2> QED
      BY <2>4, <2>5, <2>6, <2>7
  <1>2. ASSUME NEW l \in Clouds, Tag(l) PROVE CloudInv'
    <2>1. /\ UNCHANGED <<shown, stopping, unseen>> /\ provisioning[l] = "launched"
          /\ provisioning' = [provisioning EXCEPT ![l] = "recording"]
          /\ \A m \in Clouds : /\ instance'[m].state = instance[m].state
                               /\ DOMAIN instance'[m] = {"state", "env", "tagged"}
          /\ DOMAIN instance' = Clouds
      BY <1>2 DEF Tag, CloudType
    <2> QED
      BY <2>1 DEF CloudType, ShownWasLaunched, StopsKnow, InstancesAreShown, Launching, IsGone
  <1>3. ASSUME NEW l \in Clouds, Record(l) PROVE CloudInv'
    <2>1. /\ UNCHANGED <<instance, stopping, unseen>> /\ provisioning[l] = "recording"
          /\ provisioning' = [provisioning EXCEPT ![l] = "running"]
          /\ shown' = [shown EXCEPT ![l] = [status |-> "PROVISIONING", door |-> "none"]]
      BY <1>3 DEF Record
    <2>2. /\ shown'[l] = [status |-> "PROVISIONING", door |-> "none"]
          /\ provisioning'[l] = "running" /\ DOMAIN shown' = Clouds
          /\ \A m \in Clouds \ {l} : shown'[m] = shown[m] /\ provisioning'[m] = provisioning[m]
      BY <2>1 DEF CloudType
    <2>3. CloudType' /\ InstancesAreShown'
      BY <2>1, <2>2 DEF CloudType, InstancesAreShown
    <2>4. ShownWasLaunched' /\ StopsKnow'
      BY <2>1, <2>2 DEF ShownWasLaunched, StopsKnow, Launching, IsGone, NotShown
    <2> QED
      BY <2>3, <2>4
  <1>4. ASSUME NEW l \in Clouds, UNCHANGED <<instance, stopping, unseen>>,
               provisioning[l] \in {"running", "checks", "connect"},
               NEW to \in {"checks", "connect", "over"},
               provisioning' = [provisioning EXCEPT ![l] = to],
               UNCHANGED shown \/ MarkLab(l, "ERROR")
        PROVE  CloudInv'
    <2>1. CASE UNCHANGED shown
      BY <1>4, <2>1 DEF CloudType, ShownWasLaunched, StopsKnow, InstancesAreShown, Launching, IsGone
    <2>2. CASE MarkLab(l, "ERROR")
      <3>0. MarkedAs(l, "ERROR")
        BY <2>2, Marked
      <3>1. CloudType' /\ StopsKnow'
        BY <1>4, <3>0 DEF CloudType, StopsKnow, IsGone, MarkedAs
      <3>2. ShownWasLaunched'
        BY <1>4, <3>0 DEF CloudType, ShownWasLaunched, Launching, MarkedAs
      <3>3. InstancesAreShown'
        BY <1>4, <3>0 DEF CloudType, InstancesAreShown, NotShown, MarkedAs
      <3> QED
        BY <3>1, <3>2, <3>3
    <2> QED
      BY <1>4, <2>1, <2>2
  <1>5. ASSUME NEW l \in Clouds, OpenDoor(l) PROVE CloudInv'
    <2>1. CASE \/ instance[l].state \notin Live /\ Reject(l)
               \/ Reject(l)
      BY <1>4, <1>5, <2>1 DEF OpenDoor, Reject
    <2>2. CASE /\ shown' = IF shown[l] = NotShown THEN shown
                           ELSE [shown EXCEPT ![l] = [status |-> "READY", door |-> Door(l)]]
               /\ provisioning' = [provisioning EXCEPT ![l] = "over"]
      <3>1. UNCHANGED <<instance, stopping, unseen>> /\ provisioning[l] = "connect"
        BY <1>5 DEF OpenDoor
      <3>2. CASE shown[l] = NotShown
        BY <1>4, <2>2, <3>1, <3>2
      <3>3. CASE shown[l] # NotShown
        <4>1. /\ shown'[l] = [status |-> "READY", door |-> Door(l)] /\ DOMAIN shown' = Clouds
              /\ \A m \in Clouds \ {l} : shown'[m] = shown[m] /\ provisioning'[m] = provisioning[m]
              /\ provisioning'[l] = "over"
          BY <2>2, <3>3 DEF CloudType
        <4>2. CloudType' /\ InstancesAreShown'
          BY <2>2, <3>1, <4>1 DEF CloudType, InstancesAreShown
        <4>3. ShownWasLaunched' /\ StopsKnow'
          BY <3>1, <3>3, <4>1 DEF ShownWasLaunched, StopsKnow, Launching, IsGone, NotShown
        <4> QED
          BY <4>2, <4>3
      <3> QED
        BY <3>2, <3>3
    <2> QED
      BY <1>5, <2>1, <2>2 DEF OpenDoor
  <1>6. ASSUME NEW s \in Stoppers, NEW l \in Clouds, Stop(s, l) PROVE CloudInv'
    <2>1. /\ UNCHANGED <<instance, provisioning, unseen>> /\ shown[l] # NotShown
          /\ MarkLab(l, "STOPPING")
          /\ stopping' = [stopping EXCEPT ![s] = [step |-> "resolve", labs |-> {l}]]
      BY <1>6 DEF Stop
    <2>5. MarkedAs(l, "STOPPING")
      BY <2>1, Marked
    <2>2. CloudType' /\ ShownWasLaunched'
      BY <2>1, <2>5 DEF CloudType, ShownWasLaunched, Launching, MarkedAs
    <2>6. /\ stopping'[s] = [step |-> "resolve", labs |-> {l}]
          /\ \A t \in Stoppers \ {s} : stopping'[t] = stopping[t]
      BY <2>1 DEF CloudType
    <2>7. \A m \in Clouds : (shown'[m] = NotShown) = (shown[m] = NotShown)
      BY <2>5 DEF MarkedAs
    <2>3. StopsKnow'
      BY <2>1, <2>6, <2>7 DEF StopsKnow, IsGone
    <2>4. InstancesAreShown'
      BY <2>1, <2>5 DEF CloudType, InstancesAreShown, MarkedAs
    <2> QED
      BY <2>2, <2>3, <2>4
  <1>7. ASSUME NEW s \in Stoppers, NEW l \in Clouds, Resolve(s, l) PROVE CloudInv'
    <2>1. PICK to \in {"terminate", "gone"} :
            /\ UNCHANGED <<instance, shown, provisioning>>
            /\ stopping' = [stopping EXCEPT ![s].step = to]
            /\ unseen \subseteq unseen'
            /\ to = "gone" => l \in unseen' \/ instance[l].state = "none"
      BY <1>7 DEF Resolve, Step, Describable
    <2>2. stopping[s].labs = {l} /\ \A m \in Clouds : stopping[s].labs = {m} => m = l
      BY <1>7 DEF Resolve, StopAt
    <2>3. /\ stopping'[s] = [step |-> to, labs |-> {l}]
          /\ \A t \in Stoppers \ {s} : stopping'[t] = stopping[t]
      <3>1. stopping[s] = [step |-> stopping[s].step, labs |-> {l}] /\ s \in DOMAIN stopping
        BY <2>2 DEF CloudType
      <3> QED
        BY <2>1, <3>1
    <2>4. CloudType' /\ ShownWasLaunched' /\ InstancesAreShown'
      BY <2>1, <2>3 DEF CloudType, ShownWasLaunched, InstancesAreShown, Launching
    <2>5. StopsKnow'
      BY <2>1, <2>2, <2>3 DEF StopsKnow, IsGone, Live
    <2> QED
      BY <2>4, <2>5
  <1>8. ASSUME NEW l \in Clouds, UNCHANGED <<shown, provisioning, unseen>>,
               UNCHANGED instance \/ ShutDown(l), CloudType',
               \A s \in Stoppers : \/ UNCHANGED stopping[s]
                                   \/ /\ stopping'[s].labs = stopping[s].labs
                                      /\ stopping'[s].step = "gone" => /\ stopping[s].labs = {l}
                                                                       /\ ShutDown(l)
        PROVE  CloudInv'
    <2>1. \A m \in Clouds : /\ instance'[m].state \in Live => instance'[m] = instance[m]
                            /\ m = l /\ ShutDown(l) => instance'[m].state \notin Live
      BY <1>8 DEF ShutDown, CloudType, Live
    <2>2. ShownWasLaunched' /\ InstancesAreShown'
      BY <1>8, <2>1 DEF ShownWasLaunched, InstancesAreShown, Launching
    <2>3. StopsKnow'
      BY <1>8, <2>1 DEF StopsKnow, IsGone
    <2> QED
      BY <1>8, <2>2, <2>3
  <1>9. ASSUME NEW s \in Stoppers, NEW l \in Clouds, Terminate(s, l) PROVE CloudInv'
    <2>1. PICK to \in {"gone", "failed"} :
            /\ UNCHANGED <<shown, provisioning, unseen>>
            /\ stopping' = [stopping EXCEPT ![s].step = to]
            /\ UNCHANGED instance \/ ShutDown(l)
            /\ to = "gone" => ShutDown(l)
      BY <1>9 DEF Terminate, Step
    <2>2. stopping[s].labs = {l}
      BY <1>9 DEF Terminate, StopAt
    <2>3. /\ stopping'[s] = [step |-> to, labs |-> {l}]
          /\ \A t \in Stoppers \ {s} : stopping'[t] = stopping[t]
      <3>1. stopping[s] = [step |-> stopping[s].step, labs |-> {l}] /\ s \in DOMAIN stopping
        BY <2>2 DEF CloudType
      <3> QED
        BY <2>1, <3>1
    <2>4. CloudType'
      BY <2>1, <2>3 DEF CloudType, ShutDown
    <2> QED
      BY <1>8, <2>1, <2>2, <2>3, <2>4
  <1>10. ASSUME NEW l \in Clouds, StopInstance(l) PROVE CloudInv'
    <2>1. CloudType'
      BY <1>10 DEF StopInstance, CloudType, ShutDown
    <2> QED
      BY <1>8, <1>10, <2>1 DEF StopInstance
  <1>11. ASSUME NEW s \in Stoppers, NEW l \in Clouds, Settle(s, l) PROVE CloudInv'
    <2>1. PICK status \in {"TERMINATED", "ERROR"} :
            /\ UNCHANGED <<instance, provisioning, unseen>> /\ MarkLab(l, status)
            /\ stopping' = [stopping EXCEPT ![s] = NoStop]
            /\ status = "TERMINATED" => StopAt(s, "gone", l)
      BY <1>11 DEF Settle
    <2>5. MarkedAs(l, status)
      BY <2>1, Marked
    <2>2. CloudType' /\ ShownWasLaunched'
      BY <2>1, <2>5 DEF CloudType, ShownWasLaunched, Launching, NoStop, MarkedAs
    <2>3. StopsKnow'
      BY <2>1, <2>5 DEF CloudType, StopsKnow, IsGone, NoStop, MarkedAs
    <2>4. InstancesAreShown'
      <3>1. status = "TERMINATED" => IsGone(l)
        BY <2>1 DEF StopAt, StopsKnow
      <3> QED
        BY <2>1, <2>5, <3>1 DEF CloudType, InstancesAreShown, IsGone, MarkedAs
    <2> QED
      BY <2>2, <2>3, <2>4
  <1>12. ASSUME NEW l \in Clouds, Proceed(l) PROVE CloudInv'
    <2>1. /\ UNCHANGED <<shown, provisioning, stopping, unseen>>
          /\ DOMAIN instance' = Clouds
          /\ \A m \in Clouds : /\ DOMAIN instance'[m] = {"state", "env", "tagged"}
                               /\ instance'[m].state \in Live => instance[m].state \in Live
      BY <1>12 DEF Proceed, CloudType, Live
    <2> QED
      BY <2>1 DEF CloudType, ShownWasLaunched, StopsKnow, InstancesAreShown, Launching, IsGone
  <1>13. CASE CloudRestart
    <2>1. /\ UNCHANGED instance /\ unseen \subseteq unseen'
          /\ stopping' = [s \in Stoppers |-> NoStop]
          /\ provisioning' = [l \in Clouds |-> IF provisioning[l] = "none" THEN "none" ELSE "over"]
          /\ shown' = [l \in Clouds |-> IF shown[l].status \in ACTIVE
                                        THEN [shown[l] EXCEPT !.status = "TERMINATED"]
                                        ELSE shown[l]]
          /\ \A l \in Clouds : shown[l].status \in ACTIVE \/ Launching(l) => l \in unseen'
      BY <1>13 DEF CloudRestart, Launching
    <2>2. \A l \in Clouds :
            /\ shown'[l] = [status |-> shown'[l].status, door |-> shown'[l].door]
            /\ \/ shown'[l] = shown[l]
               \/ shown'[l].status = "TERMINATED" /\ shown[l].status \in ACTIVE
      BY <2>1 DEF CloudType
    <2>3. \A l \in Clouds : shown[l].status \in ACTIVE => shown[l] # NotShown
      BY DEF ACTIVE, NotShown
    <2>4. CloudType' /\ StopsKnow'
      BY <2>1, <2>2 DEF CloudType, StopsKnow, NoStop
    <2>5. ShownWasLaunched'
      BY <2>1, <2>2, <2>3 DEF ShownWasLaunched, Launching
    <2>6. InstancesAreShown'
      BY <2>1, <2>2 DEF InstancesAreShown, Launching
    <2> QED
      BY <2>4, <2>5, <2>6
  <1>14. CASE UNCHANGED cloudVars
    BY <1>14 DEF cloudVars, CloudType, ShownWasLaunched, StopsKnow, InstancesAreShown, Launching,
                 IsGone
  <1>15. ASSUME NEW l \in Clouds, WaitForAddress(l) \/ WaitForChecks(l) PROVE CloudInv'
    BY <1>4, <1>15 DEF WaitForAddress, WaitForChecks, Reject
  <1> QED
    BY <1>1, <1>2, <1>3, <1>5, <1>6, <1>7, <1>9, <1>10, <1>11, <1>12, <1>13, <1>14, <1>15
    DEF CloudNext

(* An instance that runs is that of a lab that is not shown as terminated, *)
(* or is being launched, however polls, stops and failing calls interleave *)
(* and for any number of labs: the backend loses sight of one only in the  *)
(* ways the history names (aws_provider.py, session_manager.py).           *)
THEOREM CloudsAreShown == CloudSpec => []InstancesAreShown
  <1>1. CloudInv => InstancesAreShown
    BY DEF CloudInv
  <1> QED
    BY <1>1, InitCloud, StepCloud, PTL DEF CloudSpec

-----------------------------------------------------------------------------
(* MobileScans.                                                            *)

IsRequest(r) == DOMAIN r = {"what", "app", "at", "door", "got"}

MobsfType ==
  /\ DOMAIN engine = {"state", "port", "known", "found"} /\ DOMAIN engine.found = Apps
  /\ DOMAIN saved = Apps /\ \A a \in Apps : DOMAIN saved[a] = {"uploaded", "report", "score"}
  /\ DOMAIN request = MobsfRequests /\ \A q \in MobsfRequests : IsRequest(request[q])

(* A report in the engine, and one on its way to the table, was found by a *)
(* scan of the app.                                                        *)
FoundByScan == \A a \in Apps : engine.found[a] # NoReport => <<a, engine.found[a]>> \in scanned

OnItsWay(r, S) == r.at = "save" /\ r.what # "upload" => r.app \in Apps /\ <<r.app, r.got>> \in S
GotByScan == \A q \in MobsfRequests : OnItsWay(request[q], scanned)

OfApps(r) == r.at # "idle" => r.app \in Apps
AskedOfApps == \A q \in MobsfRequests : OfApps(request[q])

MobsfInv == MobsfType /\ FoundByScan /\ GotByScan /\ AskedOfApps

LEMMA InitMobsf == MobsfInit => MobsfInv
  <1> SUFFICES ASSUME MobsfInit PROVE MobsfInv
    OBVIOUS
  <1>1. /\ engine.found = [a \in Apps |-> NoReport]
        /\ DOMAIN engine = {"state", "port", "known", "found"}
        /\ saved = [a \in Apps |-> NotScanned] /\ request = [q \in MobsfRequests |-> Unasked]
    BY DEF MobsfInit, NoEngine
  <1>2. MobsfType
    BY <1>1 DEF MobsfType, NotScanned, IsRequest, Unasked
  <1>3. FoundByScan /\ GotByScan /\ AskedOfApps
    BY <1>1 DEF FoundByScan, GotByScan, AskedOfApps, OnItsWay, OfApps, Unasked
  <1> QED
    BY <1>2, <1>3 DEF MobsfInv

(* A step that moves one request on.                                       *)
LEMMA RequestMoves ==
  ASSUME MobsfInv, NEW q \in MobsfRequests, NEW r,
         request' = [request EXCEPT ![q] = r], IsRequest(r),
         UNCHANGED saved, scanned \subseteq scanned',
         DOMAIN engine' = {"state", "port", "known", "found"}, DOMAIN engine'.found = Apps,
         \A a \in Apps : \/ engine'.found[a] \in {NoReport, engine.found[a]}
                         \/ <<a, engine'.found[a]>> \in scanned',
         OnItsWay(r, scanned'), OfApps(r)
  PROVE  MobsfInv'
  <1>1. \A p \in MobsfRequests : request'[p] = IF p = q THEN r ELSE request[p]
    BY DEF MobsfInv, MobsfType
  <1>2. MobsfType' /\ AskedOfApps'
    BY <1>1 DEF MobsfInv, MobsfType, AskedOfApps, OfApps
  <1>3. FoundByScan'
    BY DEF MobsfInv, FoundByScan
  <1>4. GotByScan'
    BY <1>1 DEF MobsfInv, GotByScan, OnItsWay
  <1> QED
    BY <1>2, <1>3, <1>4 DEF MobsfInv

LEMMA UnaskedIs == IsRequest(Unasked) /\ OnItsWay(Unasked, scanned') /\ OfApps(Unasked)
  BY DEF IsRequest, OnItsWay, OfApps, Unasked

(* Unless it is saved, a request leaves the table alone.                   *)
LEMMA ServeKeeps ==
  ASSUME MobsfInv, NEW q \in MobsfRequests, Serve(q), ~ Save(q)
  PROVE  MobsfInv' /\ UNCHANGED saved
  <1> DEFINE row == request[q]
  <1>0. IsRequest(row) /\ FoundByScan /\ OfApps(row) /\ OnItsWay(row, scanned)
        /\ DOMAIN engine = {"state", "port", "known", "found"} /\ DOMAIN engine.found = Apps
        /\ q \in DOMAIN request
    BY DEF MobsfInv, MobsfType, GotByScan, AskedOfApps
  <1>1. ASSUME NEW a \in Apps, NEW what \in {"upload", "scan", "report", "status"},
               Ask(q, what, a)
        PROVE  MobsfInv' /\ UNCHANGED saved
    <2>1. PICK at \in {"post", "look"} :
            request' = [request EXCEPT ![q] = [what |-> what, app |-> a, door |-> url, at |-> at,
                                               got |-> NoReport]]
      BY <1>1 DEF Ask
    <2> DEFINE r == [what |-> what, app |-> a, door |-> url, at |-> at, got |-> NoReport]
    <2>2. IsRequest(r) /\ OnItsWay(r, scanned') /\ OfApps(r)
      BY DEF IsRequest, OnItsWay, OfApps
    <2>3. UNCHANGED <<saved, scanned, engine>>
      BY <1>1 DEF Ask
    <2> HIDE DEF r
    <2>4. request' = [request EXCEPT ![q] = r]
      BY <2>1 DEF r
    <2> QED
      BY <1>0, <2>2, <2>3, <2>4, RequestMoves
  <1>2. ASSUME NEW at \in {"run", "start", "wait", "post"}, NEW door,
               row.at # "idle",
               request' = [request EXCEPT ![q].at = at, ![q].door = door],
               UNCHANGED <<saved, scanned>>,
               UNCHANGED engine \/ engine' = [engine EXCEPT !.state = "running"]
                 \/ engine' = [NoEngine EXCEPT !.state = "running", !.port = FreePort]
        PROVE  MobsfInv' /\ UNCHANGED saved
    <2> DEFINE r == [row EXCEPT !.at = at, !.door = door]
    <2>1. IsRequest(r) /\ OnItsWay(r, scanned') /\ OfApps(r)
      BY <1>0, <1>2 DEF IsRequest, OnItsWay, OfApps
    <2>4. /\ engine'.found = engine.found \/ engine'.found = [a \in Apps |-> NoReport]
          /\ DOMAIN engine' = {"state", "port", "known", "found"}
      BY <1>0, <1>2 DEF NoEngine
    <2>2. /\ DOMAIN engine' = {"state", "port", "known", "found"} /\ DOMAIN engine'.found = Apps
          /\ \A a \in Apps : engine'.found[a] \in {NoReport, engine.found[a]}
      BY <1>0, <2>4
    <2> HIDE DEF r
    <2>3. request' = [request EXCEPT ![q] = r]
      BY <1>0, <1>2 DEF r
    <2> QED
      BY <1>2, <2>1, <2>2, <2>3, RequestMoves
  <1>3. ASSUME Answered(q), UNCHANGED saved, scanned \subseteq scanned',
               DOMAIN engine' = {"state", "port", "known", "found"}, DOMAIN engine'.found = Apps,
               \A a \in Apps : \/ engine'.found[a] \in {NoReport, engine.found[a]}
                               \/ <<a, engine'.found[a]>> \in scanned'
        PROVE  MobsfInv' /\ UNCHANGED saved
    BY <1>3, UnaskedIs, RequestMoves DEF Answered
  <1>4. CASE Look(q)
    <2>1. request' = [request EXCEPT ![q].at = IF engine.state = "absent" THEN "run" ELSE "start"]
      BY <1>4 DEF Look, GoTo
    <2>2. request' = [request EXCEPT ![q].at = IF engine.state = "absent" THEN "run" ELSE "start",
                                     ![q].door = row.door]
      BY <1>0, <2>1 DEF IsRequest
    <2> QED
      BY <1>2, <1>4, <2>2 DEF Look
  <1>5. CASE StartEngine(q)
    <2>1. CASE engine.state = "absent"
      BY <1>0, <1>3, <1>5, <2>1 DEF StartEngine, FailRequest
    <2>2. CASE engine.state # "absent"
      BY <1>2, <1>5, <2>2 DEF StartEngine
    <2> QED
      BY <2>1, <2>2
  <1>6. CASE Run(q)
    <2>1. CASE engine.state # "absent"
      BY <1>0, <1>3, <1>6, <2>1 DEF Run, FailRequest
    <2>2. CASE engine.state = "absent"
      BY <1>2, <1>6, <2>2 DEF Run
    <2> QED
      BY <2>1, <2>2
  <1>7. CASE AwaitEngine(q)
    <2>1. CASE Answered(q)
      BY <1>0, <1>3, <1>7, <2>1 DEF AwaitEngine
    <2>2. CASE GoTo(q, "post")
      <3>1. request' = [request EXCEPT ![q].at = "post", ![q].door = row.door]
        BY <1>0, <2>2 DEF IsRequest, GoTo
      <3> QED
        BY <1>2, <1>7, <3>1 DEF AwaitEngine
    <2> QED
      BY <1>7, <2>1, <2>2 DEF AwaitEngine, FailRequest
  <1>8. ASSUME NEW a \in Apps, NEW r, engine' = [engine EXCEPT !.found[a] = r],
               scanned' = scanned \cup {<<a, r>>}, Answered(q), UNCHANGED saved
        PROVE  MobsfInv' /\ UNCHANGED saved
    <2>1. /\ DOMAIN engine' = {"state", "port", "known", "found"} /\ DOMAIN engine'.found = Apps
          /\ \A b \in Apps : engine'.found[b] = IF b = a THEN r ELSE engine.found[b]
      BY <1>0, <1>8
    <2> QED
      BY <1>3, <1>8, <2>1
  <1>9. CASE Post(q)
    <2>0. row.app \in Apps /\ UNCHANGED saved
      BY <1>0, <1>9 DEF Post, OfApps
    <2>1. CASE Answered(q) /\ UNCHANGED <<engine, scanned>>
      BY <1>0, <1>3, <2>0, <2>1
    <2>2. CASE row.what = "upload" /\ PostUpload(q)
      <3> DEFINE r == [row EXCEPT !.at = "save"]
      <3>1. IsRequest(r) /\ OnItsWay(r, scanned') /\ OfApps(r)
        BY <1>0, <2>0, <2>2 DEF IsRequest, OnItsWay, OfApps
      <3>2. request' = [request EXCEPT ![q] = r]
        BY <1>0, <2>2 DEF PostUpload, GoTo
      <3>3. /\ DOMAIN engine' = {"state", "port", "known", "found"} /\ engine'.found = engine.found
            /\ UNCHANGED scanned
        BY <1>0, <2>2 DEF PostUpload
      <3> HIDE DEF r
      <3> QED
        BY <1>0, <2>0, <3>1, <3>2, <3>3, RequestMoves
    <2>3. CASE PostScan(q)
      BY <1>8, <2>0, <2>1, <2>3 DEF PostScan
    <2>4. CASE row.what = "report" /\ PostReport(q)
      <3>1. CASE engine.found[row.app] = NoReport
        BY <2>1, <2>4, <3>1 DEF PostReport
      <3>2. CASE engine.found[row.app] # NoReport
        <4> DEFINE r == [row EXCEPT !.at = "save", !.got = engine.found[row.app]]
        <4>1. request' = [request EXCEPT ![q] = r] /\ UNCHANGED <<engine, scanned>>
          BY <1>0, <2>4, <3>2 DEF PostReport
        <4>2. <<row.app, engine.found[row.app]>> \in scanned
          BY <1>0, <2>0, <3>2 DEF FoundByScan
        <4>3. IsRequest(r) /\ OnItsWay(r, scanned') /\ OfApps(r)
          BY <1>0, <2>0, <4>1, <4>2 DEF IsRequest, OnItsWay, OfApps
        <4> HIDE DEF r
        <4> QED
          BY <1>0, <2>0, <4>1, <4>3, RequestMoves
      <3> QED
        BY <3>1, <3>2
    <2> QED
      BY <1>9, <2>1, <2>2, <2>3, <2>4 DEF Post, FailRequest
  <1>10. CASE AnswerLost(q)
    <2>0. row.app \in Apps /\ UNCHANGED saved /\ Answered(q)
      BY <1>0, <1>10 DEF AnswerLost, OfApps, FailRequest
    <2>1. CASE engine' = [engine EXCEPT !.known = @ \cup {row.app}] /\ UNCHANGED scanned
      BY <1>0, <1>3, <2>0, <2>1
    <2> QED
      BY <1>8, <1>10, <2>0, <2>1 DEF AnswerLost
  <1> QED
    BY <1>1, <1>4, <1>5, <1>6, <1>7, <1>9, <1>10 DEF Serve

(* What is saved is what is on its way.                                    *)
OnlyScans == \A a \in Apps : \/ saved'[a].report = saved[a].report
                             \/ <<a, saved'[a].report>> \in scanned

LEMMA SaveKeeps ==
  ASSUME MobsfInv, NEW q \in MobsfRequests, Save(q)
  PROVE  MobsfInv' /\ OnlyScans
  <1> DEFINE row == request[q]
  <1>1. /\ UNCHANGED <<engine, scanned>> /\ request' = [request EXCEPT ![q] = Unasked]
        /\ row.at = "save" /\ OnItsWay(row, scanned) /\ OfApps(row)
    BY DEF Save, Answered, MobsfInv, GotByScan, AskedOfApps
  <1>2. row.app \in Apps
    BY <1>1 DEF OfApps
  <1>3. CASE row.what = "upload"
    <2>1. saved' = [saved EXCEPT ![row.app].uploaded = TRUE]
      BY <1>3 DEF Save, save_upload_context
    <2> QED
      BY <1>1, <1>2, <2>1, UnaskedIs
      DEF MobsfInv, MobsfType, FoundByScan, GotByScan, AskedOfApps, OnlyScans, OnItsWay
  <1>4. CASE row.what # "upload"
    <2>1. saved' = [saved EXCEPT ![row.app].report = row.got,
                                 ![row.app].score = MobsfScore(row.got)]
      BY <1>4 DEF Save, save_report
    <2>2. <<row.app, row.got>> \in scanned
      BY <1>1, <1>4 DEF OnItsWay
    <2>3. /\ DOMAIN saved' = Apps
          /\ \A a \in Apps : /\ DOMAIN saved'[a] = {"uploaded", "report", "score"}
                             /\ saved'[a].report = IF a = row.app THEN row.got ELSE saved[a].report
      BY <1>2, <2>1 DEF MobsfInv, MobsfType
    <2> QED
      BY <1>1, <1>2, <2>2, <2>3, UnaskedIs
      DEF MobsfInv, MobsfType, FoundByScan, GotByScan, AskedOfApps, OnlyScans, OnItsWay
  <1> QED
    BY <1>3, <1>4

LEMMA StepMobsf == MobsfInv /\ [MobsfNext]_mobsfVars => MobsfInv' /\ (OnlyScans \/ UNCHANGED mobsfVars)
  <1> SUFFICES ASSUME MobsfInv, [MobsfNext]_mobsfVars
               PROVE  MobsfInv' /\ (OnlyScans \/ UNCHANGED mobsfVars)
    OBVIOUS
  <1>1. ASSUME NEW q \in MobsfRequests, Serve(q) PROVE MobsfInv' /\ OnlyScans
    BY <1>1, SaveKeeps, ServeKeeps DEF OnlyScans
  <1>2. CASE StopEngine
    <2>1. UNCHANGED <<saved, request, scanned>> /\ engine' = [engine EXCEPT !.state = "stopped"]
      BY <1>2 DEF StopEngine
    <2> QED
      BY <2>1 DEF MobsfInv, MobsfType, FoundByScan, GotByScan, AskedOfApps, OnlyScans, OnItsWay
  <1>3. CASE RemoveEngine
    <2>1. UNCHANGED <<saved, request, scanned>> /\ engine' = NoEngine
      BY <1>3 DEF RemoveEngine
    <2> QED
      BY <2>1 DEF MobsfInv, MobsfType, FoundByScan, GotByScan, AskedOfApps, OnlyScans, OnItsWay,
                  NoEngine
  <1>4. CASE MobsfRestart
    <2>1. UNCHANGED <<saved, engine, scanned>> /\ request' = [q \in MobsfRequests |-> Unasked]
      BY <1>4 DEF MobsfRestart
    <2> QED
      BY <2>1, UnaskedIs DEF MobsfInv, MobsfType, FoundByScan, GotByScan, AskedOfApps, OnlyScans
  <1>5. CASE UNCHANGED mobsfVars
    BY <1>5 DEF mobsfVars, MobsfInv, MobsfType, FoundByScan, GotByScan, AskedOfApps, OnItsWay
  <1> QED
    BY <1>1, <1>2, <1>3, <1>4, <1>5 DEF MobsfNext

(* What takes the place of a saved report is what a scan of the same app   *)
(* found, however requests, stops, removals of the container and lost      *)
(* answers interleave (mobsf_service).                                     *)
THEOREM OnlyScansAreSaved == MobsfSpec => HistoryIsOfScans
  <1>1. MobsfInv /\ [MobsfNext]_mobsfVars =>
          [\A a \in Apps : saved'[a].report = saved[a].report \/ <<a, saved'[a].report>> \in scanned]_mobsfVars
    BY StepMobsf DEF OnlyScans
  <1>2. MobsfInv /\ [MobsfNext]_mobsfVars => MobsfInv'
    BY StepMobsf
  <1> QED
    BY <1>1, <1>2, InitMobsf, PTL DEF MobsfSpec, HistoryIsOfScans

-----------------------------------------------------------------------------
(* Normalizer.                                                             *)

(* A row's id is a function of the line and of nothing else.               *)
IdsAreOfLines == \A i \in DOMAIN normalized : i = EventId(i[1])

LEMMA StepIds == IdsAreOfLines /\ [NormalizerNext]_normalizerVars => IdsAreOfLines'
  <1> SUFFICES ASSUME IdsAreOfLines, [NormalizerNext]_normalizerVars PROVE IdsAreOfLines'
    OBVIOUS
  <1>1. ASSUME NEW event \in Lines, ReadLine(event) PROVE IdsAreOfLines'
    <2>1. DOMAIN normalized' \subseteq DOMAIN normalized \cup {EventId(event)}
      BY <1>1 DEF ReadLine
    <2>2. EventId(event) = EventId(EventId(event)[1])
      BY DEF EventId
    <2> QED
      BY <2>1, <2>2 DEF IdsAreOfLines, EventId
  <1> QED
    BY <1>1 DEF NormalizerNext, normalizerVars, ClockTick, IdsAreOfLines, EventId

(* However often and however late a line is read, it has one row, for any   *)
(* lines at all (normalize.py, compute_event_id).                           *)
THEOREM LinesHaveOneRow == NormalizerSpec => []OneRowPerLine
  <1>1. NormalizerInit => IdsAreOfLines
    BY DEF NormalizerInit, IdsAreOfLines
  <1>2. IdsAreOfLines => OneRowPerLine
    BY DEF IdsAreOfLines, OneRowPerLine
  <1> QED
    BY <1>1, <1>2, StepIds, PTL DEF NormalizerSpec

-----------------------------------------------------------------------------
(* S3Pipeline.                                                             *)

IsReader(r) == /\ DOMAIN r = {"on", "seen", "todo", "touched", "got", "marked"}
               /\ r.marked \in BOOLEAN
               /\ r.marked => r.on /\ r.todo = {}

S3Type ==
  /\ pollSecond \in Nat
  /\ DOMAIN objects = Keys
  /\ \A k \in Keys : objects[k].modified \in 0 .. pollSecond
  /\ DOMAIN processed = Keys /\ \A k \in Keys : processed[k] \in 0 .. pollSecond
  /\ DOMAIN reader = readers /\ \A a \in readers : IsReader(reader[a])

(* Only what is stored, or known as lost, is passed over.                  *)
RememberedIsKept == remembered \subseteq rawRows \cup known

InHand(e) == \E a \in Pulls : reader[a].marked /\ e \in Got(a)

(* What the marks on the objects miss is kept, lost or in hand.            *)
IsSafe(k) == \A e \in objects[k].events \ (rawRows \cup known) :
               objects[k].modified > processed[k] \/ InHand(e)

S3Inv == S3Type /\ RememberedIsKept /\ \A k \in Keys : IsSafe(k)

LEMMA NoReadIs == IsReader(NoRead) /\ ~ NoRead.marked
  BY DEF IsReader, NoRead

LEMMA InitS3 == S3Init => S3Inv
  BY NoReadIs DEF S3Init, S3Inv, S3Type, RememberedIsKept, IsSafe

(* A reader that moves on without a mark takes nothing out of hand.        *)
LEMMA ReaderMoves ==
  ASSUME S3Inv, NEW a \in readers, NEW r, reader' = [reader EXCEPT ![a] = r], IsReader(r),
         ~ reader[a].marked,
         UNCHANGED <<objects, processed, rawRows, remembered, pollSecond, known>>
  PROVE  S3Inv'
  <1>1. \A b \in readers : b # a => reader'[b] = reader[b]
    BY DEF S3Inv, S3Type
  <1>2. \A b \in readers : IsReader(reader'[b])
    BY <1>1 DEF S3Inv, S3Type
  <1>3. \A e : InHand(e) => InHand(e)'
    BY <1>1 DEF InHand, Got, readers
  <1>4. S3Type' /\ RememberedIsKept'
    BY <1>2 DEF S3Inv, S3Type, RememberedIsKept
  <1> QED
    BY <1>3, <1>4 DEF S3Inv, IsSafe

(* Storing one by one leaves every event stored or known as lost.          *)
LEMMA StoredOrLost ==
  ASSUME NEW E, OneByOne(E)
  PROVE  /\ E \subseteq rawRows' \cup known'
         /\ rawRows \subseteq rawRows' /\ known \subseteq known'
  BY DEF OneByOne

(* A reader that has stored all it had is done.                            *)
LEMMA ReaderDone ==
  ASSUME S3Inv, NEW a \in readers, reader' = [reader EXCEPT ![a] = NoRead],
         rawRows \subseteq rawRows', known \subseteq known',
         Got(a) \subseteq rawRows' \cup known',
         UNCHANGED <<objects, pollSecond>>,
         remembered' \subseteq rawRows' \cup known',
         \/ UNCHANGED processed
         \/ /\ processed' = [k \in Keys |-> IF k \in reader[a].touched THEN pollSecond
                                            ELSE processed[k]]
            /\ TooLate(a) \subseteq known'
  PROVE  S3Inv'
  <1>1. \A b \in readers : IF b = a THEN reader'[b] = NoRead ELSE reader'[b] = reader[b]
    BY DEF S3Inv, S3Type
  <1>2. S3Type' /\ RememberedIsKept'
    <2>1. \A b \in readers : IsReader(reader'[b])
      BY <1>1, NoReadIs DEF S3Inv, S3Type
    <2>2. DOMAIN processed' = Keys /\ \A k \in Keys : processed'[k] \in 0 .. pollSecond
      BY DEF S3Inv, S3Type
    <2>3. DOMAIN reader' = readers
      BY DEF S3Inv, S3Type
    <2> QED
      BY <2>1, <2>2, <2>3 DEF S3Inv, S3Type, RememberedIsKept
  <1>3. ASSUME NEW e, InHand(e), e \notin rawRows' \cup known' PROVE InHand(e)'
    BY <1>1, <1>3 DEF InHand, Got, readers
  <1>4. ASSUME NEW k \in Keys PROVE IsSafe(k)'
    <2>1. CASE processed'[k] = processed[k]
      BY <1>3, <2>1 DEF S3Inv, IsSafe
    <2>2. CASE processed'[k] # processed[k]
      <3>1. k \in reader[a].touched /\ TooLate(a) \subseteq known'
        BY <2>2 DEF S3Inv, S3Type
      <3>2. \A e \in objects[k].events : e \in Got(a) \/ e \in TooLate(a)
        BY <3>1 DEF Got, TooLate
      <3> QED
        BY <3>1, <3>2 DEF IsSafe
    <2> QED
      BY <2>1, <2>2
  <1> QED
    BY <1>2, <1>4 DEF S3Inv

LEMMA StepS3 == S3Inv /\ [S3Next]_s3Vars => S3Inv'
  <1> SUFFICES ASSUME S3Inv, [S3Next]_s3Vars PROVE S3Inv'
    OBVIOUS
  <1>0. \A a \in readers : IsReader(reader[a]) /\ a \in DOMAIN reader
    BY DEF S3Inv, S3Type
  <1>1. ASSUME NEW a \in readers, List(a) PROVE S3Inv'
    <2>1. PICK todo : reader' = [reader EXCEPT ![a] = [NoRead EXCEPT !.on = TRUE,
                                                         !.seen = processed, !.todo = todo]]
      BY <1>1 DEF List
    <2> DEFINE r == [NoRead EXCEPT !.on = TRUE, !.seen = processed, !.todo = todo]
    <2>2. IsReader(r)
      BY DEF IsReader, NoRead
    <2>3. ~ reader[a].marked
      BY <1>0, <1>1 DEF List, IsReader
    <2>4. UNCHANGED <<objects, processed, rawRows, remembered, pollSecond, known>>
      BY <1>1 DEF List, database
    <2>5. reader' = [reader EXCEPT ![a] = r]
      BY <2>1
    <2> HIDE DEF r
    <2> QED
      BY <2>2, <2>3, <2>4, <2>5, ReaderMoves
  <1>2. ASSUME NEW a \in readers, NEW k \in Keys, FetchObject(a, k) PROVE S3Inv'
    <2>1. UNCHANGED <<objects, processed, rawRows, remembered, pollSecond, known>>
          /\ ~ reader[a].marked
      BY <1>0, <1>2 DEF FetchObject, database, IsReader
    <2>2. CASE Took(a, k, reader[a].touched \cup {k})
      <3> DEFINE r == [reader[a] EXCEPT !.todo = @ \ {k}, !.touched = reader[a].touched \cup {k},
                                        !.got[k] = objects[k].events]
      <3>1. reader' = [reader EXCEPT ![a] = r]
        BY <1>0, <2>2 DEF Took
      <3>2. DOMAIN r = DOMAIN reader[a] /\ r.marked = reader[a].marked
        BY <1>0 DEF IsReader
      <3>3. IsReader(r)
        BY <1>0, <2>1, <3>2 DEF IsReader
      <3> HIDE DEF r
      <3> QED
        BY <2>1, <3>1, <3>3, ReaderMoves
    <2>3. CASE reader' = [reader EXCEPT ![a].todo = @ \ {k}]
      <3> DEFINE r == [reader[a] EXCEPT !.todo = @ \ {k}]
      <3>1. reader' = [reader EXCEPT ![a] = r]
        BY <1>0, <2>3
      <3>2. DOMAIN r = DOMAIN reader[a] /\ r.marked = reader[a].marked
        BY <1>0 DEF IsReader
      <3>3. IsReader(r)
        BY <1>0, <2>1, <3>2 DEF IsReader
      <3> HIDE DEF r
      <3> QED
        BY <2>1, <3>1, <3>3, ReaderMoves
    <2> QED
      BY <1>2, <2>2, <2>3 DEF FetchObject
  <1>3. CASE StorePoll
    <2> DEFINE new == Got("pipeline") \ remembered
    <2>0. "pipeline" \in readers
      BY DEF readers
    <2>1. /\ reader' = [reader EXCEPT !["pipeline"] = NoRead]
          /\ UNCHANGED <<objects, pollSecond>>
          /\ remembered' \subseteq remembered \cup new
      BY <1>3 DEF StorePoll
    <2>2. CASE /\ MarkObjects("pipeline") /\ rawRows' = rawRows \cup new
               /\ known' = known \cup TooLate("pipeline")
      <3>1. /\ rawRows \subseteq rawRows' /\ known \subseteq known'
            /\ Got("pipeline") \subseteq rawRows' \cup known'
            /\ remembered' \subseteq rawRows' \cup known'
        BY <2>1, <2>2 DEF S3Inv, RememberedIsKept
      <3>2. TooLate("pipeline") \subseteq known'
        BY <2>2
      <3> QED
        BY <2>0, <2>1, <2>2, <3>1, <3>2, ReaderDone DEF MarkObjects
    <2>3. CASE OneByOne(new) /\ UNCHANGED processed
      <3>1. /\ new \subseteq rawRows' \cup known'
            /\ rawRows \subseteq rawRows' /\ known \subseteq known'
        BY <2>3, StoredOrLost
      <3>2. /\ Got("pipeline") \subseteq rawRows' \cup known'
            /\ remembered' \subseteq rawRows' \cup known'
        BY <2>1, <3>1 DEF S3Inv, RememberedIsKept
      <3> QED
        BY <2>0, <2>1, <2>3, <3>1, <3>2, ReaderDone
    <2> QED
      BY <1>3, <2>2, <2>3 DEF StorePoll
  <1>4. ASSUME NEW a \in readers, PullMark(a) PROVE S3Inv'
    <2> DEFINE r == [reader[a] EXCEPT !.marked = TRUE]
    <2>1. /\ a \in Pulls /\ ~ reader[a].marked
          /\ UNCHANGED <<objects, rawRows, remembered, pollSecond>>
          /\ reader' = [reader EXCEPT ![a] = r]
      BY <1>0, <1>4 DEF PullMark, bounds
    <2>2. /\ DOMAIN r = DOMAIN reader[a] /\ r.marked = TRUE /\ r.on = reader[a].on
          /\ r.todo = reader[a].todo /\ r.touched = reader[a].touched /\ r.got = reader[a].got
      BY <1>0 DEF IsReader
    <2>3. IsReader(r)
      BY <1>0, <1>4, <2>2 DEF IsReader, PullMark, AllRead
    <2> HIDE DEF r
    <2>4. CASE UNCHANGED <<processed, known>>
      BY <2>1, <2>3, <2>4, ReaderMoves
    <2>5. CASE MarkObjects(a) /\ known' = known \cup TooLate(a)
      <3>1. reader'[a] = r /\ \A b \in readers : b # a => reader'[b] = reader[b]
        BY <1>0, <2>1
      <3>2. S3Type'
        <4>1. \A b \in readers : IsReader(reader'[b])
          BY <1>0, <2>3, <3>1
        <4>2. DOMAIN processed' = Keys /\ \A k \in Keys : processed'[k] \in 0 .. pollSecond
          BY <2>5 DEF MarkObjects, S3Inv, S3Type
        <4>3. DOMAIN reader' = readers
          BY <2>1 DEF S3Inv, S3Type
        <4> QED
          BY <2>1, <4>1, <4>2, <4>3 DEF S3Inv, S3Type
      <3>3. RememberedIsKept'
        BY <2>1, <2>5 DEF S3Inv, RememberedIsKept
      <3>4. \A e : InHand(e) => InHand(e)'
        BY <2>1, <3>1 DEF InHand, Got, readers
      <3>5. \A e \in Got(a) : InHand(e)'
        BY <2>1, <2>2, <3>1 DEF InHand, Got
      <3>6. ASSUME NEW k \in Keys PROVE IsSafe(k)'
        <4>1. CASE k \in reader[a].touched
          <5>1. \A e \in objects[k].events : e \in Got(a) \/ e \in TooLate(a)
            BY <4>1 DEF Got, TooLate
          <5> QED
            BY <2>1, <2>5, <3>5, <5>1 DEF IsSafe
        <4>2. CASE k \notin reader[a].touched
          <5>1. processed'[k] = processed[k]
            BY <2>5, <4>2 DEF MarkObjects
          <5> QED
            BY <2>1, <2>5, <3>4, <5>1 DEF S3Inv, IsSafe
        <4> QED
          BY <4>1, <4>2
      <3> QED
        BY <3>2, <3>3, <3>6 DEF S3Inv
    <2> QED
      BY <1>4, <2>4, <2>5 DEF PullMark
  <1>5. ASSUME NEW a \in readers, PullStore(a) PROVE S3Inv'
    <2>1. /\ Got(a) \subseteq rawRows' \cup known'
          /\ rawRows \subseteq rawRows' /\ known \subseteq known'
      BY <1>5, StoredOrLost DEF PullStore
    <2>2. remembered' \subseteq rawRows' \cup known'
      BY <1>5, <2>1 DEF PullStore, S3Inv, RememberedIsKept
    <2> QED
      BY <1>5, <2>1, <2>2, ReaderDone DEF PullStore
  <1>6. ASSUME NEW k \in Keys, NEW e \in S3Events, UploadEvent(k, e) PROVE S3Inv'
    <2>1. /\ objects' = [objects EXCEPT ![k] = [events |-> @.events \cup {e},
                                                modified |-> pollSecond]]
          /\ known \subseteq known' /\ (pollSecond <= processed[k] => e \in known')
          /\ UNCHANGED <<processed, rawRows, remembered, reader, pollSecond>>
      BY <1>6 DEF UploadEvent, database, bounds
    <2>2. /\ DOMAIN objects' = Keys /\ \A j \in Keys \ {k} : objects'[j] = objects[j]
          /\ objects'[k].events = objects[k].events \cup {e}
          /\ objects'[k].modified = pollSecond
      BY <2>1 DEF S3Inv, S3Type
    <2>3. S3Type'
      BY <2>1, <2>2 DEF S3Inv, S3Type
    <2>4. RememberedIsKept' /\ \A x : InHand(x)' = InHand(x)
      BY <2>1 DEF S3Inv, RememberedIsKept, InHand, Got
    <2>5. \A j \in Keys \ {k} : IsSafe(j)'
      BY <2>1, <2>2, <2>4 DEF S3Inv, IsSafe
    <2>6. IsSafe(k)'
      <3>1. pollSecond \in Nat /\ processed[k] \in Nat /\ objects[k].modified \in 0 .. pollSecond
        BY DEF S3Inv, S3Type
      <3>2. ASSUME NEW x \in objects'[k].events \ (rawRows' \cup known')
            PROVE  objects'[k].modified > processed'[k] \/ InHand(x)'
        <4>1. CASE x = e
          BY <2>1, <2>2, <3>1, <3>2, <4>1
        <4>2. CASE x # e
          <5>1. objects[k].modified > processed[k] \/ InHand(x)
            BY <2>1, <2>2, <3>2, <4>2 DEF S3Inv, IsSafe
          <5> QED
            BY <2>1, <2>2, <2>4, <3>1, <5>1
        <4> QED
          BY <4>1, <4>2
      <3> QED
        BY <3>2 DEF IsSafe
    <2> QED
      BY <2>3, <2>4, <2>5, <2>6 DEF S3Inv
  <1>7. CASE PassSecond
    <2>1. UNCHANGED <<objects, processed, rawRows, remembered, reader, known>>
          /\ pollSecond' = pollSecond + 1
      BY <1>7 DEF PassSecond, database
    <2> QED
      BY <2>1 DEF S3Inv, S3Type, RememberedIsKept, IsSafe, InHand, Got
  <1>8. CASE PipelineRestart
    <2>1. /\ UNCHANGED <<objects, processed, rawRows, pollSecond>> /\ known \subseteq known'
          /\ \A b \in Pulls : reader[b].marked => Got(b) \subseteq rawRows \cup known'
          /\ reader' = [a \in readers |-> NoRead] /\ remembered' = {}
      BY <1>8 DEF PipelineRestart, database
    <2>2. S3Type' /\ RememberedIsKept'
      BY <2>1, NoReadIs DEF S3Inv, S3Type, RememberedIsKept
    <2>3. \A e : InHand(e) => e \in rawRows' \cup known'
      BY <2>1 DEF InHand
    <2>4. \A k \in Keys : IsSafe(k)'
      BY <2>1, <2>3 DEF S3Inv, IsSafe
    <2> QED
      BY <2>2, <2>4 DEF S3Inv
  <1>9. CASE UNCHANGED s3Vars
    BY <1>9 DEF s3Vars, database, bounds, S3Inv, S3Type, RememberedIsKept, IsSafe, InHand, Got
  <1> QED
    BY <1>1, <1>2, <1>3, <1>4, <1>5, <1>6, <1>7, <1>8, <1>9 DEF S3Next

(* No order of polls, pulls, conflicts, failing inserts and restarts loses *)
(* an uploaded event but in the ways the history names, for any number of  *)
(* objects, events and pulls at the same time (aws_telemetry_service.py,   *)
(* pull_s3_logs).                                                          *)
THEOREM UploadsAreKept == S3Spec => []Losses
  <1>1. S3Inv => Losses
    <2> SUFFICES ASSUME S3Inv, NEW k \in Keys, NEW e \in objects[k].events \ (rawRows \cup known)
                 PROVE  \/ Candidate(k) /\ e \notin remembered
                        \/ \E a \in Pulls : reader[a].marked /\ e \in Got(a)
      BY DEF Losses
    <2>1. e \notin remembered /\ objects[k].events # {}
      BY DEF S3Inv, RememberedIsKept
    <2>2. objects[k].modified > processed[k] \/ InHand(e)
      BY DEF S3Inv, IsSafe
    <2> QED
      BY <2>1, <2>2 DEF Candidate, InHand
  <1> QED
    BY <1>1, InitS3, StepS3, PTL DEF S3Spec

-----------------------------------------------------------------------------
(* DetectionValidation.                                                    *)

LEMMA WholeSeconds ==
  ASSUME NEW t \in Nat
  PROVE  /\ Seconds(t) \in Nat /\ Seconds(t) <= t
         /\ t >= 2 => Seconds(t) >= 2
         /\ \A u \in Nat : t <= u => Seconds(t) <= Seconds(u)
  BY DEF Seconds

IsEvent(e) == e.at \in 0 .. tick /\ e.by \in Senders

ValidationType ==
  /\ tick \in Nat /\ tick >= 2
  /\ \A e \in traffic : IsEvent(e)
  /\ ingested \subseteq traffic /\ examined \subseteq traffic
  /\ DOMAIN run = ScenarioRuns
  /\ \A r \in ScenarioRuns :
       /\ DOMAIN run[r] = {"status", "step", "mode", "since", "sent", "read", "before", "result"}
       /\ run[r].since \in Int
       /\ run[r].read \subseteq traffic
  /\ DOMAIN detection = Senders

(* What was examined has a detection, of its sender, that fired last at    *)
(* the time of the event or later.                                         *)
IsFired(s) ==
  detection[s] # NoDetection => /\ DOMAIN detection[s] = {"created", "last"}
                                /\ detection[s].created >= 2 /\ detection[s].created \in Nat
                                /\ detection[s].last \in Nat
Fired ==
  /\ \A s \in Senders : IsFired(s)
  /\ \A e \in examined : detection[e.by] # NoDetection /\ detection[e.by].last >= e.at

(* What a run sent lies in its window.                                     *)
InWindow(r) ==
  /\ r.step = "attack" => r.since <= Seconds(tick)
  /\ \A e \in r.sent : e.by = "scenario" /\ e.at \in Nat /\ e.at >= r.since
Sent == \A r \in ScenarioRuns : InWindow(run[r])

ValidationInv == ValidationType /\ Fired /\ Sent

LEMMA InitValidation == ValidationInit => ValidationInv
  <1> SUFFICES ASSUME ValidationInit PROVE ValidationInv
    OBVIOUS
  <1>1. ValidationType
    BY ValidationAssumption DEF ValidationInit, ValidationType, NoRun
  <1>2. Fired
    BY DEF ValidationInit, Fired, IsFired
  <1>3. Sent
    BY DEF ValidationInit, Sent, InWindow, NoRun
  <1> QED
    BY <1>1, <1>2, <1>3 DEF ValidationInv

(* The latest of some events is that of one of them, and no other's later. *)
LEMMA LatestIs ==
  ASSUME NEW E, E # {}, NEW bound \in Nat, \A e \in E : e.at \in 0 .. bound
  PROVE  LatestOf(E) \in Nat /\ \A e \in E : e.at <= LatestOf(E)
  <1> DEFINE T == {n \in Nat : \A e \in E : e.at <= n}
  <1>1. bound \in T
    OBVIOUS
  <1>2. PICK n \in T : \A y \in T : ~ (<<y, n>> \in OpToRel(<, Nat))
    BY <1>1, NatLessThanWellFounded, WFMin
  <1>3. \A y \in T : ~ (y < n)
    BY <1>2 DEF OpToRel
  <1>4. PICK e \in E : e.at = n
    <2>1. CASE n = 0
      <3>1. PICK e \in E : TRUE
        OBVIOUS
      <3> QED
        BY <2>1, <3>1
    <2>2. CASE n # 0
      <3>1. n - 1 \in Nat /\ n - 1 < n /\ n - 1 \notin T
        BY <1>3, <2>2
      <3>2. PICK e \in E : ~ (e.at <= n - 1)
        BY <3>1
      <3>3. e.at <= n /\ e.at \in Nat
        BY <3>2
      <3> QED
        BY <2>2, <3>2, <3>3
    <2> QED
      BY <2>1, <2>2
  <1>5. n \in {f.at : f \in E} /\ \A f \in E : f.at <= n
    BY <1>4
  <1>6. /\ LatestOf(E) \in {f.at : f \in E}
        /\ \A f \in E : f.at <= LatestOf(E)
    BY <1>5 DEF LatestOf
  <1> QED
    BY <1>6

LEMMA Examining ==
  ASSUME ValidationInv, NEW E \in SUBSET traffic, Examine(E), UNCHANGED tick
  PROVE  Fired' /\ examined' \subseteq traffic /\ DOMAIN detection' = Senders
  <1>0. /\ examined' = examined \cup E /\ tick \in Nat /\ tick >= 2
        /\ \A e \in traffic : e.at \in 0 .. tick /\ e.by \in Senders
    BY DEF Examine, ValidationInv, ValidationType, IsEvent
  <1> DEFINE New(s) == {e \in E \ examined : e.by = s}
  <1>1. DOMAIN detection' = Senders
    BY DEF Examine, Detected
  <1>2. ASSUME NEW s \in Senders
        PROVE  /\ IsFired(s)'
               /\ detection[s] # NoDetection =>
                    detection'[s] # NoDetection /\ detection'[s].last >= detection[s].last
               /\ \A e \in New(s) : detection'[s] # NoDetection /\ detection'[s].last >= e.at
    <2>1. CASE New(s) = {}
      <3>1. detection'[s] = detection[s]
        BY <2>1 DEF Examine, Detected
      <3> QED
        BY <2>1, <3>1 DEF ValidationInv, Fired, IsFired
    <2>2. CASE New(s) # {}
      <3>1. LatestOf(New(s)) \in Nat /\ \A e \in New(s) : e.at <= LatestOf(New(s))
        <4>1. \A e \in New(s) : e.at \in 0 .. tick
          BY <1>0
        <4> HIDE DEF New
        <4> QED
          BY <1>0, <2>2, <4>1, LatestIs
      <3>2. CASE detection[s] = NoDetection
        <4>1. detection'[s] = [created |-> Seconds(tick), last |-> LatestOf(New(s))]
          BY <2>2, <3>2 DEF Examine, Detected
        <4>2. Seconds(tick) \in Nat /\ Seconds(tick) >= 2
          BY <1>0, WholeSeconds
        <4>3. detection'[s].last = LatestOf(New(s)) /\ detection'[s].created = Seconds(tick)
              /\ DOMAIN detection'[s] = {"created", "last"}
          BY <4>1
        <4>4. detection'[s] # NoDetection
          BY <4>2, <4>3 DEF NoDetection
        <4>5. \A e \in New(s) : e.at \in Nat
          BY <1>0
        <4> HIDE DEF New
        <4> QED
          BY <3>1, <3>2, <4>2, <4>3, <4>4, <4>5 DEF IsFired
      <3>3. CASE detection[s] # NoDetection
        <4> DEFINE l == LatestOf(New(s))
        <4>1. detection'[s] = [detection[s] EXCEPT !.last = IF l > @ THEN l ELSE @]
          BY <2>2, <3>3 DEF Examine, Detected
        <4>2. /\ DOMAIN detection[s] = {"created", "last"}
              /\ detection[s].created >= 2 /\ detection[s].created \in Nat
              /\ detection[s].last \in Nat
          BY <3>3 DEF ValidationInv, Fired, IsFired
        <4> HIDE DEF New, l
        <4>3. /\ DOMAIN detection'[s] = {"created", "last"}
              /\ detection'[s].created = detection[s].created
              /\ detection'[s].last = IF l > detection[s].last THEN l ELSE detection[s].last
          BY <4>1, <4>2
        <4>4. detection'[s] # NoDetection
          BY <4>2, <4>3 DEF NoDetection
        <4>5. l \in Nat /\ \A e \in New(s) : e.at <= l /\ e.at \in Nat
          BY <1>0, <3>1 DEF New, l
        <4> QED
          BY <4>2, <4>3, <4>4, <4>5 DEF IsFired
      <3> QED
        BY <3>2, <3>3
    <2> QED
      BY <2>1, <2>2
  <1>3. \A s \in Senders : IsFired(s)'
    BY <1>2
  <1>4. ASSUME NEW e \in examined'
        PROVE  detection'[e.by] # NoDetection /\ detection'[e.by].last >= e.at
    <2>1. e.by \in Senders /\ e.at \in Nat
      BY <1>0, <1>4 DEF ValidationInv, ValidationType
    <2>2. CASE e \in examined
      <3>1. detection[e.by] # NoDetection /\ detection[e.by].last >= e.at
        BY <2>2 DEF ValidationInv, Fired
      <3>2. detection[e.by].last \in Nat
        BY <2>1, <3>1 DEF ValidationInv, Fired, IsFired
      <3>3. detection'[e.by] # NoDetection /\ detection'[e.by].last >= detection[e.by].last
        BY <1>2, <2>1, <3>1
      <3>4. detection'[e.by].last \in Nat
        BY <1>3, <2>1, <3>3 DEF IsFired
      <3> QED
        BY <2>1, <3>1, <3>2, <3>3, <3>4
    <2>3. CASE e \notin examined
      BY <1>0, <1>2, <1>4, <2>1, <2>3
    <2> QED
      BY <2>2, <2>3
  <1>5. examined' \subseteq traffic
    BY <1>0 DEF ValidationInv, ValidationType
  <1> QED
    BY <1>1, <1>3, <1>4, <1>5 DEF Fired

LEMMA StepValidation == ValidationInv /\ [ValidationNext]_validationVars => ValidationInv'
  <1> SUFFICES ASSUME ValidationInv, [ValidationNext]_validationVars PROVE ValidationInv'
    OBVIOUS
  <1> USE DEF ValidationInv
  <1>1. CASE LoopCycle
    <2>1. Examine(ingested) /\ UNCHANGED <<tick, run, traffic, ingested>>
      BY <1>1 DEF LoopCycle
    <2>2. Fired' /\ examined' \subseteq traffic /\ DOMAIN detection' = Senders
      BY <2>1, Examining DEF ValidationType
    <2>3. ValidationType' /\ Sent'
      BY <2>1, <2>2 DEF ValidationType, IsEvent, Sent, InWindow
    <2> QED
      BY <2>2, <2>3
  <1>2. ASSUME NEW r \in ScenarioRuns, NEW new, run' = [run EXCEPT ![r] = new],
               DOMAIN new = {"status", "step", "mode", "since", "sent", "read", "before",
                             "result"},
               new.since \in Int, new.read \subseteq traffic, InWindow(new),
               UNCHANGED <<tick, ingested>>, traffic \subseteq traffic',
               \A e \in traffic' : IsEvent(e),
               Fired', examined' \subseteq traffic, DOMAIN detection' = Senders
        PROVE  ValidationInv'
    <2>1. \A q \in ScenarioRuns : run'[q] = IF q = r THEN new ELSE run[q]
      BY <1>2 DEF ValidationType
    <2>2. \A q \in ScenarioRuns :
            /\ DOMAIN run'[q] = {"status", "step", "mode", "since", "sent", "read", "before",
                                 "result"}
            /\ run'[q].since \in Int /\ run'[q].read \subseteq traffic
            /\ InWindow(run'[q])
      BY <1>2, <2>1 DEF ValidationType, Sent
    <2>3. DOMAIN run' = ScenarioRuns
      BY <1>2 DEF ValidationType
    <2>4. ValidationType'
      BY <1>2, <2>2, <2>3 DEF ValidationType, IsEvent
    <2>5. Sent'
      BY <1>2, <2>2 DEF Sent, InWindow
    <2> QED
      BY <1>2, <2>4, <2>5
  <1>3. UNCHANGED <<examined, detection>> => Fired' /\ examined' \subseteq traffic
                                              /\ DOMAIN detection' = Senders
    BY DEF Fired, IsFired, ValidationType
  <1>4. ASSUME NEW r \in ScenarioRuns
        PROVE  /\ DOMAIN run[r] = {"status", "step", "mode", "since", "sent", "read", "before",
                                   "result"}
               /\ run[r].since \in Int /\ run[r].read \subseteq traffic /\ InWindow(run[r])
               /\ r \in DOMAIN run
    BY DEF ValidationType, Sent
  <1>5. ASSUME NEW r \in ScenarioRuns, NEW mode \in {"execute", "evaluate"}, StartRun(r, mode)
        PROVE  ValidationInv'
    <2> DEFINE new == [NoRun EXCEPT !.status = "running", !.mode = mode,
                                    !.since = WindowStart(mode),
                                    !.step = IF mode = "execute" THEN "attack" ELSE "observe"]
    <2>1. run' = [run EXCEPT ![r] = new]
          /\ UNCHANGED <<tick, traffic, ingested, examined, detection>>
      BY <1>5 DEF StartRun
    <2>2. /\ WindowStart(mode) \in Int
          /\ mode = "execute" => WindowStart(mode) <= Seconds(tick)
      BY WholeSeconds, ValidationAssumption DEF WindowStart, ValidationType
    <2>3. /\ DOMAIN new = {"status", "step", "mode", "since", "sent", "read", "before", "result"}
          /\ new.since = WindowStart(mode) /\ new.read = {} /\ new.sent = {}
          /\ new.step = "attack" => mode = "execute"
      BY DEF NoRun
    <2> HIDE DEF new
    <2>4. InWindow(new) /\ new.since \in Int /\ new.read \subseteq traffic
      BY <2>2, <2>3 DEF InWindow
    <2> QED
      BY <1>2, <1>3, <2>1, <2>3, <2>4 DEF ValidationType
  <1>6. ASSUME NEW r \in ScenarioRuns, Attack(r) PROVE ValidationInv'
    <2> DEFINE e == [by |-> "scenario", at |-> Seconds(tick), run |-> r]
               struck == [run[r] EXCEPT !.step = "settle", !.sent = {e}]
               missed == [run[r] EXCEPT !.step = "settle"]
    <2>1. Seconds(tick) \in Nat /\ Seconds(tick) <= tick
      BY WholeSeconds DEF ValidationType
    <2>2. UNCHANGED <<tick, ingested, examined, detection>> /\ run[r].step = "attack"
      BY <1>6 DEF Attack, RunAt
    <2>3. CASE run' = [run EXCEPT ![r].step = "settle", ![r].sent = {e}]
               /\ traffic' = traffic \cup {e}
      <3>1. run' = [run EXCEPT ![r] = struck]
        BY <1>4, <2>3
      <3>2. IsEvent(e)
        BY <2>1 DEF IsEvent, Senders, ValidationType
      <3>3. /\ DOMAIN struck = DOMAIN run[r] /\ struck.since = run[r].since
            /\ struck.read = run[r].read /\ struck.step = "settle" /\ struck.sent = {e}
        BY <1>4
      <3>4. InWindow(struck)
        BY <1>4, <2>1, <2>2, <3>3 DEF InWindow
      <3> HIDE DEF e, struck
      <3>5. traffic \subseteq traffic' /\ \A f \in traffic' : IsEvent(f)
        BY <2>3, <3>2 DEF ValidationType
      <3>6. struck.since \in Int /\ struck.read \subseteq traffic
        BY <1>4, <3>3
      <3>7. Fired' /\ examined' \subseteq traffic /\ DOMAIN detection' = Senders
        BY <1>3, <2>2
      <3>8. DOMAIN struck = {"status", "step", "mode", "since", "sent", "read", "before",
                             "result"}
        BY <1>4, <3>3
      <3> QED
        BY <1>2, <2>2, <3>1, <3>4, <3>5, <3>6, <3>7, <3>8
    <2>4. CASE run' = [run EXCEPT ![r].step = "settle"] /\ UNCHANGED traffic
      <3>1. run' = [run EXCEPT ![r] = missed]
        BY <1>4, <2>4
      <3>2. /\ DOMAIN missed = DOMAIN run[r] /\ missed.since = run[r].since
            /\ missed.read = run[r].read /\ InWindow(missed)
        BY <1>4 DEF InWindow
      <3> HIDE DEF missed
      <3> QED
        BY <1>2, <1>3, <1>4, <2>2, <2>4, <3>1, <3>2 DEF ValidationType
    <2> QED
      BY <1>6, <2>3, <2>4 DEF Attack
  <1>7. ASSUME NEW r \in ScenarioRuns, ForceCycle(r) PROVE ValidationInv'
    <2> DEFINE new == [run[r] EXCEPT !.step = "cycle", !.read = ingested, !.before = examined]
    <2>1. run' = [run EXCEPT ![r] = new]
          /\ UNCHANGED <<tick, traffic, ingested, examined, detection>>
      BY <1>4, <1>7 DEF ForceCycle
    <2>2. DOMAIN new = DOMAIN run[r] /\ new.since = run[r].since /\ new.read = ingested
          /\ InWindow(new)
      BY <1>4 DEF InWindow
    <2> HIDE DEF new
    <2> QED
      BY <1>2, <1>3, <1>4, <2>1, <2>2 DEF ValidationType
  <1>8. ASSUME NEW r \in ScenarioRuns, CycleEnds(r) PROVE ValidationInv'
    <2> DEFINE new == [run[r] EXCEPT !.step = "observe", !.read = {}, !.before = {}]
    <2>1. run' = [run EXCEPT ![r] = new] /\ UNCHANGED <<tick, traffic, ingested>>
      BY <1>4, <1>8 DEF CycleEnds
    <2>2. DOMAIN new = DOMAIN run[r] /\ new.since = run[r].since /\ new.read = {}
          /\ InWindow(new)
      BY <1>4 DEF InWindow
    <2>3. Fired' /\ examined' \subseteq traffic /\ DOMAIN detection' = Senders
      <3>1. CASE UNCHANGED <<examined, detection>>
        BY <1>3, <3>1
      <3>2. CASE Examine(run[r].read)
        BY <1>4, <2>1, <3>2, Examining
      <3> QED
        BY <1>8, <3>1, <3>2 DEF CycleEnds
    <2> HIDE DEF new
    <2> QED
      BY <1>2, <1>4, <2>1, <2>2, <2>3 DEF ValidationType
  <1>9. ASSUME NEW r \in ScenarioRuns, Grade(r) \/ AbandonRun(r) PROVE ValidationInv'
    <2>1. PICK new : /\ run' = [run EXCEPT ![r] = new]
                     /\ new = [run[r] EXCEPT !.step = new.step, !.status = new.status,
                                             !.result = new.result]
                     /\ new.step # "attack"
      <3>1. CASE Grade(r)
        <4> DEFINE g == [run[r] EXCEPT !.step = "done", !.status = "complete",
                           !.result = IF Observed(run[r].since) THEN "PASS" ELSE "FAIL"]
        <4>1. run' = [run EXCEPT ![r] = g]
          BY <1>4, <3>1 DEF Grade
        <4>2. g = [run[r] EXCEPT !.step = g.step, !.status = g.status, !.result = g.result]
              /\ g.step # "attack"
          BY <1>4
        <4> QED
          BY <4>1, <4>2
      <3>2. CASE AbandonRun(r)
        <4> DEFINE g == [run[r] EXCEPT !.step = "lost"]
        <4>1. run' = [run EXCEPT ![r] = g]
          BY <1>4, <3>2 DEF AbandonRun
        <4>2. g = [run[r] EXCEPT !.step = g.step, !.status = g.status, !.result = g.result]
              /\ g.step # "attack"
          BY <1>4
        <4> QED
          BY <4>1, <4>2
      <3> QED
        BY <1>9, <3>1, <3>2
    <2>2. DOMAIN new = DOMAIN run[r] /\ new.since = run[r].since /\ new.read = run[r].read
          /\ new.sent = run[r].sent
      BY <1>4, <2>1
    <2>3. InWindow(new)
      BY <1>4, <2>1, <2>2 DEF InWindow
    <2>4. UNCHANGED <<tick, traffic, ingested, examined, detection>>
      BY <1>9 DEF Grade, AbandonRun
    <2> QED
      BY <1>2, <1>3, <1>4, <2>1, <2>2, <2>3, <2>4 DEF ValidationType
  <1>10. ASSUME NEW e \in traffic, IngestEvent(e) PROVE ValidationInv'
    <2>1. /\ UNCHANGED <<tick, run, traffic, examined, detection>>
          /\ ingested' = ingested \cup {e}
      BY <1>10 DEF IngestEvent
    <2> QED
      BY <2>1 DEF ValidationType, IsEvent, Fired, IsFired, Sent, InWindow
  <1>11. CASE Outsider
    <2> DEFINE e == [by |-> "outsider", at |-> Seconds(tick), run |-> "none"]
    <2>1. /\ UNCHANGED <<tick, run, ingested, examined, detection>>
          /\ traffic' = traffic \cup {e}
      BY <1>11 DEF Outsider
    <2>2. IsEvent(e)
      BY WholeSeconds DEF IsEvent, Senders, ValidationType
    <2> HIDE DEF e
    <2> QED
      BY <2>1, <2>2 DEF ValidationType, IsEvent, Fired, IsFired, Sent, InWindow
  <1>12. CASE HalfSecond
    <2>1. /\ UNCHANGED <<run, traffic, ingested, examined, detection>> /\ tick' = tick + 1
      BY <1>12 DEF HalfSecond
    <2>2. ValidationType' /\ Fired'
      BY <2>1 DEF ValidationType, IsEvent, Fired, IsFired
    <2>3. /\ Seconds(tick) <= Seconds(tick + 1) /\ Seconds(tick) \in Nat
          /\ Seconds(tick + 1) \in Nat
      BY WholeSeconds DEF ValidationType
    <2>4. Seconds(tick)' = Seconds(tick + 1)
      BY <2>1 DEF Seconds
    <2>5. ASSUME NEW r \in ScenarioRuns PROVE InWindow(run[r])'
      BY <1>4, <2>1, <2>3, <2>4 DEF InWindow
    <2> QED
      BY <2>1, <2>2, <2>5 DEF Sent
  <1>13. CASE UNCHANGED validationVars
    BY <1>13 DEF validationVars, ValidationType, IsEvent, Fired, IsFired, Sent, InWindow
  <1> QED
    BY <1>1, <1>5, <1>6, <1>7, <1>8, <1>9, <1>10, <1>11, <1>12, <1>13 DEF ValidationNext

(* A run whose attack was sent and examined before the run was graded      *)
(* passes, whatever other runs, cycles and attackers do in between: its    *)
(* window begins before the second of the attack, and the detection that   *)
(* the attack fires is not from before (detection_validation.py).          *)
THEOREM AttacksAreCredited == ValidationSpec => AttackIsCredited
  <1>1. ASSUME ValidationInv, NEW r \in ScenarioRuns, Grade(r), run[r].sent # {},
               run[r].sent \subseteq examined
        PROVE  run'[r].result = "PASS"
    <2>1. PICK e \in run[r].sent : e \in examined
      BY <1>1
    <2>2. /\ e.by = "scenario" /\ e.at \in Nat /\ e.at >= run[r].since
          /\ run[r].since \in Int
      BY <1>1, <2>1 DEF ValidationInv, Sent, InWindow, ValidationType
    <2>3. detection["scenario"] # NoDetection /\ detection["scenario"].last >= e.at
      BY <1>1, <2>1, <2>2 DEF ValidationInv, Fired
    <2>4. detection["scenario"].last \in Nat
      BY <1>1, <2>3 DEF ValidationInv, Fired, IsFired, Senders
    <2>5. detection["scenario"].last >= run[r].since
      BY <2>2, <2>3, <2>4
    <2>6. Observed(run[r].since)
      BY <2>3, <2>5 DEF Observed, Senders
    <2>7. /\ r \in DOMAIN run
          /\ DOMAIN run[r] = {"status", "step", "mode", "since", "sent", "read", "before",
                              "result"}
      BY <1>1 DEF ValidationInv, ValidationType
    <2> QED
      BY <1>1, <2>6, <2>7 DEF Grade
  <1>2. ValidationInv => [\A r \in ScenarioRuns :
       Grade(r) /\ run[r].sent # {} /\ run[r].sent \subseteq examined
         => run'[r].result = "PASS"]_validationVars
    BY <1>1
  <1> QED
    BY <1>2, InitValidation, StepValidation, PTL DEF ValidationSpec, AttackIsCredited

-----------------------------------------------------------------------------
(* SampleAnalysis.                                                         *)

IsEntry(x) == x = [sample |-> x.sample, run |-> x.run] /\ x.run \in 1 .. runs
AllEntries(S) == \A x \in S : IsEntry(x)

(* At most one entry of a sample, and one of a run.                        *)
OneEach(S) == \A x, y \in S : x.sample = y.sample \/ x.run = y.run => x = y

Within(S, cap) == IsFiniteSet(S) /\ Cardinality(S) <= cap

SampleType ==
  /\ runs \in Nat
  /\ AllEntries(reports) /\ OneEach(reports) /\ Within(reports, ReportCap)
  /\ AllEntries(listed) /\ OneEach(listed) /\ Within(listed, HistoryCap)
  /\ IsFiniteSet(unlisted)

(* The run under way is the newest, and its report is there once stored.   *)
UploadIs ==
  /\ upload.phase \in {"none", "pipeline", "stored"}
  /\ upload.phase = "pipeline" => /\ \A x \in reports \cup listed : x.run < runs
                                  /\ ReportOf(upload.sample) = {}
                                  /\ runs >= 1
  /\ upload.phase = "stored" => /\ \A x \in listed : x.run < runs
                                /\ [sample |-> upload.sample, run |-> runs] \in reports

Current(s) == upload.phase = "stored" /\ upload.sample = s

(* A listing is of the run of the report, or of an older one when the      *)
(* upload that made the report is not listed.                              *)
ListedRun ==
  \A x \in listed, r \in reports :
    x.sample = r.sample =>
      /\ x.run <= r.run
      /\ x.run = r.run \/ r.sample \in unlisted \/ Current(r.sample)

(* The report of a listed sample goes only when all others are newer.      *)
MissingIsOld ==
  "reports" \notin torn =>
    \A x \in listed : ReportOf(x.sample) = {} =>
      Cardinality(reports) = ReportCap /\ \A r \in reports : r.run > x.run

(* A report that is not listed is older than the list.                     *)
IsListed(s) == \E x \in listed : x.sample = s

PushedOut(r) ==
  /\ \A x \in listed : x.run > r.run
  /\ \/ "listed" \in torn
     \/ Cardinality(listed) = HistoryCap /\ \E q \in reports : q.run > r.run

ReportsAreListed ==
  \A r \in reports : \/ IsListed(r.sample) \/ r.sample \in unlisted \/ Current(r.sample)
                     \/ PushedOut(r)

ListsInv == SampleType /\ UploadIs /\ ListedRun /\ MissingIsOld /\ ReportsAreListed

(* What is filed, or about to be, verifies.                                *)
IsFiled(e) ==
  /\ e.kind \in {"sample", "section", "text", "attachment"}
  /\ e.kind = "attachment" => e.of \in disk
  /\ e.kind = "sample" => e.of \in quarantine
  /\ e.kind = "section" => \/ \E r \in reports : r.sample = e.of /\ r.run = e.hash
                           \/ "reports" \in torn \/ e.of \in evicted

FiledInv ==
  /\ \A e \in evidence : IsFiled(e)
  /\ DOMAIN filing = Filers /\ \A f \in Filers : \A e \in filing[f] : IsFiled(e)
  /\ \A r \in reports : r.sample \in quarantine
  /\ upload.phase # "none" => upload.sample \in quarantine

(* Removing the oldest of one too many leaves as many as there may be.     *)
TrimmedTo(S, T, cap) ==
  \/ T = S /\ Cardinality(S) <= cap
  \/ /\ Cardinality(T) = cap
     /\ \E o \in S : T = S \ {o} /\ \A y \in T : y.run > o.run

LEMMA Trimming ==
  ASSUME NEW S, NEW cap \in Nat, IsFiniteSet(S), Cardinality(S) <= cap + 1, OneEach(S),
         \A x \in S : x.run \in Nat
  PROVE  TrimmedTo(S, Trimmed(S, cap), cap) /\ Within(Trimmed(S, cap), cap)
  <1>0. Cardinality(S) \in Nat
    BY FS_CardinalityType
  <1>1. CASE Cardinality(S) <= cap
    BY <1>0, <1>1 DEF Trimmed, TrimmedTo, Within
  <1>2. CASE ~ (Cardinality(S) <= cap)
    <2>1. Cardinality(S) = cap + 1 /\ Trimmed(S, cap) = S \ Oldest(S)
      BY <1>0, <1>2 DEF Trimmed
    <2>2. S # {}
      BY <2>1, FS_EmptySet
    <2> DEFINE RunsOf == {n \in Nat : \E x \in S : x.run = n}
    <2>3. PICK n \in RunsOf : \A m \in RunsOf : ~ (<<m, n>> \in OpToRel(<, Nat))
      <3>1. PICK x \in S : TRUE
        BY <2>2
      <3>2. x.run \in RunsOf
        BY <3>1
      <3> QED
        BY <3>2, NatLessThanWellFounded, WFMin
    <2>4. \A m \in RunsOf : ~ (m < n)
      BY <2>3 DEF OpToRel
    <2>5. PICK o \in S : o.run = n
      BY <2>3
    <2>6. \A y \in S : y.run \in Nat /\ o.run <= y.run
      BY <2>4, <2>5
    <2>7. \A y \in S : y.run = o.run => y = o
      BY <2>5 DEF OneEach
    <2>8. Oldest(S) = {o}
      BY <2>6, <2>7 DEF Oldest
    <2>9. \A y \in S \ {o} : y.run > o.run
      BY <2>6, <2>7
    <2>10. Cardinality(S \ {o}) = cap /\ IsFiniteSet(S \ {o})
      <3>1. IsFiniteSet(S \ {o}) /\ Cardinality(S \ {o}) = Cardinality(S) - 1
        BY <2>5, FS_RemoveElement
      <3> QED
        BY <2>1, <3>1
    <2> QED
      BY <2>1, <2>5, <2>8, <2>9, <2>10 DEF TrimmedTo, Within
  <1> QED
    BY <1>1, <1>2

(* A new entry in the place of its sample's older one.                     *)
LEMMA Entering ==
  ASSUME NEW S, NEW cap \in Nat, runs \in Nat, NEW x, IsEntry(x),
         AllEntries(S), OneEach(S), Within(S, cap), \A y \in S : y.run < x.run
  PROVE  /\ AllEntries(Others(S, x.sample) \cup {x}) /\ OneEach(Others(S, x.sample) \cup {x})
         /\ TrimmedTo(Others(S, x.sample) \cup {x},
                      Trimmed(Others(S, x.sample) \cup {x}, cap), cap)
         /\ Within(Trimmed(Others(S, x.sample) \cup {x}, cap), cap)
  <1> DEFINE all == Others(S, x.sample) \cup {x}
  <1>1. AllEntries(all)
    BY DEF Others, AllEntries
  <1>2. \A y \in S : y.run \in Nat /\ x.run \in Nat
    BY DEF AllEntries, IsEntry
  <1>3. OneEach(all)
    BY <1>2 DEF Others, OneEach
  <1>4. /\ IsFiniteSet(Others(S, x.sample)) /\ Cardinality(Others(S, x.sample)) <= cap
        /\ Cardinality(Others(S, x.sample)) \in Nat
    BY FS_Subset, FS_CardinalityType DEF Others, Within
  <1>5. IsFiniteSet(all) /\ Cardinality(all) <= cap + 1
    <2>1. /\ IsFiniteSet(all)
          /\ Cardinality(all) = IF x \in Others(S, x.sample)
                                THEN Cardinality(Others(S, x.sample))
                                ELSE Cardinality(Others(S, x.sample)) + 1
      BY <1>4, FS_AddElement
    <2> HIDE DEF all
    <2> QED
      BY <1>4, <2>1
  <1>6. \A y \in all : y.run \in Nat
    BY <1>1 DEF AllEntries, IsEntry
  <1> HIDE DEF all
  <1>7. TrimmedTo(all, Trimmed(all, cap), cap) /\ Within(Trimmed(all, cap), cap)
    BY <1>3, <1>5, <1>6, Trimming
  <1> QED
    BY <1>1, <1>3, <1>7 DEF all

LEMMA InitLists == SampleInit => ListsInv
  <1> SUFFICES ASSUME SampleInit PROVE ListsInv
    OBVIOUS
  <1>1. SampleType
    BY FS_EmptySet, SampleAssumption
    DEF SampleInit, SampleType, AllEntries, OneEach, Within
  <1>2. UploadIs /\ ListedRun /\ MissingIsOld /\ ReportsAreListed
    BY DEF SampleInit, UploadIs, NoUpload, ListedRun, MissingIsOld, ReportsAreListed
  <1> QED
    BY <1>1, <1>2 DEF ListsInv

LEMMA StoringKeeps == ListsInv /\ Store => ListsInv'
  <1> SUFFICES ASSUME ListsInv, Store PROVE ListsInv'
    OBVIOUS
  <1> DEFINE s == upload.sample
             new == [sample |-> s, run |-> runs]
             all == Others(reports, s) \cup {new}
  <1>1. /\ reports' = Trimmed(all, ReportCap) /\ upload.phase = "pipeline"
        /\ UNCHANGED <<listed, runs, torn, unlisted>>
        /\ upload'.phase = "stored" /\ upload'.sample = s
    BY DEF Store
  <1>2. /\ \A x \in reports \cup listed : x.run < runs
        /\ ReportOf(s) = {} /\ runs \in Nat /\ runs >= 1
        /\ ReportCap \in Nat \ {0}
    BY <1>1, SampleAssumption DEF ListsInv, UploadIs, SampleType
  <1>3. new.sample = s /\ new.run = runs /\ IsEntry(new)
    BY <1>2 DEF IsEntry
  <1>4. all = reports \cup {new} /\ \A r \in reports : r.sample # s
    BY <1>2 DEF Others, ReportOf
  <1>5. /\ AllEntries(all) /\ OneEach(all) /\ TrimmedTo(all, reports', ReportCap)
        /\ Within(reports', ReportCap)
    BY <1>1, <1>2, <1>3, Entering DEF ListsInv, SampleType
  <1> HIDE DEF new, all, s
  <1>6. reports' \subseteq all /\ new \in reports'
    <2>1. CASE reports' = all
      BY <1>4, <2>1
    <2>2. ASSUME NEW o \in all, reports' = all \ {o}, \A y \in reports' : y.run > o.run,
                 Cardinality(reports') = ReportCap
          PROVE  reports' \subseteq all /\ new \in reports'
      <3>1. reports' # {}
        BY <1>2, <2>2, FS_EmptySet
      <3>2. ASSUME o = new PROVE FALSE
        <4>1. PICK y \in reports' : y \in reports /\ y.run > runs
          BY <1>3, <1>4, <2>2, <3>1, <3>2
        <4>2. y.run < runs /\ y.run \in Nat
          BY <1>2, <4>1 DEF ListsInv, SampleType, AllEntries, IsEntry
        <4> QED
          BY <1>2, <4>1, <4>2
      <3> QED
        BY <1>4, <2>2, <3>2
    <2> QED
      BY <1>5, <2>1, <2>2 DEF TrimmedTo
  <1>7. SampleType'
    BY <1>1, <1>5, <1>6 DEF ListsInv, SampleType, AllEntries, IsEntry, OneEach, Within
  <1>8. UploadIs'
    BY <1>1, <1>2, <1>6 DEF UploadIs, new
  <1>9. ListedRun'
    <2>1. \A x \in listed : x.run \in Nat /\ x.run < runs
      BY <1>2 DEF ListsInv, SampleType, AllEntries, IsEntry
    <2>2. ASSUME NEW x \in listed, NEW r \in reports', x.sample = r.sample
          PROVE  /\ x.run <= r.run
                 /\ x.run = r.run \/ r.sample \in unlisted \/ Current(r.sample)'
      <3>1. CASE r = new
        BY <1>1, <1>2, <1>3, <2>1, <2>2, <3>1 DEF Current
      <3>2. CASE r # new
        <4>1. r \in reports
          BY <1>4, <1>6, <3>2
        <4>2. ~ Current(r.sample)
          BY <1>1 DEF Current
        <4> QED
          BY <2>2, <4>1, <4>2 DEF ListsInv, ListedRun
      <3> QED
        BY <3>1, <3>2
    <2> QED
      BY <1>1, <2>2 DEF ListedRun
  <1>10. MissingIsOld'
    <2> SUFFICES ASSUME "reports" \notin torn, NEW x \in listed,
                        \A r \in reports' : r.sample # x.sample
                 PROVE  Cardinality(reports') = ReportCap /\ \A r \in reports' : r.run > x.run
      BY <1>1 DEF MissingIsOld, ReportOf
    <2>1. x.sample # s /\ x.run \in Nat /\ x.run < runs
      BY <1>2, <1>3, <1>6 DEF ListsInv, SampleType, AllEntries, IsEntry
    <2>2. \A r \in all : r.run \in Nat
      BY <1>5 DEF AllEntries, IsEntry
    <2>3. CASE reports' = all /\ Cardinality(all) <= ReportCap
      <3>1. \A r \in reports : r.sample # x.sample
        BY <1>4, <2>3
      <3>2. Cardinality(reports) = ReportCap
        BY <3>1 DEF ListsInv, MissingIsOld, ReportOf
      <3>3. new \notin reports /\ IsFiniteSet(reports)
        BY <1>3, <1>4 DEF ListsInv, SampleType, Within
      <3>4. Cardinality(all) = ReportCap + 1
        BY <1>4, <3>2, <3>3, FS_AddElement
      <3> QED
        BY <1>2, <2>3, <3>4
    <2>4. ASSUME NEW o \in all, reports' = all \ {o}, \A y \in reports' : y.run > o.run,
                 Cardinality(reports') = ReportCap
          PROVE  \A r \in reports' : r.run > x.run
      <3>1. CASE o.sample = x.sample
        <4>1. o \in reports
          BY <1>3, <1>4, <2>1, <2>4, <3>1
        <4>2. x.run <= o.run
          BY <3>1, <4>1 DEF ListsInv, ListedRun
        <4> QED
          BY <2>1, <2>2, <2>4, <4>2
      <3>2. CASE o.sample # x.sample
        <4>1. \A r \in reports : r.sample # x.sample
          BY <1>4, <2>4, <3>2
        <4>2. \A r \in reports : r.run > x.run
          BY <4>1 DEF ListsInv, MissingIsOld, ReportOf
        <4> QED
          BY <1>2, <1>3, <1>4, <1>6, <2>1, <4>2
      <3> QED
        BY <3>1, <3>2
    <2> QED
      BY <1>5, <2>3, <2>4 DEF TrimmedTo
  <1>11. ReportsAreListed'
    <2> SUFFICES ASSUME NEW r \in reports', r # new
                 PROVE  \/ IsListed(r.sample) \/ r.sample \in unlisted \/ PushedOut(r)'
      BY <1>1, <1>3 DEF ReportsAreListed, IsListed, Current
    <2>1. r \in reports /\ ~ Current(r.sample)
      BY <1>1, <1>4, <1>6 DEF Current
    <2>2. CASE PushedOut(r)
      <3>1. \E q \in reports' : q.run > r.run
        BY <1>2, <1>3, <1>6, <2>1
      <3> QED
        BY <1>1, <2>2, <3>1 DEF PushedOut
    <2> QED
      BY <2>1, <2>2 DEF ListsInv, ReportsAreListed
  <1> QED
    BY <1>7, <1>8, <1>9, <1>10, <1>11 DEF ListsInv

LEMMA ListingKeeps == ListsInv /\ ListSample => ListsInv'
  <1> SUFFICES ASSUME ListsInv, ListSample PROVE ListsInv'
    OBVIOUS
  <1> DEFINE s == upload.sample
             new == [sample |-> s, run |-> runs]
             all == Others(listed, s) \cup {new}
  <1>1. /\ listed' = Trimmed(all, HistoryCap) /\ upload.phase = "stored"
        /\ UNCHANGED <<reports, runs, torn, unlisted>> /\ upload'.phase = "none"
    BY DEF ListSample, append_history, NoUpload, past
  <1>2. /\ \A x \in listed : x.run < runs
        /\ new \in reports /\ runs \in Nat
        /\ HistoryCap \in Nat \ {0}
    BY <1>1, SampleAssumption DEF ListsInv, UploadIs, SampleType
  <1>3. new.sample = s /\ new.run = runs /\ IsEntry(new)
    BY <1>2 DEF IsEntry, ListsInv, SampleType, AllEntries
  <1>4. /\ AllEntries(all) /\ OneEach(all) /\ TrimmedTo(all, listed', HistoryCap)
        /\ Within(listed', HistoryCap)
    BY <1>1, <1>2, <1>3, Entering DEF ListsInv, SampleType
  <1>5. /\ new \in all /\ \A x \in all : x = new \/ (x \in listed /\ x.sample # s)
        /\ \A x \in listed : x.sample # s => x \in all
    BY DEF Others
  <1> HIDE DEF new, all, s
  <1>6. \A x \in listed : x.run \in Nat /\ x.run < runs
    BY <1>2 DEF ListsInv, SampleType, AllEntries, IsEntry
  <1>7. /\ listed' \subseteq all /\ new \in listed'
        /\ \/ listed' = all
           \/ /\ Cardinality(listed') = HistoryCap
              /\ \E o \in listed : listed' = all \ {o} /\ \A x \in listed' : x.run > o.run
    <2>1. CASE listed' = all
      BY <1>5, <2>1
    <2>2. ASSUME NEW o \in all, listed' = all \ {o}, \A y \in listed' : y.run > o.run,
                 Cardinality(listed') = HistoryCap
          PROVE  new \in listed' /\ o \in listed
      <3>1. listed' # {}
        BY <1>2, <2>2, FS_EmptySet
      <3>2. ASSUME o = new PROVE FALSE
        <4>1. PICK y \in listed' : y \in listed /\ y.run > runs
          BY <1>3, <1>5, <2>2, <3>1, <3>2
        <4> QED
          BY <1>2, <1>6, <4>1
      <3> QED
        BY <1>5, <2>2, <3>2
    <2> QED
      BY <1>4, <2>1, <2>2 DEF TrimmedTo
  <1>8. SampleType'
    BY <1>1, <1>4, <1>7 DEF ListsInv, SampleType, AllEntries, IsEntry, OneEach, Within
  <1>9. UploadIs'
    BY <1>1 DEF UploadIs
  <1>10. \A r \in reports : r.sample = s => r = new
    BY <1>2, <1>3 DEF ListsInv, SampleType, OneEach
  <1>11. \A r \in reports : r.sample # s => ~ Current(r.sample)
    BY DEF Current, s
  <1>12. ListedRun'
    <2>1. ASSUME NEW x \in listed', NEW r \in reports, x.sample = r.sample
          PROVE  x.run <= r.run /\ (x.run = r.run \/ r.sample \in unlisted)
      <3>1. CASE x = new
        BY <1>2, <1>3, <1>10, <2>1, <3>1
      <3>2. CASE x # new
        <4>1. x \in listed /\ x.sample # s
          BY <1>5, <1>7, <3>2
        <4> QED
          BY <1>11, <2>1, <4>1 DEF ListsInv, ListedRun
      <3> QED
        BY <3>1, <3>2
    <2> QED
      BY <1>1, <2>1 DEF ListedRun
  <1>13. MissingIsOld'
    <2>1. ASSUME NEW x \in listed', ReportOf(x.sample) = {}, "reports" \notin torn
          PROVE  Cardinality(reports) = ReportCap /\ \A r \in reports : r.run > x.run
      <3>1. x # new
        BY <1>2, <2>1 DEF ReportOf
      <3> QED
        BY <1>5, <1>7, <2>1, <3>1 DEF ListsInv, MissingIsOld
    <2> QED
      BY <1>1, <2>1 DEF MissingIsOld, ReportOf
  <1>14. ReportsAreListed'
    <2> SUFFICES ASSUME NEW r \in reports, r.sample \notin unlisted, ~ IsListed(r.sample)'
                 PROVE  PushedOut(r)'
      BY <1>1 DEF ReportsAreListed
    <2>1. r.sample # s
      BY <1>3, <1>7 DEF IsListed
    <2>2. r.run \in Nat /\ r.run < runs
      <3>1. r.run \in 1 .. runs /\ r # new
        BY <1>3, <2>1 DEF ListsInv, SampleType, AllEntries, IsEntry
      <3> QED
        BY <1>2, <1>3, <3>1 DEF ListsInv, SampleType, OneEach
    <2>3. \E q \in reports : q.run > r.run
      BY <1>2, <1>3, <2>2
    <2>4. CASE IsListed(r.sample)
      <3>1. PICK x \in listed : x.sample = r.sample
        BY <2>4 DEF IsListed
      <3>2. x.run = r.run
        BY <1>11, <2>1, <3>1 DEF ListsInv, ListedRun
      <3>3. x \in all /\ x \notin listed'
        BY <1>5, <2>1, <3>1 DEF IsListed
      <3>4. PICK o \in listed : listed' = all \ {o} /\ \A y \in listed' : y.run > o.run
        BY <1>7, <3>3
      <3>5. o = x /\ Cardinality(listed') = HistoryCap
        BY <1>7, <3>3, <3>4
      <3> QED
        BY <1>1, <2>3, <3>2, <3>4, <3>5 DEF PushedOut
    <2>5. CASE PushedOut(r)
      <3>1. \A x \in listed' : x.run > r.run
        BY <1>3, <1>5, <1>7, <2>2, <2>5 DEF PushedOut
      <3>2. CASE Cardinality(listed) = HistoryCap
        <4>1. listed' = all => Cardinality(listed') = HistoryCap
          <5>1. SUFFICES ASSUME listed' = all PROVE Cardinality(all) = HistoryCap
            OBVIOUS
          <5>2. CASE \E x \in listed : x.sample = s
            <6>1. PICK x \in listed : x.sample = s
              BY <5>2
            <6>2. \A y \in listed : y # x => y.sample # s
              BY <6>1 DEF ListsInv, SampleType, OneEach
            <6>3. all = (listed \ {x}) \cup {new}
              BY <1>5, <6>1, <6>2
            <6>4. new \notin listed /\ IsFiniteSet(listed)
              BY <1>2, <1>3, <1>6 DEF ListsInv, SampleType, Within
            <6>5. IsFiniteSet(listed \ {x}) /\ Cardinality(listed \ {x}) = HistoryCap - 1
              BY <3>2, <6>1, <6>4, FS_RemoveElement
            <6>6. Cardinality(all) = (HistoryCap - 1) + 1
              BY <6>3, <6>4, <6>5, FS_AddElement
            <6> QED
              BY <1>2, <6>6
          <5>3. CASE \A x \in listed : x.sample # s
            <6>1. all = listed \cup {new}
              BY <1>5, <5>3
            <6>2. new \notin listed /\ IsFiniteSet(listed)
              BY <1>2, <1>3, <1>6 DEF ListsInv, SampleType, Within
            <6>3. Cardinality(all) = HistoryCap + 1
              BY <3>2, <6>1, <6>2, FS_AddElement
            <6>4. Cardinality(all) <= HistoryCap
              BY <1>4, <5>1 DEF Within
            <6> QED
              BY <1>2, <6>3, <6>4
          <5> QED
            BY <5>2, <5>3
        <4> QED
          BY <1>1, <1>7, <2>3, <3>1, <4>1 DEF PushedOut
      <3>3. CASE "listed" \in torn
        BY <1>1, <3>1, <3>3 DEF PushedOut
      <3> QED
        BY <2>5, <3>2, <3>3 DEF PushedOut
    <2> QED
      BY <1>11, <2>1, <2>4, <2>5 DEF ListsInv, ReportsAreListed
  <1> QED
    BY <1>8, <1>9, <1>12, <1>13, <1>14 DEF ListsInv

LEMMA CutKeeps == ListsInv /\ EndProcess => ListsInv'
  <1> SUFFICES ASSUME ListsInv, EndProcess PROVE ListsInv'
    OBVIOUS
  <1>1. PICK cut \in {"none", "reports", "listed"} :
          /\ reports' = IF cut = "reports" THEN {} ELSE reports
          /\ listed' = IF cut = "listed" THEN {} ELSE listed
          /\ torn' = torn \cup ({cut} \ {"none"})
    BY DEF EndProcess
  <1>2. /\ unlisted' = IF upload.phase = "stored" THEN unlisted \cup {upload.sample} ELSE unlisted
        /\ UNCHANGED runs /\ upload'.phase = "none"
    BY DEF EndProcess, NoUpload
  <1>3. Within({}, ReportCap) /\ Within({}, HistoryCap)
    BY FS_EmptySet, SampleAssumption DEF Within
  <1>4. SampleType'
    <2>1. IsFiniteSet(unlisted')
      BY <1>2, FS_AddElement DEF ListsInv, SampleType
    <2>2. AllEntries(reports)' /\ AllEntries(listed)'
      BY <1>1, <1>2 DEF ListsInv, SampleType, AllEntries, IsEntry
    <2>3. OneEach(reports') /\ OneEach(listed')
      BY <1>1 DEF ListsInv, SampleType, OneEach
    <2>4. Within(reports', ReportCap) /\ Within(listed', HistoryCap)
      BY <1>1, <1>3 DEF ListsInv, SampleType
    <2> QED
      BY <1>2, <2>1, <2>2, <2>3, <2>4 DEF ListsInv, SampleType
  <1>5. UploadIs'
    BY <1>2 DEF UploadIs
  <1>6. /\ reports' \subseteq reports /\ listed' \subseteq listed
        /\ \A t : Current(t) => t \in unlisted'
        /\ unlisted \subseteq unlisted'
    BY <1>1, <1>2 DEF Current
  <1>7. ListedRun'
    BY <1>6 DEF ListsInv, ListedRun
  <1>8. MissingIsOld'
    <2>1. CASE cut = "reports"
      BY <1>1, <2>1 DEF MissingIsOld
    <2>2. CASE cut # "reports"
      BY <1>1, <1>6, <2>2 DEF ListsInv, MissingIsOld, ReportOf
    <2> QED
      BY <2>1, <2>2
  <1>9. ReportsAreListed'
    <2>1. CASE cut = "listed"
      BY <1>1, <1>6, <2>1 DEF ListsInv, ReportsAreListed, PushedOut, IsListed
    <2>2. CASE cut = "reports"
      BY <1>1, <2>2 DEF ReportsAreListed
    <2>3. CASE cut = "none"
      BY <1>1, <1>6, <2>3 DEF ListsInv, ReportsAreListed, PushedOut, IsListed
    <2> QED
      BY <1>1, <2>1, <2>2, <2>3
  <1> QED
    BY <1>4, <1>5, <1>7, <1>8, <1>9 DEF ListsInv

LEMMA StepLists == ListsInv /\ [SampleNext]_sampleVars => ListsInv'
  <1> SUFFICES ASSUME ListsInv, [SampleNext]_sampleVars PROVE ListsInv'
    OBVIOUS
  <1>1. ASSUME UNCHANGED <<reports, listed, upload, runs, torn, unlisted>> PROVE ListsInv'
    BY <1>1 DEF ListsInv, SampleType, AllEntries, IsEntry, OneEach, Within, UploadIs, ReportOf,
      ListedRun, Current, MissingIsOld, ReportsAreListed, IsListed, PushedOut
  <1>2. ASSUME NEW s \in Samples, UploadSample(s) PROVE ListsInv'
    <2>1. CASE ReportOf(s) # {}
      BY <1>1, <1>2, <2>1 DEF UploadSample, past
    <2>2. CASE ReportOf(s) = {}
      <3>1. /\ UNCHANGED <<reports, listed, torn, unlisted>> /\ runs' = runs + 1
            /\ upload'.phase = "pipeline" /\ upload'.sample = s /\ upload.phase = "none"
        BY <1>2, <2>2 DEF UploadSample, past, PipelineIdle
      <3>2. runs \in Nat /\ \A x \in reports \cup listed : IsEntry(x)
        BY DEF ListsInv, SampleType, AllEntries
      <3>3. \A x \in reports \cup listed : IsEntry(x)' /\ x.run < runs'
        BY <3>1, <3>2 DEF IsEntry
      <3>4. SampleType'
        BY <3>1, <3>2, <3>3 DEF ListsInv, SampleType, AllEntries
      <3>5. UploadIs'
        BY <2>2, <3>1, <3>2, <3>3 DEF UploadIs, ReportOf
      <3>6. ListedRun' /\ MissingIsOld' /\ ReportsAreListed'
        BY <3>1 DEF ListsInv, ListedRun, Current, MissingIsOld, ReportOf, ReportsAreListed,
          IsListed, PushedOut
      <3> QED
        BY <3>4, <3>5, <3>6 DEF ListsInv
    <2> QED
      BY <2>1, <2>2
  <1>3. ASSUME NEW s \in Samples, ScanApk(s) \/ BeginFiling(s) PROVE ListsInv'
    BY <1>1, <1>3 DEF ScanApk, BeginFiling, sampleFiles, past
  <1>4. ASSUME NEW p \in Papers, BeginPaper(p) PROVE ListsInv'
    BY <1>1, <1>4 DEF BeginPaper, sampleFiles, past
  <1>5. ASSUME NEW f \in Filers, CommitEvidence(f) \/ Abort(f) PROVE ListsInv'
    BY <1>1, <1>5 DEF CommitEvidence, Abort, sampleFiles, past
  <1>6. CASE UNCHANGED sampleVars
    BY <1>1, <1>6 DEF sampleVars, sampleFiles, past
  <1> QED
    BY <1>2, <1>3, <1>4, <1>5, <1>6, StoringKeeps, ListingKeeps, CutKeeps DEF SampleNext

-----------------------------------------------------------------------------
(* Every report would be that of another listed sample, of an unlisted one *)
(* or of the upload: fewer than there are, unless as many as the caps lie  *)
(* apart are unlisted.                                                     *)
LEMMA ListedHaveReports ==
  ASSUME ListsInv, "reports" \notin torn, NEW x \in listed, ReportOf(x.sample) = {}
  PROVE  ~ (Cardinality(unlisted) < ReportCap - HistoryCap)
  <1> DEFINE Named == {r.sample : r \in reports}
             Other == listed \ {x}
             OtherNames == {y.sample : y \in Other}
             Rest1 == unlisted \cup {upload.sample}
  <1>0. /\ ReportCap \in Nat /\ HistoryCap \in Nat
        /\ IsFiniteSet(unlisted) /\ Cardinality(unlisted) \in Nat
    BY SampleAssumption, FS_CardinalityType DEF ListsInv, SampleType
  <1>1. Cardinality(reports) = ReportCap /\ \A r \in reports : r.run > x.run
    BY DEF ListsInv, MissingIsOld
  <1>2. /\ IsFiniteSet(Other) /\ Cardinality(Other) <= HistoryCap - 1
        /\ Cardinality(Other) \in Nat
    <2>1. IsFiniteSet(listed) /\ Cardinality(listed) <= HistoryCap
      BY DEF ListsInv, SampleType, Within
    <2>2. IsFiniteSet(Other) /\ Cardinality(Other) = Cardinality(listed) - 1
      BY <2>1, FS_RemoveElement
    <2>3. Cardinality(listed) \in Nat /\ Cardinality(Other) \in Nat
      BY <2>1, <2>2, FS_CardinalityType
    <2> HIDE DEF Other
    <2> QED
      BY <1>0, <2>1, <2>2, <2>3
  <1>3. /\ IsFiniteSet(OtherNames) /\ Cardinality(OtherNames) <= Cardinality(Other)
        /\ Cardinality(OtherNames) \in Nat
    <2>1. [y \in Other |-> y.sample] \in Surjection(Other, OtherNames)
      BY DEF Surjection
    <2> HIDE DEF Other, OtherNames
    <2>2. IsFiniteSet(OtherNames) /\ Cardinality(OtherNames) <= Cardinality(Other)
      BY <1>2, <2>1, FS_Surjection
    <2> QED
      BY <2>2, FS_CardinalityType
  <1>4. /\ IsFiniteSet(Rest1) /\ Cardinality(Rest1) <= Cardinality(unlisted) + 1
        /\ Cardinality(Rest1) \in Nat
    <2>1. /\ IsFiniteSet(Rest1)
          /\ \/ Cardinality(Rest1) = Cardinality(unlisted)
             \/ Cardinality(Rest1) = Cardinality(unlisted) + 1
      BY <1>0, FS_AddElement
    <2>2. Cardinality(Rest1) \in Nat
      BY <2>1, FS_CardinalityType
    <2> HIDE DEF Rest1
    <2> QED
      BY <1>0, <2>1, <2>2
  <1>5. Named \subseteq OtherNames \cup Rest1
    <2> SUFFICES ASSUME NEW r \in reports PROVE r.sample \in OtherNames \cup Rest1
      OBVIOUS
    <2>1. r.sample # x.sample
      BY DEF ReportOf
    <2>2. r.run > x.run /\ r.run \in Nat /\ x.run \in Nat
      BY <1>1 DEF ListsInv, SampleType, AllEntries, IsEntry
    <2>3. ~ PushedOut(r)
      BY <2>2 DEF PushedOut
    <2>4. IsListed(r.sample) => r.sample \in OtherNames
      BY <2>1 DEF IsListed
    <2> QED
      BY <2>3, <2>4 DEF ListsInv, ReportsAreListed, Current
  <1>6. /\ IsFiniteSet(OtherNames \cup Rest1) /\ Cardinality(OtherNames \cup Rest1) \in Nat
        /\ Cardinality(OtherNames \cup Rest1) <= Cardinality(OtherNames) + Cardinality(Rest1)
    <2> HIDE DEF OtherNames, Rest1
    <2>1. /\ IsFiniteSet(OtherNames \cup Rest1)
          /\ Cardinality(OtherNames \cup Rest1) =
               Cardinality(OtherNames) + Cardinality(Rest1) - Cardinality(OtherNames \cap Rest1)
      BY <1>3, <1>4, FS_Union
    <2>2. IsFiniteSet(OtherNames \cap Rest1)
      BY <1>3, FS_Subset
    <2>3. Cardinality(OtherNames \cap Rest1) \in Nat /\ Cardinality(OtherNames \cup Rest1) \in Nat
      BY <2>1, <2>2, FS_CardinalityType
    <2> QED
      BY <1>3, <1>4, <2>1, <2>3
  <1>7. /\ IsFiniteSet(Named) /\ Cardinality(Named) <= Cardinality(OtherNames \cup Rest1)
    <2> HIDE DEF OtherNames, Rest1, Named
    <2> QED
      BY <1>5, <1>6, FS_Subset
  <1>8. Cardinality(reports) <= Cardinality(Named)
    <2>1. [r \in reports |-> r.sample] \in Injection(reports, Named)
      BY DEF Injection, IsInjective, ListsInv, SampleType, OneEach
    <2> HIDE DEF Named
    <2> QED
      BY <1>7, <2>1, FS_Injection
  <1>9. Cardinality(Named) \in Nat
    <2> HIDE DEF Named
    <2> QED
      BY <1>7, FS_CardinalityType
  <1> HIDE DEF Named, Other, OtherNames, Rest1
  <1> QED
    BY <1>0, <1>1, <1>2, <1>3, <1>4, <1>6, <1>7, <1>8, <1>9

LEMMA ListsFit == ListsInv => ListedAndStored
  <1> SUFFICES ASSUME ListsInv PROVE ListedAndStored
    OBVIOUS
  <1>1. "reports" \notin torn /\ Cardinality(unlisted) < ReportCap - HistoryCap =>
          \A x \in listed : ReportOf(x.sample) # {}
    BY ListedHaveReports
  <1>2. ASSUME NEW r \in reports
        PROVE  \/ \E x \in listed : x.sample = r.sample
               \/ Cardinality(listed) = HistoryCap /\ \E q \in reports : q.run > r.run
               \/ "listed" \in torn
               \/ r.sample \in unlisted
               \/ upload.phase = "stored" /\ upload.sample = r.sample
    BY DEF ListsInv, ReportsAreListed, IsListed, Current, PushedOut
  <1> QED
    BY <1>1, <1>2 DEF ListedAndStored

-----------------------------------------------------------------------------
(* Verdict and risk of the same findings.                                  *)

LEMMA GreatestOf ==
  ASSUME NEW S, S # {}, NEW bound \in Nat, \A n \in S : n \in 0 .. bound
  PROVE  Greatest(S) \in S /\ \A n \in S : n <= Greatest(S)
  <1> DEFINE T == {n \in Nat : \A m \in S : m <= n}
  <1>1. bound \in T
    OBVIOUS
  <1>2. PICK n \in T : \A y \in T : ~ (<<y, n>> \in OpToRel(<, Nat))
    BY <1>1, NatLessThanWellFounded, WFMin
  <1>3. \A y \in T : ~ (y < n)
    BY <1>2 DEF OpToRel
  <1>4. n \in S
    <2>1. CASE n = 0
      <3>1. PICK m \in S : TRUE
        OBVIOUS
      <3>2. n \in Nat /\ m <= n
        BY <1>2, <3>1
      <3>4. m \in 0 .. bound
        BY <3>1
      <3>5. m \in Nat
        BY <3>4
      <3>3. m = n
        BY <2>1, <3>2, <3>5
      <3> QED
        BY <3>1, <3>3
    <2>2. CASE n # 0
      <3>1. n - 1 \in Nat /\ n - 1 < n /\ n - 1 \notin T
        BY <1>3, <2>2
      <3>2. PICK m \in S : ~ (m <= n - 1)
        BY <3>1
      <3>3. m = n
        BY <2>2, <3>2
      <3> QED
        BY <3>2, <3>3
    <2> QED
      BY <2>1, <2>2
  <1>5. n \in S /\ \A m \in S : m <= n
    BY <1>4
  <1> QED
    BY <1>5 DEF Greatest

LEMMA RisksFit ==
  ASSUME NEW f \in Findings
  PROVE  /\ Verdict(f) = "MALICIOUS" => RiskLevel(SampleScore(f)) \in {"HIGH", "CRITICAL"}
         /\ Verdict(f) = "SUSPICIOUS" => RiskLevel(SampleScore(f)) # "LOW"
  <1>0. /\ f.malicious \in Nat /\ f.suspicious \in Nat /\ f.known \in BOOLEAN
        /\ f.locked \in BOOLEAN /\ f.rest \in {0, 30, 55, 80}
        /\ f.rules \in {"NONE", "MEDIUM", "HIGH", "CRITICAL"}
    BY DEF Findings, Rest, Sealed
  <1>1. /\ VendorScore(f) \in {0, 45, 75, 90}
        /\ Malicious(f) >= 3 => VendorScore(f) >= 75
        /\ Flagged(f) > 0 => VendorScore(f) >= 45
    <2> DEFINE marks == {s.score : s \in {t \in {[least |-> 10, score |-> 90],
                                                 [least |-> 3, score |-> 75]} :
                                            Malicious(f) >= t.least}}
               S == {0} \cup marks \cup (IF Flagged(f) > 0 THEN {45} ELSE {})
    <2>1. S \subseteq {0, 45, 75, 90} /\ 0 \in S
      OBVIOUS
    <2>2. Malicious(f) >= 3 => 75 \in S
      <3>1. [least |-> 3, score |-> 75].least = 3 /\ [least |-> 3, score |-> 75].score = 75
        OBVIOUS
      <3>2. Malicious(f) >= 3 => 75 \in marks
        BY <3>1
      <3> QED
        BY <3>2
    <2>3. Flagged(f) > 0 => 45 \in S
      OBVIOUS
    <2>4. VendorScore(f) = Greatest(S)
      BY DEF VendorScore
    <2> HIDE DEF S
    <2>5. \A n \in S : n \in 0 .. 90
      BY <2>1
    <2>6. Greatest(S) \in S /\ \A n \in S : n <= Greatest(S)
      BY <2>1, <2>5, GreatestOf
    <2>7. VendorScore(f) \in {0, 45, 75, 90}
      BY <2>1, <2>4, <2>6
    <2>8. Malicious(f) >= 3 => 75 <= VendorScore(f)
      BY <2>2, <2>4, <2>6
    <2>9. Flagged(f) > 0 => 45 <= VendorScore(f)
      BY <2>3, <2>4, <2>6
    <2> QED
      BY <2>7, <2>8, <2>9
  <1>2. RuleScore(f) \in {0, 45, 70, 90}
    BY <1>0 DEF RuleScore
  <1>3. /\ SampleScore(f) \in Nat /\ SampleScore(f) >= VendorScore(f)
        /\ f.clam = "found" => SampleScore(f) >= 95
        /\ f.locked => SampleScore(f) >= 50
    <2> DEFINE a == IF f.clam = "found" THEN 95 ELSE 0
               b == IF f.locked THEN 50 ELSE 0
               S == {f.rest, RuleScore(f), VendorScore(f), a, b}
    <2>1. \A n \in S : n \in 0 .. 95
      BY <1>0, <1>1, <1>2
    <2>2. SampleScore(f) = Greatest(S)
      BY DEF SampleScore
    <2>3. VendorScore(f) \in S /\ a \in S /\ b \in S
      OBVIOUS
    <2> HIDE DEF S
    <2>4. Greatest(S) \in S /\ \A n \in S : n <= Greatest(S)
      BY <2>1, <2>3, GreatestOf
    <2> QED
      BY <2>1, <2>2, <2>3, <2>4
  <1>4. Verdict(f) = "MALICIOUS" => f.clam = "found" \/ Malicious(f) >= 3
    BY DEF Verdict
  <1>5. Verdict(f) = "SUSPICIOUS" => Flagged(f) > 0 \/ f.locked
    BY DEF Verdict
  <1>6. Verdict(f) = "MALICIOUS" => SampleScore(f) >= 75
    BY <1>1, <1>3, <1>4
  <1>7. Verdict(f) = "SUSPICIOUS" => SampleScore(f) >= 45
    BY <1>1, <1>3, <1>5
  <1> QED
    BY <1>3, <1>6, <1>7 DEF RiskLevel

LEMMA InitRisk == SampleInit => VerdictAndRisk
  BY DEF SampleInit, VerdictAndRisk, NoUpload

LEMMA StepRisk == VerdictAndRisk /\ [SampleNext]_sampleVars => VerdictAndRisk'
  <1> SUFFICES ASSUME VerdictAndRisk, [SampleNext]_sampleVars PROVE VerdictAndRisk'
    OBVIOUS
  <1>1. CASE UNCHANGED upload
    BY <1>1 DEF VerdictAndRisk
  <1>2. ASSUME upload'.phase # "stored" PROVE VerdictAndRisk'
    BY <1>2 DEF VerdictAndRisk
  <1>3. CASE Store
    <2>1. PICK a \in Assessments :
            upload' = [phase |-> "stored", sample |-> upload.sample, verdict |-> a.verdict,
                       risk |-> a.risk]
      BY <1>3 DEF Store
    <2>2. PICK f \in Cases \cap Findings :
            a = [verdict |-> Verdict(f), risk |-> RiskLevel(SampleScore(f))]
      BY DEF Assessments
    <2>3. upload'.verdict = Verdict(f) /\ upload'.risk = RiskLevel(SampleScore(f))
      BY <2>1, <2>2
    <2> QED
      BY <2>3, RisksFit DEF VerdictAndRisk
  <1>4. CASE ListSample \/ EndProcess
    BY <1>2, <1>4 DEF ListSample, EndProcess, NoUpload
  <1>5. ASSUME NEW s \in Samples, UploadSample(s) PROVE VerdictAndRisk'
    BY <1>1, <1>2, <1>5 DEF UploadSample
  <1> QED
    BY <1>1, <1>3, <1>4, <1>5
    DEF SampleNext, ScanApk, BeginFiling, BeginPaper, CommitEvidence, Abort, sampleVars

-----------------------------------------------------------------------------
(* Evidence.                                                               *)

LEMMA InitFiled == SampleInit => FiledInv
  BY DEF SampleInit, FiledInv, NoUpload

(* What is filed stays as it was.                                          *)
LEMMA StaysFiled ==
  ASSUME disk \subseteq disk', quarantine \subseteq quarantine', evicted \subseteq evicted',
         torn \subseteq torn',
         \A r \in reports : r \in reports' \/ "reports" \in torn' \/ r.sample \in evicted',
         NEW e, IsFiled(e)
  PROVE  IsFiled(e)'
  BY DEF IsFiled

LEMMA StepFiled == FiledInv /\ ListsInv /\ [SampleNext]_sampleVars => FiledInv'
  <1> SUFFICES ASSUME FiledInv, ListsInv, [SampleNext]_sampleVars PROVE FiledInv'
    OBVIOUS
  <1>1. ASSUME disk \subseteq disk', quarantine \subseteq quarantine', evicted \subseteq evicted',
               torn \subseteq torn',
               \A r \in reports : r \in reports' \/ "reports" \in torn' \/ r.sample \in evicted',
               \A r \in reports' : r \in reports \/ r.sample \in quarantine',
               upload'.phase # "none" => upload'.sample \in quarantine',
               DOMAIN filing' = Filers,
               \A f \in Filers : \A e \in filing'[f] : e \in filing[f] \/ IsFiled(e)',
               \A e \in evidence' : e \in evidence \/ \E f \in Filers : e \in filing[f]
        PROVE  FiledInv'
    <2>1. \A e : IsFiled(e) => IsFiled(e)'
      BY <1>1, StaysFiled
    <2> QED
      BY <1>1, <2>1 DEF FiledInv
  <1>2. ASSUME NEW s \in Samples, UploadSample(s) \/ ScanApk(s) PROVE FiledInv'
    <2>1. /\ UNCHANGED <<reports, filed, past>> /\ quarantine' = quarantine \cup {s}
          /\ UNCHANGED upload \/ upload' = [phase |-> "pipeline", sample |-> s]
      BY <1>2 DEF UploadSample, ScanApk
    <2> QED
      BY <1>1, <2>1 DEF FiledInv, filed, past
  <1>3. CASE Store
    <2> DEFINE new == [sample |-> upload.sample, run |-> runs]
               all == Others(reports, upload.sample) \cup {new}
    <2>1. /\ upload.phase = "pipeline" /\ upload'.sample = upload.sample
          /\ reports' = Trimmed(all, ReportCap)
          /\ evicted' = evicted \cup {r.sample : r \in all \ Trimmed(all, ReportCap)}
          /\ UNCHANGED <<quarantine, filed, torn>>
      BY <1>3 DEF Store
    <2>2. ReportOf(upload.sample) = {} /\ upload.sample \in quarantine
      BY <2>1 DEF ListsInv, UploadIs, FiledInv
    <2>3. all = reports \cup {new}
      BY <2>2 DEF Others, ReportOf
    <2>4. reports' \subseteq all
      BY <2>1 DEF Trimmed
    <2>5. \A r \in reports : r \in reports' \/ r.sample \in evicted'
      BY <2>1, <2>3
    <2>6. new.sample = upload.sample
      OBVIOUS
    <2> HIDE DEF all, new
    <2>7. \A r \in reports' : r \in reports \/ r.sample \in quarantine
      BY <2>2, <2>3, <2>4, <2>6
    <2> QED
      BY <1>1, <2>1, <2>2, <2>5, <2>7 DEF FiledInv, filed
  <1>4. CASE ListSample
    BY <1>1, <1>4 DEF ListSample, FiledInv, filed, past, NoUpload
  <1>5. ASSUME NEW s \in Samples, BeginFiling(s) PROVE FiledInv'
    <2> DEFINE new == {[kind |-> kind, of |-> s, hash |-> r.run] :
                        kind \in {"sample", "section"}, r \in ReportOf(s)}
    <2>1. UNCHANGED <<reports, quarantine, torn, evicted, upload, disk, evidence>>
          /\ filing' = [filing EXCEPT !["cycle"] = new]
      BY <1>5 DEF BeginFiling, sampleFiles, past
    <2>2. ASSUME NEW e \in new PROVE IsFiled(e)
      <3>1. PICK kind \in {"sample", "section"}, r \in ReportOf(s) :
              e = [kind |-> kind, of |-> s, hash |-> r.run]
        BY <2>2
      <3>2. e.kind = kind /\ e.of = s /\ e.hash = r.run /\ r \in reports /\ r.sample = s
        BY <3>1 DEF ReportOf
      <3> QED
        BY <3>2 DEF IsFiled, FiledInv
    <2> HIDE DEF new
    <2>3. DOMAIN filing' = Filers /\ \A f \in Filers : \A e \in filing'[f] :
                                      e \in filing[f] \/ e \in new
      BY <2>1 DEF FiledInv
    <2>4. \A e \in new : IsFiled(e)'
      BY <2>1, <2>2 DEF IsFiled
    <2> QED
      BY <1>1, <2>1, <2>3, <2>4 DEF FiledInv
  <1>6. ASSUME NEW p \in Papers, BeginPaper(p) PROVE FiledInv'
    <2> DEFINE item == [kind |-> IF p \in TextPapers THEN "text" ELSE "attachment", of |-> p,
                        hash |-> 0]
    <2>1. /\ UNCHANGED <<reports, quarantine, torn, evicted, upload, evidence>>
          /\ filing' = [filing EXCEPT !["analyst"] = {item}]
          /\ disk' = IF p \in TextPapers THEN disk ELSE disk \cup {p}
      BY <1>6 DEF BeginPaper, sampleFiles, past
    <2>2. IsFiled(item)'
      BY <2>1 DEF IsFiled
    <2> HIDE DEF item
    <2>3. DOMAIN filing' = Filers /\ \A f \in Filers : \A e \in filing'[f] :
                                      e \in filing[f] \/ e = item
      BY <2>1 DEF FiledInv
    <2> QED
      BY <1>1, <2>1, <2>2, <2>3 DEF FiledInv
  <1>7. ASSUME NEW f \in Filers, CommitEvidence(f) \/ Abort(f) PROVE FiledInv'
    <2>1. /\ UNCHANGED <<reports, quarantine, torn, evicted, upload, disk>>
          /\ filing' = [filing EXCEPT ![f] = {}]
          /\ \A e \in evidence' : e \in evidence \/ e \in filing[f]
      BY <1>7 DEF CommitEvidence, Abort, sampleFiles, past
    <2>2. DOMAIN filing' = Filers /\ \A g \in Filers : \A e \in filing'[g] : e \in filing[g]
      BY <2>1 DEF FiledInv
    <2> QED
      BY <1>1, <2>1, <2>2 DEF FiledInv
  <1>8. CASE EndProcess
    <2>1. PICK cut \in {"none", "reports", "listed"} :
            /\ reports' = IF cut = "reports" THEN {} ELSE reports
            /\ torn' = torn \cup ({cut} \ {"none"})
      BY <1>8 DEF EndProcess
    <2>2. /\ UNCHANGED <<quarantine, disk, evidence, evicted>> /\ upload'.phase = "none"
          /\ filing' = [f \in Filers |-> {}]
      BY <1>8 DEF EndProcess, NoUpload
    <2> QED
      BY <1>1, <2>1, <2>2 DEF FiledInv
  <1>9. CASE UNCHANGED sampleVars
    BY <1>1, <1>9 DEF sampleVars, sampleFiles, filed, past, FiledInv
  <1> QED
    BY <1>2, <1>3, <1>4, <1>5, <1>6, <1>7, <1>8, <1>9 DEF SampleNext

(* The two files of the analyses fit, whatever uploads fill and empty them *)
(* and wherever the process ends, and verdict and risk agree for every     *)
(* combination of findings (malware.py).                                   *)
THEOREM AnalysesFit == SampleSpec => []AnalysesHold
  <1>1. ListsInv /\ VerdictAndRisk => AnalysesHold
    BY ListsFit DEF AnalysesHold
  <1> QED
    BY <1>1, InitLists, StepLists, InitRisk, StepRisk, PTL DEF SampleSpec

(* Evidence that is filed verifies, whatever is uploaded, listed, filed    *)
(* and cut between the reading of a report and the commit of the evidence  *)
(* made of it (evidence_service.py).                                       *)
THEOREM EvidenceCanBeVerified == SampleSpec => []EvidenceVerifies
  <1>1. FiledInv => EvidenceVerifies
    <2> SUFFICES ASSUME FiledInv, NEW e \in evidence
                 PROVE  \/ Verified(e)
                        \/ e.kind = "text" /\ e.of \in Long
                        \/ e.kind = "section" /\ ("reports" \in torn \/ e.of \in evicted)
      BY DEF EvidenceVerifies
    <2>1. IsFiled(e)
      BY DEF FiledInv
    <2>2. CASE e.kind = "text"
      BY <2>2 DEF Verified
    <2>3. CASE e.kind = "attachment"
      BY <2>1, <2>3 DEF Verified, IsFiled
    <2>4. CASE e.kind = "sample"
      BY <2>1, <2>4 DEF Verified, IsFiled
    <2>5. CASE e.kind = "section"
      BY <2>1, <2>5 DEF Verified, IsFiled, ReportOf
    <2> QED
      BY <2>1, <2>2, <2>3, <2>4, <2>5 DEF IsFiled
  <1> QED
    BY <1>1, InitLists, StepLists, InitFiled, StepFiled, PTL DEF SampleSpec

=============================================================================
