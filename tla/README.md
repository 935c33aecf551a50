# ShadowTrust: a verification project in TLA+

ShadowTrust is a honeypot platform. Sensors (Cowrie, Dionaea, Honeytrap) write
log files; a FastAPI backend tails them into MariaDB, derives detections and
incidents, streams everything to browsers, and runs virtual labs and disposable
analysis shells for its analysts. The core logic is the Python under
`src/backend/app/`; paths below are relative to it unless they start with
`src/`.

The backend is one process with one asyncio event loop, worker threads for
blocking calls, and half a dozen background loops started in `main.py:25-72`.
Handlers interleave at every `await`; threads interleave with everything; and
the process may end between any two steps. Transactions are MariaDB's
REPEATABLE READ: reads come from the snapshot of the first select, and the
deployed server refuses to overwrite a row that changed since (error 1020, which
`api/v1/endpoints/analysis_shell.py:81` names).

## 1. Inventory

**Telemetry collector** (`services/telemetry/{collector,local_source,fs_watch}.py`).
*State*: per file an inode, a size and a byte offset (`ingest_cursors`); the rows
themselves (`normalized_events`, mirrored in `raw_events`); the watcher's
"changed" flag. *Operations*: wait for a change or the 30-second sweep, load
cursors, walk the directory, read each file from its offset up to a cap, parse
complete lines, commit rows and cursors, publish, wake the detection loop.
*Hard*: logs rotate, truncate and are caught in mid-line; commits fail or succeed
unnoticed; the process ends anywhere. *Correct when* an offset never runs ahead
of the rows it vouches for, every complete line is ingested in the end, and the
live feed shows only committed events.

**Event bus and live streams** (`services/event_bus.py`,
`api/v1/endpoints/live.py`). *State*: subscribers with bounded queues, counters, a
buffer. *Operations*: publish (synchronous), subscribe, read with a heartbeat
timeout, leave. *Hard*: slow clients, a timeout racing a message, clients that
vanish. *Correct when* messages arrive in order and once, only the oldest are
dropped and each drop is counted, and dead subscribers leave.

**Detection engine** (`services/detection_engine.py`, `detection_rules.py`, the loop
in `main.py:123-149`). *State*: a cursor over `ingested_at`, detections with a
unique dedupe key, incidents with a unique number, linked events, indicators with
hit counts, sessions' totals. *Operations*: `run_cycle`, called by the loop and by
a validation run (`detection_validation.py:228`), without a lock. *Hard*: cycles
overlap, writers commit in another order than they stamped, stamps have whole
seconds, analysts close incidents meanwhile, cycles fail. *Correct when* every row
is examined exactly once, no wake-up is lost, one source has one open incident, and
whatever counts as examined has its evidence filed.

**Lab life cycle** (`services/session_manager.py`, `api/v1/endpoints/labs.py`,
`services/providers/`, `services/guacamole_service.py`). *State*:
`GLOBAL_LAB_STATE` with its state file, `vm_instances`, Docker containers,
Guacamole's connections. *Operations*: launch, wait for readiness in the background,
register a connection, stop, reattach, restart. *Hard*: stops overlap the readiness
worker, each other and reattachments; every outside call may fail; a restart forgets
the workers. *Correct when* a READY lab can be used, a TERMINATED one is gone, a
stopped one leaves no connection, and no lab waits for ever.

**Analysis Lab** (`services/analysis_shell.py`, `api/v1/endpoints/analysis_shell.py`,
`services/container_manager.py`, `main.py:91-114`). *State*: `analysis_sessions`,
containers, the reaper's memory of connections, terminals, events. *Operations*:
start (replacing the user's session), stop, reap, poll connections, record a
command, link an incident. *Hard*: they all write the same row from their own
snapshots; a start takes up to twenty seconds before its row is visible; errors are
swallowed. *Correct when* the limits hold, sandboxes do not outlive their session,
and commands and connections are recorded.

**Session engine** and **sync manager** (`services/session_engine.py`,
`sync_manager.py`). *State*: `raw_events` with their session and sync status,
`attacker_sessions`, `structured_events`. *Hard*: the session engine adds to a total
the detection engine overwrites; late events move `last_seen` back; one bad row fails
its whole batch; events are posted while a batch is on its way. *Correct when* an
event counts as synced exactly when its copy is stored.

**Data reset** (`services/data_admin.py`). *State*: a lock and a job record, all data
tables, the logs. *Hard*: it wipes cursors and rows under a running collector,
waiting five seconds for it; each of its steps may fail, after the sensors were
stopped. *Correct when* nothing from before the wipe is left or comes back, and the
sensors run again.

**Incident desk** (`api/v1/endpoints/incidents.py`, `timeline_builder.py`). *State*:
incidents, notes, indicators, links. *Hard*: each handler reads, computes and writes
absolutely beside detection cycles and other handlers. *Correct when* no analyst's
addition is lost and the timeline reaches what was linked.

**Detection validation** (`services/detection_validation.py`). *State*: one row per
run. *Hard*: it observes a window of whole seconds in which the loop's cycles, other
runs and outsiders are also at work, shares a detection with them, and never marks a
failed run. *Correct when* an attack that was examined is credited.

**Accounts and credentials** (`auth_service.py`, `credential_service.py`, `users.py`).
*State*: accounts, one-time links, the rows that keep an account from being deleted,
each administrator's rate. *Hard*: requests decide on a snapshot while others block,
delete or reissue. *Correct when* a link sets one password, and a block is lifted only
by somebody who saw it.

**Unified S3 pipeline** (`aws_telemetry_service.py`): the hosted variant of the
collector. *State*: a mark per object, rows with a unique signature, signatures in
memory. *Hard*: times in whole seconds on both sides, uploads during a read, pulls
beside polls, a fallback that inserts rows one by one. *Correct when* events are lost
in known ways only.

**AWS labs** (`providers/aws_provider.py`, `aws_orchestrator.py`): labs as EC2
instances found by their tags. *Hard*: API errors, lost answers, two stages of
readiness, stops meanwhile. *Correct when* no running instance is out of sight.

**Sample analysis and evidence** (`endpoints/malware.py`, the engines it calls,
`evidence_service.py`). *State*: two histories and a report store as JSON files, the
quarantine, evidence rows. *Hard*: the process ends between or in the writes; caps of
different length; several engines' findings become one verdict and, apart, one risk.
*Correct when* list and store agree, verdict and risk fit, and evidence verifies.

**MobSF service** (`src/backend/mobsf_service/`). *State*: the cached address, a
SQLite table, the container with its uploads. *Hard*: concurrent requests start the
container; it is stopped, removed or rebuilt; answers are lost. *Correct when* a saved
report is one a scan made.

**Event normaliser** (`services/telemetry/normalize.py`): pure, but for the clock. *Hard*:
each sensor's spelling of the same fields, lines without a usable time, lines read
twice. *Correct when* a line has one row however often it is read.

**Rule files** (`services/detection_rules.py`). *State*: a cache with the newest file
time. *Hard*: files written while they are read. *Correct when* the kept rules are
those of the files.

**Container status** (`services/container_status.py`, `api/v1/nodes.py`). *State*: a
cache of states, the previous counters, the sampled rates. *Hard*: counters start again
with a container, Docker does not always answer. *Correct when* what is shown is true.

The rest (reports, compliance, dashboards, behaviour scores, front end, scripts) has no
state of its own beyond a row per request. `PROJECT.json` lists every part with its
reason, and under `hazards` the places where the code is hardest to test.

How they interact: sensors -> log files -> collector -> `normalized_events` ->
detection engine -> incidents; the collector publishes to the bus and wakes the
detection loop; analysis shells write events into the same table and publish too; the
validation calls the detection engine; the reset tears down shells and truncates the
tables of all of them.

## 2. Plan

| | Modules | State |
|---|---|---|
| 1 | `Collector`, its promise `DurableFeed`, `CollectorProofs` | checked; type, cursors, resumption and refinement proved |
| 2 | `EventBus`, `EventBusProofs` | checked; type, order, recency and accounting proved |
| 3 | `DetectionEngine`, `DetectionEngineProofs` | checked; every invariant proved |
| 4 | `LabLifecycle`, `LabLifecycleProofs`; `CloudLabs` | checked; every invariant proved |
| 5 | `AnalysisShell`, `AnalysisShellProofs` | checked; every invariant proved |
| 6 | `IncidentDesk`, `IncidentDeskProofs`: the desk's handlers beside detection cycles | checked; `AdditionsKept` proved |
| 7 | `Accounts`, `AccountsProofs` | checked; `SingleUse` and `BlockHolds` proved |
| 8 | `SessionIntake` (session engine and sync manager), `PlatformReset` (with the transactions of the collector, the engine and analysts) | checked; proved in `ServicesProofs` |
| 9 | `S3Pipeline`, `SampleAnalysis`, `DetectionValidation`, `MobileScans`, `Normalizer`, `RuleBook`, `SensorMonitor` | checked; proved in `ServicesProofs` |
| 10 | `MCServices`: one instance of each service for TLC | the run `services` |

Every invariant and every action property that a passing run checks is also a theorem;
what is left to TLC alone is liveness. What would come next: an append-only examined
prefix as an abstract specification of `DetectionEngine`; an abstract lab, of which
`LabLifecycle` and `CloudLabs` are both refinements; more than one detection rule.

## 3. Modules

### Collector, DurableFeed, MCCollector

A file's content is a sequence of chunks; a line is one or more chunks, the last of
which carries its newline, so that a sensor can be caught in mid-line. Names,
formats and parsing are abstracted: an event is what a line says, and the normaliser
accepts it or not (`Unusable`).

| In the model | In the code |
|---|---|
| `Create`, `StartLine`, `ContinueLine`, `RotateOut`, `RotateTo`, `Truncate` | the sensors (external) |
| `Wake`, `Sweep`, `EmptyCycle`, `LoadCursors` | `fs_watch.py`, the collector's loop, `_load_cursors` |
| `Walk`, `ResolveOffset`, `SkipFile`, `SkipOversized`, `ConsumeLines`, `ReadFails`, `EndRead` | `local_source.py` |
| `Commit`, `CommitFails`, `CommitUnacknowledged`, `CycleFails`, `Publish` | `collector.py` `run_once` |
| `Crash` | the process ends and starts again |

`cursor[f].id` is history: which incarnation of a file an offset was read from. No
guard reads it; `CursorVouches` and the proofs do. `DurableFeed` is the promise:
events become durable, and only durable events appear live. `MCCollector` gives
lines their lengths, one for each case: short, long, longer than the cap, and noise.
`Intact` tells a log that was emptied in place, which keeps its inode, from one that was
replaced; the code cannot.

### EventBus

`Publish` is one step because it is synchronous. A stream's generator is a small
program (`check`, `parked`, `send`) whose `await`s are the points where others run;
the heartbeat's timeout is an action that competes with the message. A message is its
position in the log of all messages, which makes order a comparison of numbers.

### DetectionEngine

One threshold rule grouped by source stands for the rule set: what the properties
depend on is that matches come from a window, that a detection has a dedupe key of a
time bucket, and that it is filed under an incident. An event is "hot" when its
severity alone opens an incident. The "ip" indicator stands for all indicators. A
cycle is `Begin` (snapshot), `work` (what it read and will write) and a commit that
lands whole, is refused, or fails. `WholeSeconds` lets two rows share a stamp, as
`Column(DateTime)` does; `StaleRefused` is whether the server refuses stale writes
(MariaDB from 11.6.2, while `src/docker-compose.yml:205` pins only major version 11).
`ForceCycle` is the validation's call. Analysts close and reopen incidents at any
time. `MaxDisturbances` is one budget for forced cycles, failures and analysts.

### LabLifecycle

Actions are cut at the code's `await`s and thread calls: `Launch`, `Record`, `Insert`,
`FindReady` or `GiveUp`, `Register` or `Reject`, `Conclude` for a worker; `Stop`,
`WriteStopping`, `Revoke`, `Teardown`, `Settle`, `Close` for a stop; `Reattach`,
`Resolve`, `Reconnect`; `Restart`, which may find the state file half-written. A write
of the state file always follows a write of `GLOBAL_LAB_STATE` in the same step, so
one variable stands for both. The provider is Docker's. One lab is enough: labs
share nothing but the restart, the state file and connection numbers. `strays` and
`presumed` are history: which connections no later stop can find and why, and which
labs were called TERMINATED by a restart alone.

### AnalysisShell

Each handler is a transaction: it reads rows, acts on containers (which no rollback
undoes), and its commit is refused when a row it writes has changed since it read it
(`Stale`). A start's updates lock the rows it replaces (`Locked`) and its new row is
invisible until `CommitStart`. `ReapRead`/`Reap`, `Listed`, `Poll`, `Forget` are the
reaper's cycle; `fresh` says that a poll has committed, after which the next poll
writes with rows loaded before (sessions do not expire on commit) but in a
transaction that has read nothing. `Overstay` is the hard limit; being idle is a free
choice of `ReapRead`. `overlaps` and `leaked` are history.

### Accounts

A request is a transaction: `Begin` takes its snapshot and its authorisation, one of the
handlers commits or `Refuse` ends it. `Fresh` and `FreshToken` are the server's refusal
of stale writes (`StaleRefused`), `version` counts the writes of a row, deletions and
re-creations included. `SendCredentials` and `IssueCredentials` are the two halves of
`issue_credentials`, whose mail goes out before the commit. A link stands for its token;
`mailed` are the links that reached somebody, `forms` those for which the portal
offered to activate the account. `spent` is history: passwords set through a link.

### IncidentDesk

The handlers of `incidents.py` and the engine's correlation as transactions over the
same rows. Columns are written from the row that was read (`Mine`), numbers are a
count (`NextNumber`), and a row that does not change is not a conflict (`Update`). An
event is a source and a second; `Timeline` is `timeline_builder.py`'s selection.

### SessionIntake

`Ingest`; `StartMapping` and `CommitMapping`, the session engine's cycle, whose plan is a
fold over the rows in the order of their times; `StartSync` and `Push`, the sync
manager's; `Rewrite`, what the detection engine does to the newest session. An agent may
name a session nobody stored.

### PlatformReset

Tables hold the lines their rows come from. Transactions of the collector, the engine
and an analyst use tables one by one (`used`); `Truncate` waits for those that have
used its table, as MariaDB's metadata locks do. The job is cut at each of its steps,
each may fail (`FailJob`), and the finally clause starts the sensors. `overtaken` and `stranded`
are history: the wipe met a cycle with old lines; the sensors are down because the
process ended or Docker failed.

### S3Pipeline

`List`, `FetchObject` and `StorePoll` are the loop; `PullMark` and `PullStore` the two commits of a
pull on demand. A commit that fails falls back to `OneByOne`, without the marks. `known`
is history: events lost in one of the ways `Losses` names, each recorded in the action
that loses them.

### SampleAnalysis

The pipeline holds the event loop, so only the end of the process falls between its
writes: `UploadSample`, `Store` (the report), `ListSample` (the history), and `EndProcess`,
which may cut the file being written. The report store and the histories are sets of
entries ordered by the run that made them, which is the order in which the files list
them: a sample that has a report is not analysed again, so an entry that is replaced
goes to the newest end. What the engines find is any member of `Cases`; the verdict
and the score are computed from it as the code does. Evidence is prepared (`BeginFiling`,
`BeginPaper`) and committed or not; `Verified` is `verify_evidence`.

### DetectionValidation

Time passes in halves of a second, the database keeps whole ones. A run attacks, lets
the collector ingest, forces a cycle (which another may overtake), observes and
grades; `LoopCycle` is the loop's. All runs share one detection.

### CloudLabs

`LabLifecycle`'s life cycle over EC2, without the database row and Guacamole. Every API
call may fail, and `Launch` and `Terminate` may take effect and lose their answer. `unseen`
is history: instances the backend lost sight of in one of the ways the property names.

### MobileScans

A request finds the container's address (`Ask`, `Look`, `StartEngine`, `Run`, `AwaitEngine`), posts to it
(`PostUpload`, `PostScan`, `PostReport`, `AnswerLost`) and saves (`Save`). Flask serves
requests in threads, so two of them interleave; `StopEngine`, `RemoveEngine` and
`MobsfRestart` are the world. `MobsfScore` is `calculate_score`.

### Normalizer

`normalize.py` as operators over raw events that are functions from field names to
values: which parser takes an event, where address, port, type and time come from, the
verdicts, and the id. `ReadLine` stores the result under its id unless it is there, as
`INSERT IGNORE` does. `Words` says which words a type contains.

### RuleBook

`LoadRules` asks for the newest time and uses the cache or starts to read; `ReadFile` reads one
file; `Finish` keeps the rules with the time asked for first. Files are written, removed
and put back in between.

### SensorMonitor

`AskGrid` is the cached read of the states with the sensors' grid built from it;
`BeginRound`, `Find`, `Stats`, `SampleFails` and `Publish` are a round of the sampler, during
which containers change. `arrived` and `ran` are history: what was received since the
previous reading and when the sensor last ran.

### MCServices

The services share nothing, so one behaviour is one of one service, chosen at the start
(`service`); the others stand still. The run is their union, not their product. The
module extends those of the services, whose names are therefore all different, and
binds their constants in one configuration; `AnalysisShell`, with two analysts at the
limit of sessions, `Accounts` and `IncidentDesk` are among them.

## 4. Runs

| Run | Bounds | Shows |
|---|---|---|
| `rotation` | one log and one name to rotate to, lines of one chunk (noise), of two and of three (above the read cap of two), four chunks, three incarnations, truncation in place, one fault | nothing is passed over, offsets vouch for their content, the feed is durable, every line is ingested in the end |
| `starved` (violation) | two logs, a cap of one file per cycle | a changed file is never read |
| `bus` | two streams, two channels, queues of two, three messages | order, recency, accounting, and dead streams leave |
| `cycles` | one writer, three rows, the loop and a forced cycle, a limit of two, two disturbances | nothing skipped, lost, counted or linked twice; one open case per source; every row is examined in the end |
| `late` | two writers, whole seconds, events a tick late, stale writes let through, one disturbance | only rows committed behind the cursor are skipped; evidence is filed |
| `same_second` (violation) | one writer, whole seconds, two rows, no disturbance | a row in the cursor's second is never examined |
| `lab_stops` | one lab, two stops, two reattachments, three connections, a fault, a restart | the safety properties of labs, and that PROVISIONING and STOPPING end |
| `lab_late` (violation) | one lab, one stop, no fault, no restart | a stopped lab keeps a connection |
| `shell_records` | one session, two terminals, two commands, one connection, one crash | counts agree with records; expired sessions end |
| `shell_ticked` (violation) | one session, one terminal, two commands, one connection | a connection is ticked off and never recorded |
| `services` | see below | the property of each service |
| `invited` (violation) | two accounts, two links, two requests | an invitation that is opened can no longer be used |

The services of `services`, with the property each is checked for:

| Service | Bounds | Property |
|---|---|---|
| accounts | two accounts, two links, two requests at once, two in all | `SingleUse`, `BlockHolds` |
| desk | two tasks, two addresses, two notes, two seconds, two incidents | `AdditionsKept` |
| intake | three events, batches of one, two moments, one rewrite | `SyncedIsStructured` |
| reset | two lines, two transactions, one job | `ResetHolds` |
| s3 | one object, two events, one pull beside the loop, three seconds, four reads, one fault | `Losses` |
| samples | three samples, a store of two reports, a history of one, six findings, a crash | `AnalysesHold`, `EvidenceVerifies` |
| validation | two runs, two events, seven half-seconds, one failure | `AttackIsCredited` |
| clouds | one lab, two stops, three API faults, two restarts | `InstancesAreShown` |
| mobsf | one app, two requests, two ports, two reports, two troubles | `HistoryIsOfScans` |
| normalizer | ten kinds of lines, two ticks of the clock | `OneRowPerLine` |
| rules | two files, two writes, any number of removals and returns | `KeptIsCurrent` |
| monitor | one sensor, two changes, one refusal, two seconds | `ShownIsTrue` |
| shell | two analysts, two sessions, a limit of one, a fault | `LimitsHoldInTurn`, `OnlyKnownLeaks` |

Why the bounds are enough. Each hazard needs two or three actors and one disturbance:
a rotation during a read needs one log and two incarnations (three leave room for
the rotated file and its successor); a line that straddles a read needs two chunks and
a cap of two; queues of two overflow with three messages; two cycles overlap in every
way with three rows and a limit of two; the interleavings of a stop, a second stop, the
worker and two reattachments need one lab; `MaxConns` of three is never exhausted by
them. A link used twice, a block overtaken, a note lost each need two transactions, of
which the initial states provide the past: a link already mailed, an incident already
open. A late upload needs one object and one second in which mark and upload meet; a
report pushed out needs one sample more than the store holds. A rate over two lives of
a container needs two changes and one moment between two readings. In `shell_records`
two sessions would add the poll that writes with an old row; what it does to the event
counter is described in section 7. Deadlock is not checked where a model may rest:
bounds are used up, or the last request has ended.

In every passing run each property has a mutant in `PROJECT.json`: an operator marked
`Faulty` in the module, with a plausible mistake, under which the property fails.

## 5. Fairness

Only the program's own tasks are fair, and weakly: the event loop runs what is ready,
Docker and the database answer or fail, `wait_for` times out.

- `Collector`: each step of the cycle. The wait is `Wake \/ Sweep`: the sweep comes
  without any notification (`TELEMETRY_FALLBACK_SWEEP`, `collector.py`). Sensors
  and faults owe nothing.
- `EventBus`: a stream's generator; its heartbeat ends the wait for a message.
- `DetectionEngine`: the loop's cycle, its wait (which ends at the latest with the
  fallback tick) and the clearing of the wake-up. Forced cycles owe nothing.
- `LabLifecycle`: workers and stops; `wait_until_ready` has a deadline.
- `AnalysisShell`: the reaper, starts and stops. Terminals and analysts owe nothing.

The services of `MCServices` are checked for safety and for what a step may do, without
fairness.

Faults and restarts are bounded, so that "in the end" means once they cease. That is
why one failing transaction after another does not count as a counterexample.

## 6. Proofs

TLAPS checks these for every value of the constants, under the modules' named
assumptions (finitely many files, positive caps and line lengths, and the like).

**Collector.** `TypeCorrect` rests on `TypeInv`: beside `TypeOK`, every existing path is
listed once in the order of modification (`Listed`), identities of incarnations are
unique and not above the last given out (`Ids`), and files to read are files
(`Named`). `OffsetsAreSafe` proves `CursorVouches`. It is not inductive: a read starts
at an offset, and that its first line is whole depends on the offset being the end of
one. The strengthening `VouchInv` says that every content is made of whole lines and
at most one part (`MadeOfLines`), and that loaded, updated and saved cursors all vouch
for the content they name, the updated ones for the rows and the batch together. The
lemmas `NoPartialLine`, `OversizedLine`, `AppendLine` and `ConsumeVouches` say what
reading to the last newline does. `CollectorImplementsFeed` is the refinement of
`DurableFeed`, with the invariant that what is about to be published is stored.
`ResumesWhereItStopped` proves `NothingSkipped`, which is about the file at the path and
not the one the offset was read from. `HomeInv` says when the two are the same: an
inode that has left a path never comes back to it, because what is renamed stays in an
archive name, so a cursor with the path's inode was read from that very file unless it
was emptied in place (`Home`), and each path remembers the inodes it met (`Seen`). The
sensors' steps are first reduced to how they move the directory (`DirectoryMoves`).

**EventBus.** `BusTypeCorrect` includes the capacity of queues. `DeliveryInOrder` uses
`OrderInv`: what a stream has received, holds and has queued is increasing, in that
order, and below what was last published. `RecentActivity` (`NewestKept`) uses
`NewestInv`, about queues only. `LossesAreCounted` proves `Accounted`, a sum over the
streams. The library's induction rules are out of reach, so the sum is reasoned about by
a least counterexample: a function on the parts of a set that adds them up an element at
a time (`AddsUp`) exists, and how two such functions differ is shown on a smallest part
on which they would differ otherwise, which the well-founded order of the natural numbers
provides.

**DetectionEngine.** `EngineTypeCorrect` needs `EngineInv`: the plan each cycle is about
to write numbers its new incidents without a gap after those of its snapshot
(`PlanOK`), which is what the unique incident number enforces at the commit.
`WakeupsAreKept` (`NoLostWakeup`) uses `WakeInv`, about what the loop has seen in each
of its states. `CursorSkipsNothing` proves `NothingSkipped` for one writer and distinct
stamps, the conditions under which it is true: `CursorInv` says that rows are committed
in the order of their stamps (`InOrder`), that the cursor is the stamp of a
committed row, and that a cycle's batch is everything in its snapshot between the
cursor it read and its newest row. `OnlyLateSkipped` lifts the first condition and keeps
half of the second: with any writers, `OnlyLateRowsSkipped` holds if stamps are distinct
or no batch is ever cut at the limit, since a cut among equal stamps loses rows that
were not late. `EvidenceIsFiled` has no condition: `FilingInv` says that each cycle has
for every source an incident of its own, that of the source if it was there, and links
or is about to link what it has examined; on a server that lets stale writes through,
two cycles can both commit only if they opened no incident of the same number.
`EffectsHappenOnce` and `OneCaseEach` need `StaleRefused`: `SerialInv` says that as long
as the cursor is where a cycle found it, no other has committed since its snapshot, so
its counts, its links and its choice of open incidents are right (`SerialOK`); the
cursor's row is what the server would refuse to write twice.

**LabLifecycle.** `LabsGone` proves `TerminatedIsGone` with `LabInv`: what provisioning
has done so far (`Provisioned`) and that a container a stop removed does not come back
(`RemovedStays`). `LabsConnect` and `StraysOnly` share `ConnInv`: a connection id that a
lab's state or a request names is no other lab's (`Owned`), and every connection is the
one its lab names or a stray, once a stop has looked for them a stray for certain
(`Accounted`).

**AnalysisShell.** `ShellInv` has three parts. `Counted` ties the count in the row, and in
what each transaction has read of it, to the recorded events (`CountsAreRight`);
`LeakInv` says that what a start has taken down stays down until it commits
(`LeaksAreKnown`); `Admitted` bounds, for a start that was let in, every set of running
sessions it did not run beside, so that sessions which leave take nothing away from the
bound (`LimitsHold`).

**IncidentDesk.** `WhatAnalystsAddStays` proves `AdditionsKept`. `SnapshotOK` says that a
transaction's rows are those of now wherever the revision has not moved; a commit that is
not refused writes the row it read with more in it (`RowsGrow`), so nothing an analyst
was told is saved disappears, and the window and addresses of an incident only grow.
The property is about a server that refuses stale writes (`ConflictsRefused`): on one
that lets them through, the later of two notes written at once replaces the earlier.

**Accounts.** `BlocksHold` proves `BlockHolds` from `SnapInv`: no request's snapshot has
a newer version of a row than the table, and where the versions are the same the rows
are too (`Agrees`). A commit that is not refused therefore writes over the row it read.
`LinksWorkOnce` proves `SingleUse`, which is not inductive: it needs to know where a
link can be. `LinkInv` says that a link is in the table of tokens, in an account that
forgot its password, or in a request that mailed it and has not committed, in one of
them only and only once drawn (`Apart`), and that as long as it can still be used no
password was set through it (`Unspent`). Both are about the database the code is
written for, which refuses a commit over a changed row (`StaleRefused`); each step is
first reduced to what it does to the accounts (`UserStep`), to the links they hold
(`OtpsKept`) and to the requests (`Kept`).

**Services** (`ServicesProofs`, one part per module; no assumption beyond those named).
- `SyncMarksCopies`: `SyncInv` adds to `SyncedIsStructured` that a batch is of events
  that were posted, so that what is posted between its read and its commit is not in it
  and keeps its status.
- `ResetsHold`: `Progress` numbers the tables a reset has dealt with. Once it has waited
  without meeting an old cycle the collector has no old lines, once it has wiped the
  events the engine has none, and no table it has passed gets old rows again
  (`NothingOld`), because each is wiped before those made from it.
- `UploadsAreKept`: what a mark misses is stored, lost in a named way, or in the hand of
  a pull (`IsSafe`); what is remembered as seen is stored or lost (`RememberedIsKept`).
- `AnalysesFit`: the report of a listed sample disappears only after as many newer runs
  as the caps lie apart (`MissingIsOld`), and a report that is not listed is older than
  the whole list (`ReportsAreListed`); both are counts of sets of runs. `RisksFit` says
  that verdict and risk agree for every combination of findings, any number of VirusTotal
  engines included. `EvidenceCanBeVerified`: what is filed or about to be verifies.
- `AttacksAreCredited`: what was examined has a detection of its sender that fired no
  earlier (`Fired`), and what a run sent lies in its window (`Sent`), though both sides
  cut times to the second. `Recent`, how far an evaluation looks back, is any natural
  number of half-seconds.
- `CloudsAreShown`: a stop takes for gone only what is gone or what it could not look up
  (`StopsKnow`), and a lab is launched once (`ShownWasLaunched`).
- `OnlyScansAreSaved`: reports in the engine and on their way to the table were found by
  a scan of that app (`FoundByScan`, `GotByScan`).
- `LinesHaveOneRow`: the id of a row is a function of its line.
- `CacheIsCurrent`: what is kept, and what has been read so far, is older than some file
  or is what the directory holds, unless a file was removed or put back (`KeptHolds`,
  `LoadingHolds`).
- `SensorsShownTruly`: what a running container has received came before the last
  reading or has been counted since (`Received`); what is listed as running ran when the
  list was made (`RanWhenListed`). The TTL is positive, as in the code: with none, a list
  would be out of date when it is made.

**Only model-checked.** Liveness (`EveryLineIngested`, `DeadStreamsLeave`,
`EventuallyExamined`, `LabsSettle`, `ExpiredIsReaped`) is out of the prover's reach: the
proofs would need `ENABLED` for the fair actions and induction over data that shrinks.
TLC checks it within the bounds of section 4.

## 7. What was found

Five runs end in a violation, each of something the repository says of itself; the
findings in `PROJECT.json` quote it.

- `starved`: with more files than `MAX_FILES_PER_CYCLE`, the collector looks at the
  least recently modified ones only, so a busy log is never read (`local_source.py:158`).
- `same_second`: the detection cursor's strict comparison skips rows stored in the
  cursor's second (`detection_engine.py:491`).
- `lab_late`: a stop that overlaps the readiness worker leaves a Guacamole connection
  behind (`session_manager.py:190`).
- `shell_ticked`: a connection is remembered before it is recorded, and lost when the
  commit is refused (`analysis_shell.py:261`).
- `invited`: the portal's page asks whether an invitation is valid when it is opened;
  the question uses the link up, and the activation it then offers is refused
  (`credential_service.py:487`, `src/frontend/login.html:239`).

Others were met while modelling and are described by what the passing properties
leave out, or as hazards, without a run of their own:

- A log truncated in place that regrows past its offset is continued in the middle
  (`NothingSkipped` and `EveryLineIngested` are about logs that are `Intact`).
- Two writers may commit in the other order than they stamped (`OnlyLateRowsSkipped`
  names exactly these rows).
- Overlapping starts give an analyst two shells (`LimitsHoldInTurn` excepts them).
- A sandbox that comes up after its start has given up is never reaped
  (`OnlyKnownLeaks` excepts sessions in "error").
- A command whose row was written meanwhile is refused, and lost with its terminal.
- The reaper's second poll may set a session's event counter back.
- A lab in STOPPING when the backend restarts stays there (`LabsSettle` excepts it).
- Where the server lets stale writes through, overlapping cycles link an event twice
  and may give a source two open cases (`EffectsOnce` and `OneCase` need `StaleRefused`;
  a cycle that stalls between its read and its commit writes over a case that was closed
  meanwhile).

- *Accounts.* `issue_credentials` mails a temporary password it never stores. The entry
  `RATE_LIMITED` is never committed. Two concurrent requests may exceed the rate of 20
  an hour. An account that was approved or issued a link cannot be deleted, since access
  logs refer to it. A root that is no longer `SUPER_ADMIN` while nobody else is makes
  `_seed_admin` fail at the next start (`Restart` has no step for it). Activation
  leaves the link's audit status at GENERATED.
- *Incident desk.* The engine sets `first_seen` to the time of the cycle, so the events
  it links lie before the window. Two updates in the same second may not conflict, so an
  indicator can be added twice. `create_incident` does not remove duplicate indicators.
  The timeline shows the first 400 events of its sweep.
- *Reset.* What an analyst links to an incident between the wipes is left without its
  incident. A process that ends inside a reset leaves the sensors stopped. With S3 as the
  source, marks are wiped and objects are not, so old events come back.
- *S3.* Objects that are never marked, like files of another type, count among the 250
  newest candidates and can starve older ones. The feed's cache shows events before they
  are committed, and keeps them when they are not.
- *Samples and evidence.* A text of more than 8000 characters never verifies. A stream to
  clamd is cut at 64 MB while uploads may have 100. A sample whose upload ended between
  the two files is never listed, and later uploads answer from the store. A store that
  was cut reads as empty, and the next report replaces it. A sample called CLEAN can be
  CRITICAL in risk, by a YARA match.
- *Validation.* A run whose attack never started is graded like any other and passes on
  others' traffic. A forced cycle that the loop's overtakes is passed over, and the run
  may fail for it. A run that is "running", for ever if its request failed, hides the
  earlier result.
- *Cloud labs.* A stop that cannot look an instance up calls it terminated. A launch
  whose answer is lost leaves an instance nobody knows. A restart calls every active lab
  terminated. A lab whose tags failed is offered with Kali's credentials.
- *MobSF.* The cached address is never checked again. Of two requests that start the
  container, one fails. "warning" and "info" count as LOW. Uploads to a container that was
  rebuilt are still offered and cannot be scanned. A failed upload leaves its temporary file.
- *Intake.* An event that names a session nobody stored fails its batch in every cycle. A
  late event continues the newest session, whatever its age, and moves `last_seen` back.
  Two sessions that open in the same second share an id, and no cycle succeeds after it.
- *Normaliser.* A placeholder in the preferred spelling of a field hides an address in
  another. Identical lines without a time of their own are one row. Dionaea's logins carry
  no result and stay LOW.
- *Rules.* A file that is removed, or comes with an older time, stays in force or is
  passed over until another is written: `detection_rules.py:224` says otherwise of every
  change; `KeptIsCurrent` excepts these two.
- *Monitor.* A container that is removed while Docker lists them makes all sensors
  "unavailable". Rates and states are read apart and may disagree.

## 8. Not modelled

Reports and compliance, dashboards and analytics, behaviour scores: read-only queries
and layouts. URL scans, the health page, honeypot triggers, the cost and read-only
pages of AWS: no state outlives the request. The front end, beyond what its sign-in page
asks. The wording of rules, detections and mails; passwords and token formats; the
container policy's checks of arguments; regular expressions, geography and the numeric
scores of the static engines (any finding is a member of a small set). In the modelled
parts: row-lock timeouts (a lock is released when its holder ends), the order in which a
transaction's statements reach the server, the 24-hour buffer of recent events, the
single-use tickets of event streams, and a change of bucket at run time.
