--------------------------- MODULE DetectionEngine ---------------------------
(***************************************************************************)
(* Detection and correlation: a cursor over the stored events, a rule, and *)
(* the incidents its detections are filed under.                           *)
(*                                                                         *)
(*   services/detection_engine.py      run_cycle and what it calls         *)
(*   main.py                           the loop that wakes it              *)
(*   services/detection_validation.py  the other caller of run_cycle       *)
(*                                                                         *)
(* The rule is a threshold rule grouped by source_ip.  A row is its        *)
(* position in rows.  A cycle is one transaction: run_cycle reads from the *)
(* snapshot of its first select, and what it writes lands at its commit.   *)
(***************************************************************************)
EXTENDS Integers, Sequences, FiniteSets, FiniteSetsExt

CONSTANTS
  Writers,          \* what stores events: "collector" and analysis shells
  Cycles,           \* callers of run_cycle: "loop" and validation runs
  Sources,          \* source addresses
  Lags,             \* how long before it is ingested an event may have happened
  Limit,            \* rows a cycle takes, 3000 in the code
  Threshold,        \* matching events the rule asks for
  Timeframe,        \* the rule's window, and the width of its dedupe bucket
  IncidentWindow,   \* how long an open incident takes new activity
  WholeSeconds,     \* ingested_at keeps seconds, so that two may be equal
  StaleRefused,     \* a write to a row changed since the snapshot is an error
  MaxRows,          \* bound on the events stored
  MaxDisturbances   \* bound on forced cycles, failures and analysts' edits

ASSUME ActorsAssumption ==
  /\ "collector" \in Writers
  /\ "loop" \in Cycles
  /\ IsFiniteSet(Sources)

ASSUME NumbersAssumption ==
  /\ Lags \subseteq Nat
  /\ {Limit, Threshold, Timeframe} \subseteq Nat \ {0}
  /\ {IncidentWindow, MaxRows, MaxDisturbances} \subseteq Nat
  /\ {WholeSeconds, StaleRefused} \subseteq BOOLEAN

VARIABLES
  clock,
  rows,         \* every event stamped so far: source, kind, times, writer
  pending,      \* rows of each writer's open transaction
  committed,    \* normalized_events
  notifying,    \* the collector has committed and not yet called its listener
  cursor,       \* system_config['detection_cursor'], 0 when there is none
  detections,
  incidents,    \* by incident_key
  links,        \* incident_events: incident and row
  twice,        \* links that were inserted a second time (history)
  hits,         \* hit_count of each source's "ip" indicator
  totals,       \* attacker_sessions.total_events of "sess-<ip>", 0 when absent
  wakeup,       \* main.detection_wakeup
  pc,           \* where each caller of run_cycle is
  work,         \* what a cycle read and is about to write
  seen,         \* rows in the snapshot of the loop's last cycle (history)
  examined,     \* rows that were new to a cycle that committed (history)
  late,         \* rows committed behind a cursor already chosen (history)
  disturbances

store == <<cursor, detections, incidents, links, twice, hits, totals, examined>>
writing == <<clock, rows, pending, committed, notifying, late>>
running == <<wakeup, pc, work, seen>>
vars == <<store, writing, running, disturbances>>

-----------------------------------------------------------------------------
(* Rows.                                                                   *)

From(ip) == {r \in committed : rows[r].ip = ip}
IpsOf(S) == {rows[r].ip : r \in S}

(* Faulty: the newest row there is, taken by the cycle or not.             *)
NewestStored(S) == Max({rows[r].at : r \in committed})

Newest(S) == Max({rows[r].at : r \in S})

(* The cursors that exist or are about to.                                 *)
Chosen == {cursor} \cup {Newest(work[c].new) : c \in {d \in Cycles : pc[d] = "work"}}

(* to_normalized_row: the stamp is taken before the insert and the commit. *)
Stamp(w) ==
  /\ Len(rows) < MaxRows
  /\ ~ (w = "collector" /\ notifying)
  /\ \E ip \in Sources, hot \in BOOLEAN, lag \in Lags,
        t \in (IF WholeSeconds THEN {clock, clock + 1} ELSE {clock + 1}) :
       /\ clock' = t
       /\ rows' = Append(rows, [ip |-> ip, hot |-> hot, at |-> t, time |-> t - lag, by |-> w])
  /\ pending' = [pending EXCEPT ![w] = @ \cup {Len(rows')}]
  /\ UNCHANGED <<store, committed, notifying, late, running, disturbances>>

CommitRows(w) ==
  /\ pending[w] # {}
  /\ committed' = committed \cup pending[w]
  /\ late' = late \cup {r \in pending[w] : \E t \in Chosen : rows[r].at <= t}
  /\ pending' = [pending EXCEPT ![w] = {}]
  /\ notifying' = (notifying \/ w = "collector")
  /\ UNCHANGED <<store, clock, rows, running, disturbances>>

(* The listener main.py adds to the collector.  Shells have none.          *)
Notify ==
  /\ notifying
  /\ notifying' = FALSE
  /\ wakeup' = TRUE
  /\ UNCHANGED <<store, clock, rows, pending, committed, late, pc, work, seen, disturbances>>

-----------------------------------------------------------------------------
(* What a cycle reads.                                                     *)

(* Faulty: >= instead of >.                                                *)
FreshAgain == {r \in committed : rows[r].at >= cursor}

(* Rows ingested_at > cursor, the oldest first; ties are cut anywhere.     *)
Fresh == {r \in committed : rows[r].at > cursor}

Batches ==
  {N \in SUBSET Fresh :
     /\ Cardinality(N) <= Limit
     /\ N = Fresh \/ Cardinality(N) = Limit
     /\ \A r \in N, s \in Fresh \ N : rows[r].at <= rows[s].at}

(* evaluate_rule for one group.                                            *)
Recent(ip) == {r \in From(ip) : rows[r].time >= clock - Timeframe}

Matched(ip) ==
  LET hit == {r \in Recent(ip) : ~ rows[r].hot}
  IN  IF Cardinality(hit) >= Threshold THEN hit ELSE {}

Fires(ip) == Matched(ip) # {} /\ \E r \in Recent(ip) : rows[r].at > cursor

LastOf(ip) == Max({rows[r].time : r \in Matched(ip)})
Bucket(t) == t \div Timeframe

Raised(ip, bucket) == \E d \in detections : d.ip = ip /\ d.bucket = bucket

(* The sources with a new detection, and those that need an incident.      *)
Alerts(N) == {ip \in IpsOf(N) : Fires(ip) /\ ~ Raised(ip, Bucket(LastOf(ip)))}
Repeats(N) == {ip \in IpsOf(N) : Fires(ip)} \ Alerts(N)
Cases(N) == Alerts(N) \cup IpsOf({r \in N : rows[r].hot})

(* _correlate: the open incident of the source with recent activity.       *)
IsOpen(i) == incidents[i].status # "closed"

Current(ip) ==
  {i \in DOMAIN incidents :
     incidents[i].ip = ip /\ IsOpen(i) /\ incidents[i].seen >= clock - IncidentWindow}

(* Faulty: each cycle opens an incident of its own.                        *)
OpeningAlways(S) == S

Opening(S) == {ip \in S : Current(ip) = {}}

(* The incident of each source: the latest one, or the next number.        *)
Targets(S) ==
  {f \in [S -> 1 .. Len(incidents) + Cardinality(S)] :
     /\ \A ip \in S \ Opening(S) :
          /\ f[ip] \in Current(ip)
          /\ \A i \in Current(ip) : incidents[i].seen <= incidents[f[ip]].seen
     /\ {f[ip] : ip \in Opening(S)} =
          Len(incidents) + 1 .. Len(incidents) + Cardinality(Opening(S))}

(* Faulty: a detection's own events are taken for all there is to file.    *)
EvidenceOfAlert(N, ip) ==
  IF ip \in Alerts(N) THEN Matched(ip) ELSE {r \in N : rows[r].ip = ip /\ rows[r].hot}

Evidence(N, ip) ==
  (IF ip \in Alerts(N) THEN Matched(ip) ELSE {})
    \cup {r \in N : rows[r].ip = ip /\ rows[r].hot}

NewLinks(N, f) == (UNION {{f[ip]} \X Evidence(N, ip) : ip \in DOMAIN f}) \ links

Plan(N, f) ==
  [ new      |-> N,
    now      |-> clock,
    base     |-> cursor,
    before   |-> incidents,
    target   |-> f,
    raised   |-> {[ip |-> ip, bucket |-> Bucket(LastOf(ip)), last |-> LastOf(ip),
                   matched |-> Matched(ip), incident |-> f[ip]] : ip \in Alerts(N)},
    repeated |-> {[ip |-> ip, bucket |-> Bucket(LastOf(ip)), last |-> LastOf(ip)] :
                   ip \in Repeats(N)},
    links    |-> NewLinks(N, f),
    hits     |-> [ip \in Sources |-> hits[ip] + Cardinality({r \in N : rows[r].ip = ip})],
    totals   |-> [ip \in Sources |-> Cardinality(From(ip))],
    unknown  |-> {ip \in IpsOf(N) : totals[ip] = 0} ]

NoPlan ==
  [ new |-> {}, now |-> 0, base |-> 0, before |-> <<>>, target |-> <<>>, raised |-> {},
    repeated |-> {}, links |-> {}, hits |-> [ip \in Sources |-> 0],
    totals |-> [ip \in Sources |-> 0], unknown |-> {} ]

-----------------------------------------------------------------------------
(* The cycle.                                                              *)

Ended(c) == IF c = "loop" THEN "wait" ELSE "idle"

Look(c) == seen' = IF c = "loop" THEN committed ELSE seen

(* No new rows: run_cycle returns at once.                                 *)
NothingNew(c) ==
  /\ pc[c] = "start"
  /\ Fresh = {}
  /\ pc' = [pc EXCEPT ![c] = Ended(c)]
  /\ Look(c)
  /\ UNCHANGED <<store, writing, wakeup, work, disturbances>>

Read(c) ==
  /\ pc[c] = "start"
  /\ Fresh # {}
  /\ \E N \in Batches : \E f \in Targets(Cases(N)) :
       work' = [work EXCEPT ![c] = Plan(N, f)]
  /\ pc' = [pc EXCEPT ![c] = "work"]
  /\ Look(c)
  /\ UNCHANGED <<store, writing, wakeup, disturbances>>

(* A unique key of this cycle's inserts is taken: dedupe_key, incident_key, *)
(* the cursor's row, the session's id.                                     *)
Duplicate(w) ==
  \/ \E d \in w.raised : Raised(d.ip, d.bucket)
  \/ \E ip \in DOMAIN w.target : w.target[ip] \in Len(w.before) + 1 .. Len(incidents)
  \/ w.base = 0 /\ cursor # 0
  \/ \E ip \in w.unknown : totals[ip] # 0

(* A row this cycle updates was changed after its snapshot.                *)
Stale(w) ==
  \/ cursor # w.base
  \/ \E ip \in DOMAIN w.target :
       w.target[ip] \in DOMAIN w.before /\ incidents[w.target[ip]] # w.before[w.target[ip]]

Refused(w) == Duplicate(w) \/ (StaleRefused /\ Stale(w))

(* update(Detection) ... where last_event_at < the candidate's.            *)
FiredAgain(d, R) ==
  IF \E k \in R : k.ip = d.ip /\ k.bucket = d.bucket /\ k.last > d.last
  THEN [d EXCEPT !.last = (CHOOSE k \in R : k.ip = d.ip).last]
  ELSE d

(* Faulty: a new incident is not added to the session.                     *)
FiledNotAdded(w) ==
  [i \in DOMAIN incidents |->
     IF \E ip \in DOMAIN w.target : w.target[ip] = i
     THEN [incidents[i] EXCEPT !.seen = w.now] ELSE incidents[i]]

Filed(w) ==
  [i \in 1 .. Max({Len(incidents)} \cup {w.target[ip] : ip \in DOMAIN w.target}) |->
     IF \E ip \in DOMAIN w.target : w.target[ip] = i
     THEN [ip |-> CHOOSE ip \in DOMAIN w.target : w.target[ip] = i,
           status |-> IF i \in DOMAIN incidents THEN incidents[i].status ELSE "open",
           seen |-> w.now]
     ELSE incidents[i]]

Written(now, old, S) == [ip \in Sources |-> IF ip \in S THEN now[ip] ELSE old[ip]]

(* Faulty: the wake-up is cleared after the cycle, not before it.          *)
FinishClears(c) ==
  /\ pc' = [pc EXCEPT ![c] = Ended(c)]
  /\ work' = [work EXCEPT ![c] = NoPlan]
  /\ wakeup' = (wakeup /\ c # "loop")
  /\ UNCHANGED <<writing, seen>>

Finish(c) ==
  /\ pc' = [pc EXCEPT ![c] = Ended(c)]
  /\ work' = [work EXCEPT ![c] = NoPlan]
  /\ UNCHANGED <<writing, wakeup, seen>>

CommitCycle(c) ==
  LET w == work[c]
  IN  /\ pc[c] = "work"
      /\ ~ Refused(w)
      /\ detections' = {FiredAgain(d, w.repeated) : d \in detections} \cup w.raised
      /\ incidents' = Filed(w)
      /\ links' = links \cup w.links
      /\ twice' = twice \cup (links \cap w.links)
      /\ hits' = Written(w.hits, hits, IpsOf(w.new))
      /\ totals' = Written(w.totals, totals, IpsOf(w.new))
      /\ cursor' = Newest(w.new)
      /\ examined' = examined \cup w.new
      /\ Finish(c)
      /\ UNCHANGED disturbances

(* The exception rolls the cycle back; its caller prints or ignores it.    *)
RollBack(c) ==
  /\ pc[c] = "work"
  /\ Finish(c)
  /\ UNCHANGED store

Abort(c) ==
  /\ Refused(work[c])
  /\ RollBack(c)
  /\ UNCHANGED disturbances

-----------------------------------------------------------------------------
(* background_detection_loop between two cycles.                           *)

(* Woken: the loop sleeps on for the debounce.                             *)
Woken ==
  /\ pc["loop"] = "wait"
  /\ wakeup
  /\ pc' = [pc EXCEPT !["loop"] = "debounce"]
  /\ UNCHANGED <<store, writing, wakeup, work, seen, disturbances>>

(* Faulty: the wait has no timeout.                                        *)
ClearWhenWoken ==
  /\ pc["loop"] = "debounce"
  /\ wakeup' = FALSE
  /\ pc' = [pc EXCEPT !["loop"] = "start"]
  /\ UNCHANGED <<store, writing, work, seen, disturbances>>

(* detection_wakeup.clear(), after the debounce or when the wait timed out. *)
Clear ==
  /\ pc["loop"] \in {"wait", "debounce"}
  /\ wakeup' = FALSE
  /\ pc' = [pc EXCEPT !["loop"] = "start"]
  /\ UNCHANGED <<store, writing, work, seen, disturbances>>

-----------------------------------------------------------------------------
(* Disturbances.                                                           *)

Disturb ==
  /\ disturbances < MaxDisturbances
  /\ disturbances' = disturbances + 1

(* run_scenario forces a cycle.                                            *)
ForceCycle(c) ==
  /\ Disturb
  /\ pc[c] = "idle"
  /\ pc' = [pc EXCEPT ![c] = "start"]
  /\ UNCHANGED <<store, writing, wakeup, work, seen>>

(* The database fails, or is locked too long.                              *)
Fail(c) == Disturb /\ RollBack(c)

Restart ==
  /\ Disturb
  /\ pc' = [c \in Cycles |-> IF c = "loop" THEN "start" ELSE "idle"]
  /\ work' = [c \in Cycles |-> NoPlan]
  /\ pending' = [w \in Writers |-> {}]
  /\ notifying' = FALSE
  /\ wakeup' = FALSE
  /\ UNCHANGED <<store, clock, rows, committed, late, seen>>

(* patch_incident: an analyst closes an incident, or reopens it.           *)
SetStatus(i) ==
  /\ Disturb
  /\ incidents' = [incidents EXCEPT ![i].status = IF IsOpen(i) THEN "closed" ELSE "reopened"]
  /\ UNCHANGED <<cursor, detections, links, twice, hits, totals, examined, writing, running>>

-----------------------------------------------------------------------------
Init ==
  /\ clock = 0
  /\ rows = <<>>
  /\ pending = [w \in Writers |-> {}]
  /\ committed = {}
  /\ notifying = FALSE
  /\ cursor = 0
  /\ detections = {}
  /\ incidents = <<>>
  /\ links = {}
  /\ twice = {}
  /\ hits = [ip \in Sources |-> 0]
  /\ totals = [ip \in Sources |-> 0]
  /\ wakeup = FALSE
  /\ pc = [c \in Cycles |-> IF c = "loop" THEN "start" ELSE "idle"]
  /\ work = [c \in Cycles |-> NoPlan]
  /\ seen = {}
  /\ examined = {}
  /\ late = {}
  /\ disturbances = 0

RunCycle(c) == NothingNew(c) \/ Read(c) \/ CommitCycle(c) \/ Abort(c)

Next ==
  \/ \E w \in Writers : Stamp(w) \/ CommitRows(w)
  \/ Notify
  \/ \E c \in Cycles : RunCycle(c) \/ ForceCycle(c) \/ Fail(c)
  \/ Woken \/ Clear \/ Restart
  \/ \E i \in DOMAIN incidents : SetStatus(i)

(* The event loop runs what is ready and wait_for has a timeout.           *)
Fairness == WF_vars(RunCycle("loop") \/ Woken \/ Clear)

Spec == Init /\ [][Next]_vars /\ Fairness

-----------------------------------------------------------------------------
(* Properties.                                                             *)

Row == [ip : Sources, hot : BOOLEAN, at : Nat, time : Int, by : Writers]
Incident == [ip : Sources, status : {"open", "closed", "reopened"}, seen : Nat]

(* Every variable keeps its type, and only stored rows are referred to.    *)
TypeOK ==
  /\ clock \in Nat
  /\ rows \in Seq(Row)
  /\ pending \in [Writers -> SUBSET DOMAIN rows]
  /\ {committed, seen, examined, late} \subseteq SUBSET DOMAIN rows
  /\ {notifying, wakeup} \subseteq BOOLEAN
  /\ cursor \in Nat
  /\ incidents \in Seq(Incident)
  /\ links \subseteq (DOMAIN incidents) \X (DOMAIN rows)
  /\ {hits, totals} \subseteq [Sources -> Nat]
  /\ pc \in [Cycles -> {"idle", "start", "work", "wait", "debounce"}]
  /\ disturbances \in 0 .. MaxDisturbances

(* The cursor never passes a stored row that no cycle has examined.        *)
NothingSkipped ==
  \A r \in committed : rows[r].at <= cursor => r \in examined

(* A row the cursor passed unexamined was committed with a stamp that a    *)
(* cycle had already moved the cursor to, or was about to.                 *)
OnlyLateRowsSkipped ==
  \A r \in committed : rows[r].at <= cursor => r \in examined \/ r \in late

(* While the loop waits with its wake-up clear, every row the collector    *)
(* has announced was in the snapshot of the loop's last cycle: an          *)
(* announcement that comes during a cycle or the debounce is not lost.     *)
NoLostWakeup ==
  pc["loop"] = "wait" /\ ~ wakeup =>
    \A r \in committed : rows[r].by = "collector" => r \in seen \/ notifying

(* A source has one open case: two cycles that both find none do not open  *)
(* two, and only an analyst who reopens an incident makes a second.  (A    *)
(* server that lets stale writes through lets a cycle that is older than   *)
(* IncidentWindow bring an old case back beside its successor.)            *)
OneCase ==
  \A ip \in Sources : \A i, j \in Current(ip) :
    incidents[i].status = "open" /\ incidents[j].status = "open" => i = j

(* What an analyst must see is filed when its rows count as examined: a    *)
(* high-risk row is in an incident of its source, and a detection is in an *)
(* incident of its source with every event it matched.                     *)
EvidenceFiled ==
  /\ \A r \in examined :
       rows[r].hot => \E i \in DOMAIN incidents : <<i, r>> \in links /\ incidents[i].ip = rows[r].ip
  /\ \A d \in detections :
       /\ d.incident \in DOMAIN incidents /\ incidents[d.incident].ip = d.ip
       /\ \A r \in d.matched : <<d.incident, r>> \in links

(* A row has its effect once, however cycles overlap: the hit count of an  *)
(* address is the number of its rows examined, none counted by two cycles  *)
(* or written over by another, and no incident lists an event twice.       *)
EffectsOnce ==
  /\ \A ip \in Sources : hits[ip] = Cardinality({r \in examined : rows[r].ip = ip})
  /\ twice = {}

(* Every stored row is examined, whatever fails in between.                *)
EventuallyExamined ==
  \A r \in 1 .. MaxRows : r \in committed ~> r \in examined
=============================================================================
