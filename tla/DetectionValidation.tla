------------------------ MODULE DetectionValidation -------------------------
(***************************************************************************)
(* Running attack scenarios against the platform itself and grading what   *)
(* was detected (services/detection_validation.py,                         *)
(* endpoints/soc_testing.py), beside the collector, the detection loop and *)
(* attackers from outside.                                                 *)
(*                                                                         *)
(* All scenarios expect the one rule of the model; the attacks of all runs *)
(* come from one address and fall into one bucket, so they share a         *)
(* detection.  Time passes in halves of a second; the database keeps whole *)
(* seconds.                                                                *)
(***************************************************************************)
EXTENDS Naturals, FiniteSets

CONSTANTS
  ScenarioRuns, \* runs administrators start
  Recent,       \* ticks an evaluation looks back
  LastTick,     \* bound on the clock
  MaxEvents,    \* bound on the events
  MaxFailures   \* bound on failing steps and restarts

ASSUME ValidationAssumption == Recent \in Nat

VARIABLES
  tick,      \* the clock
  run,       \* ScenarioRun, with the step the request is at
  traffic,   \* events: who sent them and when, in whole seconds
  ingested,  \* events in normalized_events
  examined,  \* events a committed cycle has examined
  detection, \* detections: when created and last fired, by who is detected
  failures   \* failures so far

validationVars == <<tick, run, traffic, ingested, examined, detection, failures>>

Senders == {"scenario", "outsider"}
Seconds(t) == t - (t % 2)
NoDetection == [created |-> 0, last |-> 0]
NoRun == [status |-> "none", step |-> "none", mode |-> "none", since |-> 0, sent |-> {},
          read |-> {}, before |-> {}, result |-> "none"]

LatestOf(E) == CHOOSE t \in {e.at : e \in E} : \A e \in E : e.at <= t

-----------------------------------------------------------------------------
(* A detection cycle, as far as a validation can tell: events of a sender  *)
(* nobody examined raise its detection or refresh it.                      *)
Detected(E) ==
  [s \in Senders |->
     LET new == {e \in E : e.by = s}
     IN  IF new = {} THEN detection[s]
         ELSE IF detection[s] = NoDetection
              THEN [created |-> Seconds(tick), last |-> LatestOf(new)]
              ELSE [detection[s] EXCEPT !.last = IF LatestOf(new) > @ THEN LatestOf(new) ELSE @]]

Examine(E) == detection' = Detected(E \ examined) /\ examined' = examined \cup E

(* A cycle is refused when another one has committed since it began.       *)
Overtaken(cycle) == examined # cycle.before

(* The loop's cycle: refused it changes nothing, and what is ingested      *)
(* during it is left for the next.                                         *)
LoopCycle ==
  /\ Examine(ingested)
  /\ UNCHANGED <<tick, run, traffic, ingested, failures>>

-----------------------------------------------------------------------------
(* run_scenario.                                                           *)

RunAt(r, step) == run[r].step = step

(* Faulty: the window begins where the run does.                           *)
WindowExact(mode) == IF mode = "execute" THEN tick ELSE tick - Recent

(* Events are kept to the second: an attack's window begins a second       *)
(* before the second of its start.                                         *)
WindowStart(mode) == IF mode = "execute" THEN Seconds(tick) - 2 ELSE tick - Recent

(* The run is committed as running before anything else.                   *)
StartRun(r, mode) ==
  /\ run[r].status = "none"
  /\ run' = [run EXCEPT ![r] = [NoRun EXCEPT !.status = "running", !.mode = mode,
                                             !.since = WindowStart(mode),
                                             !.step = IF mode = "execute" THEN "attack"
                                                      ELSE "observe"]]
  /\ UNCHANGED <<tick, traffic, ingested, examined, detection, failures>>

(* The attacker container; without it the run goes on.                     *)
Attack(r) ==
  /\ RunAt(r, "attack")
  /\ \/ /\ Cardinality(traffic) < MaxEvents
        /\ LET e == [by |-> "scenario", at |-> Seconds(tick), run |-> r]
           IN  traffic' = traffic \cup {e} /\ run' = [run EXCEPT ![r].step = "settle",
                                                                 ![r].sent = {e}]
        /\ UNCHANGED failures
     \/ /\ failures < MaxFailures /\ failures' = failures + 1
        /\ run' = [run EXCEPT ![r].step = "settle"]
        /\ UNCHANGED traffic
  /\ UNCHANGED <<tick, ingested, examined, detection>>

(* After the settling time the run forces a cycle of its own.              *)
ForceCycle(r) ==
  /\ RunAt(r, "settle")
  /\ run' = [run EXCEPT ![r].step = "cycle", ![r].read = ingested,
                        ![r].before = examined]
  /\ UNCHANGED <<tick, traffic, ingested, examined, detection, failures>>

(* Whatever the cycle raises is passed over.                               *)
CycleEnds(r) ==
  /\ RunAt(r, "cycle")
  /\ \/ ~ Overtaken(run[r]) /\ Examine(run[r].read) /\ UNCHANGED failures
     \/ Overtaken(run[r]) /\ UNCHANGED <<examined, detection, failures>>
     \/ /\ failures < MaxFailures /\ failures' = failures + 1
        /\ UNCHANGED <<examined, detection>>
  /\ run' = [run EXCEPT ![r].step = "observe", ![r].read = {}, ![r].before = {}]
  /\ UNCHANGED <<tick, traffic, ingested>>

(* _observe: whoever set off the rule.                                     *)
Observed(t) ==
  \E s \in Senders : /\ detection[s] # NoDetection
                     /\ detection[s].created >= t \/ detection[s].last >= t

(* _grade, for a scenario that expects the rule.                           *)
Grade(r) ==
  /\ RunAt(r, "observe")
  /\ run' = [run EXCEPT ![r].step = "done", ![r].status = "complete",
                        ![r].result = IF Observed(run[r].since) THEN "PASS" ELSE "FAIL"]
  /\ UNCHANGED <<tick, traffic, ingested, examined, detection, failures>>

(* The request fails before its second commit: it stays running.           *)
AbandonRun(r) ==
  /\ run[r].status = "running" /\ run[r].step # "lost"
  /\ failures < MaxFailures /\ failures' = failures + 1
  /\ run' = [run EXCEPT ![r].step = "lost"]
  /\ UNCHANGED <<tick, traffic, ingested, examined, detection>>

-----------------------------------------------------------------------------
IngestEvent(e) ==
  /\ e \in traffic \ ingested
  /\ ingested' = ingested \cup {e}
  /\ UNCHANGED <<tick, run, traffic, examined, detection, failures>>

Outsider ==
  /\ Cardinality(traffic) < MaxEvents
  /\ traffic' = traffic \cup {[by |-> "outsider", at |-> Seconds(tick), run |-> "none"]}
  /\ traffic' # traffic
  /\ UNCHANGED <<tick, run, ingested, examined, detection, failures>>

HalfSecond ==
  /\ tick < LastTick /\ tick' = tick + 1
  /\ UNCHANGED <<run, traffic, ingested, examined, detection, failures>>

ValidationInit ==
  /\ tick = Recent + 2 /\ run = [r \in ScenarioRuns |-> NoRun]
  /\ traffic = {} /\ ingested = {} /\ examined = {} /\ detection = [s \in Senders |-> NoDetection]
  /\ failures = 0

ValidationNext ==
  \/ LoopCycle
  \/ \E r \in ScenarioRuns, mode \in {"execute", "evaluate"} : StartRun(r, mode)
  \/ \E r \in ScenarioRuns : \/ Attack(r) \/ ForceCycle(r) \/ CycleEnds(r)
                             \/ Grade(r) \/ AbandonRun(r)
  \/ \E e \in traffic : IngestEvent(e)
  \/ Outsider
  \/ HalfSecond

ValidationSpec == ValidationInit /\ [][ValidationNext]_validationVars

-----------------------------------------------------------------------------
(* Properties.                                                             *)

(* A run whose attack was sent, and examined by a cycle before the run     *)
(* was graded, passes: it is in the window of the run although times are   *)
(* cut to the second, and although an earlier run or another cycle raised  *)
(* the detection it shares.                                                *)
AttackIsCredited ==
  [][\A r \in ScenarioRuns :
       Grade(r) /\ run[r].sent # {} /\ run[r].sent \subseteq examined
         => run'[r].result = "PASS"]_validationVars

=============================================================================
