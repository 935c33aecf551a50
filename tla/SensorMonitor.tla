--------------------------- MODULE SensorMonitor ---------------------------
(***************************************************************************)
(* What the platform says of its sensors' containers                       *)
(* (services/container_status.py, api/v1/nodes.py): their state, read from *)
(* Docker and kept for a few seconds, and their resources, sampled in the  *)
(* background.                                                             *)
(*                                                                         *)
(* Containers start, stop, are removed and made again while a sample is    *)
(* under way, and Docker does not always answer.  A container counts the   *)
(* bytes it has received since it was started; one direction stands for    *)
(* both, and the rows of the grid leave out the reading and the uptime     *)
(* they are shown with.                                                    *)
(***************************************************************************)
EXTENDS Integers

CONSTANTS
  Sensors,    \* SENSOR_CONTAINERS
  TTL,        \* how long the states read are kept
  Recency,    \* how long after an event a sensor counts as online
  LastProbe,  \* bound on time
  MaxBytes,   \* bound on what a container receives
  MaxChanges, \* bound on starts, stops and removals
  MaxRefusals \* bound on calls Docker does not answer

ASSUME MonitorAssumption == TTL \in Nat \ {0}

VARIABLES
  container, \* what Docker knows: state, and bytes received since the start
  moment,
  lastEvent, \* the time of the newest event of each sensor in the database
  states,    \* _CACHE
  previous,  \* _PREV_NET
  metrics,   \* _METRICS
  sampling,  \* where the sample of each sensor is, and what it read
  grid,      \* the sensors as /nodes last showed them
  refusals,
  changes,
  arrived,   \* history: bytes received since the previous reading
  ran        \* history: the last moment the sensor ran

monitorVars == <<container, moment, lastEvent, states, previous, metrics, sampling,
                 grid, refusals, changes, arrived, ran>>

Never == 0
NoRate == -1
Absent == [state |-> "absent", rx |-> 0]
NoneBefore == [at |-> Never, rx |-> 0]
Unavailable == [available |-> FALSE, running |-> FALSE, rx |-> NoRate, over |-> 0, arrived |-> 0]
NotRunning == [Unavailable EXCEPT !.available = TRUE]

Sampling(step) == [step |-> step, reading |-> Unavailable]
Sampled(reading) == [step |-> "read", reading |-> reading]
Runs(s) == container[s].state = "running"

(* Docker answers, or it does not.                                         *)
DockerAnswers == UNCHANGED refusals
DockerRefuses == /\ refusals < MaxRefusals
           /\ refusals' = refusals + 1

-----------------------------------------------------------------------------
(* sensor_container_states: the states kept, or else read; an error is     *)
(* told and not kept.                                                      *)
StatesKept == states.at # Never /\ moment - states.at < TTL
AsListed == [s \in Sensors |-> [available |-> TRUE, running |-> Runs(s)]]
NoStates == [s \in Sensors |-> [available |-> FALSE, running |-> FALSE]]

States(answer) ==
  \/ /\ StatesKept
     /\ answer = states.data
     /\ DockerAnswers /\ UNCHANGED states
  \/ /\ ~StatesKept
     /\ answer = AsListed
     /\ states' = [at |-> moment, data |-> answer]
     /\ DockerAnswers
  \/ /\ ~StatesKept
     /\ answer = NoStates
     /\ DockerRefuses /\ UNCHANGED states

(* get_nodes: what Docker says, or else whether an event came lately.      *)
Row(s, st) ==
  LET recent == lastEvent[s] # Never /\ moment - lastEvent[s] < Recency IN
  [online   |-> IF st.available THEN st.running ELSE recent,
   verified |-> st.available,
   quiet    |-> moment - ran[s]]

AskGrid ==
  \E answer \in {states.data, AsListed, NoStates} :
    /\ States(answer)
    /\ grid' = [s \in Sensors |-> Row(s, answer[s])]
    /\ UNCHANGED <<container, moment, lastEvent, previous, metrics, sampling, changes, arrived, ran>>

-----------------------------------------------------------------------------
(* _sample: the container is looked up, and then asked for its figures,    *)
(* while it may stop, be removed or start again.                           *)
BeginRound ==
  /\ \A s \in Sensors : sampling[s].step = "sleeps"
  /\ sampling' = [s \in Sensors |-> Sampling("find")]
  /\ UNCHANGED <<container, moment, lastEvent, states, previous, metrics, grid, refusals,
                 changes, arrived, ran>>

SampleFails(s) ==
  /\ sampling[s].step \in {"find", "stats"}
  /\ \/ container[s].state = "absent" /\ DockerAnswers
     \/ DockerRefuses
  /\ sampling' = [sampling EXCEPT ![s] = Sampled(Unavailable)]
  /\ UNCHANGED <<container, moment, lastEvent, states, previous, metrics, grid, changes, arrived, ran>>

Find(s) ==
  /\ sampling[s].step = "find"
  /\ container[s].state # "absent"
  /\ sampling' = [sampling EXCEPT ![s] = IF Runs(s) THEN Sampling("stats") ELSE Sampled(NotRunning)]
  /\ previous' = IF Runs(s) THEN previous ELSE [previous EXCEPT ![s] = NoneBefore]
  /\ arrived' = IF Runs(s) THEN arrived ELSE [arrived EXCEPT ![s] = 0]
  /\ UNCHANGED <<container, moment, lastEvent, states, metrics, grid, refusals, changes, ran>>

(* A faulty variant: the count may go back.                                *)
SinceUnclamped(s, rx) == rx - previous[s].rx

(* The bytes since the previous reading; a count that went back is none.   *)
Since(s, rx) == IF rx > previous[s].rx THEN rx - previous[s].rx ELSE 0

(* A rate needs a previous reading, and time since it.  A container that   *)
(* has stopped has no network to count.                                    *)
Stats(s) ==
  LET rx == IF Runs(s) THEN container[s].rx ELSE 0
      rated == previous[s] # NoneBefore /\ moment > previous[s].at
  IN /\ sampling[s].step = "stats"
     /\ container[s].state # "absent"
     /\ sampling' = [sampling EXCEPT ![s] = Sampled(
                       [available |-> TRUE, running |-> TRUE,
                        rx |-> IF rated THEN Since(s, rx) ELSE NoRate,
                        over |-> IF rated THEN moment - previous[s].at ELSE 0,
                        arrived |-> arrived[s]])]
     /\ previous' = [previous EXCEPT ![s] = [at |-> moment, rx |-> rx]]
     /\ arrived' = [arrived EXCEPT ![s] = 0]
     /\ UNCHANGED <<container, moment, lastEvent, states, metrics, grid, refusals, changes, ran>>

(* run_metrics_sampler: the readings together replace the ones before.     *)
Publish ==
  /\ \A s \in Sensors : sampling[s].step = "read"
  /\ metrics' = [s \in Sensors |-> sampling[s].reading]
  /\ sampling' = [s \in Sensors |-> Sampling("sleeps")]
  /\ UNCHANGED <<container, moment, lastEvent, states, previous, grid, refusals, changes, arrived, ran>>

-----------------------------------------------------------------------------
(* The containers, and time.                                               *)
Receive(s) ==
  /\ Runs(s) /\ container[s].rx < MaxBytes
  /\ container' = [container EXCEPT ![s].rx = @ + 1]
  /\ arrived' = [arrived EXCEPT ![s] = @ + 1]
  /\ lastEvent' = [lastEvent EXCEPT ![s] = moment]
  /\ UNCHANGED <<moment, states, previous, metrics, sampling, grid, refusals, changes, ran>>

Change(s, to) ==
  /\ changes < MaxChanges
  /\ changes' = changes + 1
  /\ container[s].state # to
  /\ to = "stopped" => Runs(s)
  /\ container' = [container EXCEPT ![s] =
                     CASE to = "absent"  -> Absent
                       [] to = "stopped" -> [@ EXCEPT !.state = to]
                       [] to = "running" -> [state |-> to, rx |-> 0]]
  /\ ran' = [ran EXCEPT ![s] = IF Runs(s) \/ to = "running" THEN moment ELSE @]
  /\ UNCHANGED <<moment, lastEvent, states, previous, metrics, sampling, grid, refusals, arrived>>

Pass ==
  /\ moment < LastProbe
  /\ moment' = moment + 1
  /\ ran' = [s \in Sensors |-> IF Runs(s) THEN moment + 1 ELSE ran[s]]
  /\ UNCHANGED <<container, lastEvent, states, previous, metrics, sampling, grid, refusals, changes, arrived>>

-----------------------------------------------------------------------------
MonitorInit ==
  /\ container \in [Sensors -> {Absent, [state |-> "running", rx |-> 0]}]
  /\ moment = 1
  /\ lastEvent = [s \in Sensors |-> Never]
  /\ states = [at |-> Never, data |-> NoStates]
  /\ previous = [s \in Sensors |-> NoneBefore]
  /\ metrics = [s \in Sensors |-> Unavailable]
  /\ sampling = [s \in Sensors |-> Sampling("sleeps")]
  /\ grid = [s \in Sensors |-> [online |-> FALSE, verified |-> FALSE, quiet |-> 0]]
  /\ refusals = 0
  /\ changes = 0
  /\ arrived = [s \in Sensors |-> 0]
  /\ ran = [s \in Sensors |-> IF Runs(s) THEN moment ELSE Never]

MonitorNext ==
  \/ AskGrid \/ BeginRound \/ Publish \/ Pass
  \/ \E s \in Sensors :
       \/ SampleFails(s) \/ Find(s) \/ Stats(s) \/ Receive(s)
       \/ \E to \in {"absent", "stopped", "running"} : Change(s, to)

MonitorSpec == MonitorInit /\ [][MonitorNext]_monitorVars

-----------------------------------------------------------------------------
(* What is shown of a sensor is true: a rate is never more than the        *)
(* traffic since the reading before, nor less than none, however often the *)
(* container was stopped, removed and started anew in between              *)
(* (container_status.py:133-139); and a sensor whose state is given as     *)
(* verified and online ran within the last TTL (lines 69-99).              *)
ShownIsTrue ==
  \A s \in Sensors :
    /\ metrics[s].rx # NoRate => metrics[s].rx \in 0 .. metrics[s].arrived
    /\ grid[s].verified /\ grid[s].online => grid[s].quiet < TTL
=============================================================================
