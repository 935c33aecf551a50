----------------------------- MODULE LabLifecycle -----------------------------
(***************************************************************************)
(* Virtual labs: one container each, the status its users see, and the     *)
(* Guacamole connection through which they reach it.                       *)
(*                                                                         *)
(*   services/session_manager.py        provisioning, readiness, stopping  *)
(*   api/v1/endpoints/labs.py           the requests, reattachment         *)
(*   services/providers/docker_provider.py, services/guacamole_service.py  *)
(*                                                                         *)
(* A step runs on the event loop up to its next await, or in a worker      *)
(* thread up to its result.  Each write of the state file follows a write  *)
(* of GLOBAL_LAB_STATE in the same step, so that known stands for both.    *)
(***************************************************************************)
EXTENDS Integers, FiniteSets

CONSTANTS
  Labs,         \* lab ids
  Stops,        \* requests to stop a lab that may be under way at a time
  Reattaches,   \* requests to reattach that may be under way at a time
  NoLab,        \* the lab of a request that is not under way
  MaxConns,     \* bound on the Guacamole connections created
  MaxFaults,    \* bound on failing calls
  MaxRestarts   \* bound on restarts of the backend

ASSUME LabsAssumption ==
  /\ NoLab \notin Labs
  /\ {MaxConns, MaxFaults, MaxRestarts} \subseteq Nat

VARIABLES
  container,  \* the lab's container in Docker
  known,      \* GLOBAL_LAB_STATE, and the state file
  vm,         \* status of the lab's row in vm_instances
  conns,      \* rows of guacamole_connection
  lastConn,   \* the last connection id given out
  worker,     \* start_lab_provisioning, then process_lab_readiness
  stop,       \* requests in terminate_lab
  reattach,   \* requests in reattach_guacamole
  stopped,    \* labs reported as terminated (history)
  strays,     \* connections no later stop will find (history)
  presumed,   \* labs marked TERMINATED by a restart alone (history)
  faults, restarts

outside == <<container, conns, lastConn>>
requests == <<stop, reattach>>
history == <<stopped, strays, presumed>>
bounds == <<faults, restarts>>
vars == <<outside, known, vm, worker, requests, history, bounds>>

-----------------------------------------------------------------------------
Unknown == [status |-> "unknown", guac |-> 0, host |-> FALSE]
Idle == [pc |-> "idle", lab |-> NoLab, guac |-> 0, result |-> "none"]

IsKnown(l) == known[l] # Unknown

(* A status is written to a lab that is known, and to none other.          *)
Marked(l, status) ==
  IF IsKnown(l) THEN [known EXCEPT ![l].status = status] ELSE known

Fault == faults < MaxFaults /\ faults' = faults + 1 /\ UNCHANGED restarts

(* The database part of _update_db_status, whose failure is ignored.       *)
WriteVm(l, status) ==
  \/ /\ vm' = IF vm[l] = "none" THEN vm ELSE [vm EXCEPT ![l] = status]
     /\ UNCHANGED bounds
  \/ /\ vm[l] # "none"
     /\ Fault
     /\ UNCHANGED vm

(* A stop of this lab has read which connection to delete.                 *)
Revoked(l) ==
  l \in stopped \/ \E s \in Stops : stop[s].lab = l /\ stop[s].pc \in {"teardown", "settle", "close"}

(* GuacamoleService.create_connection                                      *)
CreateConnection(l) ==
  /\ lastConn < MaxConns
  /\ lastConn' = lastConn + 1
  /\ conns' = conns \cup {[id |-> lastConn', lab |-> l]}
  /\ strays' = strays
       \cup (IF Revoked(l) THEN {lastConn'} ELSE {})
       \cup (IF known[l].guac # 0 THEN {known[l].guac} ELSE {})
  /\ UNCHANGED <<stopped, presumed>>

-----------------------------------------------------------------------------
(* start_lab_provisioning and process_lab_readiness.                       *)

(* The provider's launch_lab, in its thread.                               *)
Launch(l) ==
  /\ worker[l] = "none"
  /\ container' = [container EXCEPT ![l] = "booting"]
  /\ worker' = [worker EXCEPT ![l] = "launched"]
  /\ UNCHANGED <<known, vm, conns, lastConn, requests, history, bounds>>

(* Docker creates the container and cannot start it.                       *)
LaunchFails(l) ==
  /\ worker[l] = "none"
  /\ Fault
  /\ container' = [container EXCEPT ![l] = "exited"]
  /\ worker' = [worker EXCEPT ![l] = "done"]
  /\ UNCHANGED <<known, vm, conns, lastConn, requests, history>>

Record(l) ==
  /\ worker[l] = "launched"
  /\ known' = [known EXCEPT ![l] = [status |-> "PROVISIONING", guac |-> 0, host |-> FALSE]]
  /\ worker' = [worker EXCEPT ![l] = "recorded"]
  /\ UNCHANGED <<outside, vm, requests, history, bounds>>

(* The row is inserted, or that fails; the answer goes out and the          *)
(* background task starts.                                                 *)
Insert(l) ==
  /\ worker[l] = "recorded"
  /\ \/ vm' = [vm EXCEPT ![l] = "PROVISIONING"] /\ UNCHANGED bounds
     \/ Fault /\ UNCHANGED vm
  /\ worker' = [worker EXCEPT ![l] = "waiting"]
  /\ UNCHANGED <<outside, known, requests, history>>

(* wait_until_ready, in its thread: the port answers.                      *)
FindReady(l) ==
  /\ worker[l] = "waiting"
  /\ container[l] = "up"
  /\ worker' = [worker EXCEPT ![l] = "ready"]
  /\ UNCHANGED <<outside, known, vm, requests, history, bounds>>

(* It finds the container gone, raises, or meets its deadline.             *)
GiveUp(l) ==
  /\ worker[l] = "waiting"
  /\ worker' = [worker EXCEPT ![l] = "failed"]
  /\ UNCHANGED <<outside, known, vm, requests, history, bounds>>

Reject(l) ==
  /\ worker[l] = "failed"
  /\ known' = Marked(l, "ERROR")
  /\ worker' = [worker EXCEPT ![l] = "rejected"]
  /\ UNCHANGED <<outside, vm, requests, history, bounds>>

Ready(l, g) ==
  IF IsKnown(l) THEN [known EXCEPT ![l] = [status |-> "READY", guac |-> g, host |-> TRUE]]
                ELSE known

(* The connection is created and the lab marked READY, or READY without a   *)
(* browser session when Guacamole is down.                                 *)
Register(l) ==
  /\ worker[l] = "ready"
  /\ \/ /\ CreateConnection(l)
        /\ known' = Ready(l, lastConn')
        /\ UNCHANGED bounds
     \/ /\ Fault
        /\ known' = Ready(l, 0)
        /\ UNCHANGED <<conns, lastConn, history>>
  /\ worker' = [worker EXCEPT ![l] = "registered"]
  /\ UNCHANGED <<container, vm, requests>>

Conclude(l) ==
  /\ \/ worker[l] = "registered" /\ WriteVm(l, "READY")
     \/ worker[l] = "rejected" /\ WriteVm(l, "ERROR")
  /\ worker' = [worker EXCEPT ![l] = "done"]
  /\ UNCHANGED <<outside, known, requests, history>>

-----------------------------------------------------------------------------
(* terminate_lab.                                                          *)

(* The lab is in a list its users see.                                     *)
Listed(l) == container[l] # "none" \/ worker[l] \notin {"none", "launched", "recorded"}

(* The request names a connection its user was shown, or none.             *)
Stop(s, l) ==
  /\ stop[s].pc = "idle"
  /\ Listed(l)
  /\ known' = Marked(l, "STOPPING")
  /\ \E g \in {0, known[l].guac} \cup {c.id : c \in {d \in conns : d.lab = l}} :
       stop' = [stop EXCEPT ![s] = [pc |-> "mark", lab |-> l, guac |-> g, result |-> "none"]]
  /\ UNCHANGED <<outside, vm, worker, reattach, history, bounds>>

WriteStopping(s) ==
  /\ stop[s].pc = "mark"
  /\ WriteVm(stop[s].lab, "STOPPING")
  /\ stop' = [stop EXCEPT ![s].pc = "revoke"]
  /\ UNCHANGED <<outside, known, worker, reattach, history>>

(* Faulty: only the connection the request names is deleted.               *)
ConnectionNamed(s) == stop[s].guac

ConnectionOf(s) == IF stop[s].guac # 0 THEN stop[s].guac ELSE known[stop[s].lab].guac

(* The connection is deleted, or that fails and is ignored.                *)
Revoke(s) ==
  LET g == ConnectionOf(s)
      stored == known[stop[s].lab].guac
  IN  /\ stop[s].pc = "revoke"
      /\ \/ conns' = {c \in conns : c.id # g} /\ UNCHANGED bounds
            /\ strays' = strays \cup (IF stop[s].guac \in {0, stored} THEN {} ELSE {stored})
         \/ g # 0 /\ Fault /\ strays' = strays \cup {g, stored} /\ UNCHANGED conns
      /\ stop' = [stop EXCEPT ![s].pc = "teardown"]
      /\ UNCHANGED <<container, lastConn, known, vm, worker, reattach, stopped, presumed>>

(* Faulty: an error while the container is removed counts as removed.      *)
TeardownBlind(s) ==
  /\ stop[s].pc = "teardown"
  /\ stop' = [stop EXCEPT ![s].pc = "settle", ![s].result = "removed"]
  /\ \/ container' = [container EXCEPT ![stop[s].lab] = "none"] /\ UNCHANGED bounds
     \/ /\ container[stop[s].lab] # "none"
        /\ Fault
        /\ UNCHANGED container
  /\ UNCHANGED <<conns, lastConn, known, vm, worker, reattach, history>>

(* The provider's terminate_lab, in its thread: the container is found and  *)
(* removed, is gone already, or cannot be removed.                         *)
Teardown(s) ==
  LET l == stop[s].lab
  IN  /\ stop[s].pc = "teardown"
      /\ \/ /\ container' = [container EXCEPT ![l] = "none"]
            /\ stop' = [stop EXCEPT ![s].pc = "settle", ![s].result = "removed"]
            /\ UNCHANGED bounds
         \/ /\ container[l] # "none"
            /\ \/ \E z \in Stops \ {s} : stop[z].lab = l /\ stop[z].pc = "teardown" /\ UNCHANGED bounds
               \/ Fault
            /\ \E left \in {container[l], "exited"} : container' = [container EXCEPT ![l] = left]
            /\ stop' = [stop EXCEPT ![s].pc = "settle", ![s].result = "failed"]
      /\ UNCHANGED <<conns, lastConn, known, vm, worker, reattach, history>>

(* Faulty: a lab that could not be stopped goes on as before.              *)
OutcomeReady(s) == IF stop[s].result = "removed" THEN "TERMINATED" ELSE "READY"

Outcome(s) == IF stop[s].result = "removed" THEN "TERMINATED" ELSE "ERROR"

(* Faulty: a failed stop is not recorded.                                  *)
SettleRemoved(s) ==
  /\ stop[s].pc = "settle"
  /\ known' = IF stop[s].result = "removed" THEN Marked(stop[s].lab, "TERMINATED") ELSE known
  /\ stop' = [stop EXCEPT ![s].pc = "close"]
  /\ UNCHANGED <<outside, vm, worker, reattach, history, bounds>>

Settle(s) ==
  /\ stop[s].pc = "settle"
  /\ known' = Marked(stop[s].lab, Outcome(s))
  /\ stop' = [stop EXCEPT ![s].pc = "close"]
  /\ UNCHANGED <<outside, vm, worker, reattach, history, bounds>>

Close(s) ==
  /\ stop[s].pc = "close"
  /\ WriteVm(stop[s].lab, Outcome(s))
  /\ stopped' = IF stop[s].result = "removed" THEN stopped \cup {stop[s].lab} ELSE stopped
  /\ stop' = [stop EXCEPT ![s] = Idle]
  /\ UNCHANGED <<outside, known, worker, reattach, strays, presumed>>

-----------------------------------------------------------------------------
(* reattach_guacamole.                                                     *)

Reattach(r, l) ==
  /\ reattach[r].pc = "idle"
  /\ known[l].status = "READY"
  /\ known[l].host
  /\ known[l].guac = 0
  /\ reattach' = [reattach EXCEPT ![r] = [Idle EXCEPT !.pc = "resolve", !.lab = l]]
  /\ UNCHANGED <<outside, known, vm, worker, stop, history, bounds>>

(* get_connection, in its thread, asks Docker for the container.           *)
Resolve(r) ==
  /\ reattach[r].pc = "resolve"
  /\ reattach' = IF container[reattach[r].lab] = "none"
                 THEN [reattach EXCEPT ![r] = Idle]
                 ELSE [reattach EXCEPT ![r].pc = "register"]
  /\ UNCHANGED <<outside, known, vm, worker, stop, history, bounds>>

Reconnect(r) ==
  LET l == reattach[r].lab
  IN  /\ reattach[r].pc = "register"
      /\ \/ /\ CreateConnection(l)
            /\ known' = [known EXCEPT ![l].guac = lastConn']
            /\ UNCHANGED bounds
         \/ Fault /\ UNCHANGED <<conns, lastConn, known, history>>
      /\ reattach' = [reattach EXCEPT ![r] = Idle]
      /\ UNCHANGED <<container, vm, worker, stop>>

-----------------------------------------------------------------------------
(* Docker and the backend's process.                                       *)

Boot(l) ==
  /\ container[l] = "booting"
  /\ container' = [container EXCEPT ![l] = "up"]
  /\ UNCHANGED <<known, vm, conns, lastConn, worker, requests, history, bounds>>

Exit(l) ==
  /\ container[l] \in {"booting", "up"}
  /\ container' = [container EXCEPT ![l] = "exited"]
  /\ UNCHANGED <<known, vm, conns, lastConn, worker, requests, history, bounds>>

Active == {"PROVISIONING", "READY"}

(* load_local_state                                                        *)
Loaded(l) ==
  IF known[l].status \in Active THEN [known[l] EXCEPT !.status = "TERMINATED"] ELSE known[l]

(* The file is torn when the process dies while it is written.             *)
Restart ==
  /\ restarts < MaxRestarts
  /\ restarts' = restarts + 1
  /\ \/ /\ known' = [l \in Labs |-> Loaded(l)]
        /\ strays' = strays
     \/ /\ known' = [l \in Labs |-> Unknown]
        /\ strays' = strays \cup {known[l].guac : l \in Labs}
  /\ presumed' = presumed \cup {l \in Labs : known[l].status \in Active}
  /\ worker' = [l \in Labs |-> IF worker[l] = "none" THEN "none" ELSE "done"]
  /\ stop' = [s \in Stops |-> Idle]
  /\ reattach' = [r \in Reattaches |-> Idle]
  /\ UNCHANGED <<outside, vm, stopped, faults>>

-----------------------------------------------------------------------------
Init ==
  /\ container = [l \in Labs |-> "none"]
  /\ known = [l \in Labs |-> Unknown]
  /\ vm = [l \in Labs |-> "none"]
  /\ conns = {}
  /\ lastConn = 0
  /\ worker = [l \in Labs |-> "none"]
  /\ stop = [s \in Stops |-> Idle]
  /\ reattach = [r \in Reattaches |-> Idle]
  /\ stopped = {}
  /\ strays = {}
  /\ presumed = {}
  /\ faults = 0
  /\ restarts = 0

Provision(l) ==
  \/ Record(l) \/ Insert(l)
  \/ FindReady(l) \/ GiveUp(l)
  \/ Reject(l) \/ Register(l) \/ Conclude(l)

Terminate(s) == WriteStopping(s) \/ Revoke(s) \/ Teardown(s) \/ Settle(s) \/ Close(s)

Next ==
  \/ \E l \in Labs : Launch(l) \/ LaunchFails(l) \/ Provision(l) \/ Boot(l) \/ Exit(l)
  \/ \E s \in Stops : Terminate(s) \/ \E l \in Labs : Stop(s, l)
  \/ \E r \in Reattaches : Resolve(r) \/ Reconnect(r) \/ \E l \in Labs : Reattach(r, l)
  \/ Restart

(* The loop runs what is ready; wait_until_ready has a deadline and Docker  *)
(* and the database answer or fail.                                        *)
Fairness ==
  /\ \A l \in Labs : WF_vars(Provision(l))
  /\ \A s \in Stops : WF_vars(Terminate(s))

Spec == Init /\ [][Next]_vars /\ Fairness

-----------------------------------------------------------------------------
(* Properties.                                                             *)

BeingStopped(l) == \E s \in Stops : stop[s].lab = l
Live(g, l) == [id |-> g, lab |-> l] \in conns

(* What a READY lab offers its user can be used: its connection exists, or  *)
(* a stop that has deleted it is about to say so.                          *)
ReadyConnects ==
  \A l \in Labs :
    known[l].status = "READY" /\ known[l].guac # 0 =>
      \/ Live(known[l].guac, l)
      \/ \E s \in Stops : stop[s].lab = l /\ stop[s].pc \in {"teardown", "settle"}

(* A lab shows TERMINATED when its container is gone; only a restart marks  *)
(* one on suspicion.                                                       *)
TerminatedIsGone ==
  \A l \in Labs :
    known[l].status = "TERMINATED" => container[l] = "none" \/ l \in presumed

(* A connection outlives its lab's stop only when it was created after the  *)
(* stop had looked for one, another took its place, its deletion failed,   *)
(* the stop named another, or the state file was lost.                     *)
OnlyStraysAreLeft ==
  \A c \in conns : c.lab \in stopped => c.id \in strays

(* stop_lab: a lab that was stopped has no connection left.                *)
StopRevokes ==
  \A c \in conns : c.lab \in stopped => BeingStopped(c.lab)

(* No lab stays between two states: provisioning ends, whatever fails or   *)
(* restarts; a stop ends in the list of labs, too, unless the backend is   *)
(* restarted (load_local_state keeps STOPPING, and nobody finishes it).    *)
LabsSettle ==
  \A l \in Labs :
    /\ known[l].status = "PROVISIONING" ~> known[l].status # "PROVISIONING"
    /\ known[l].status = "STOPPING" ~> known[l].status # "STOPPING" \/ restarts > 0
=============================================================================
