----------------------------- MODULE CloudLabs ------------------------------
(***************************************************************************)
(* Labs on EC2: AWSLabProvider (services/providers/aws_provider.py) and    *)
(* AWSOrchestrator (services/aws_orchestrator.py) under the lab life cycle *)
(* of services/session_manager.py.  LabLifecycle has the same life cycle   *)
(* over Docker, with the database row and Guacamole that are left out      *)
(* here.                                                                   *)
(*                                                                         *)
(* A lab is found by the tags of its instance.  An API call may fail, and  *)
(* an answer may be lost after the call took effect.                       *)
(***************************************************************************)
EXTENDS Naturals

CONSTANTS
  Clouds,           \* lab ids
  Stoppers,         \* requests to stop a lab that are served at a time
  MaxApiFaults,     \* bound on failing API calls
  MaxApiRestarts    \* bound on restarts of the backend

VARIABLES
  instance,     \* the lab's EC2 instance: state, environment, and whether it is tagged with it
  shown,        \* GLOBAL_LAB_STATE: status, and whose credentials are offered
  provisioning, \* launch_lab, then process_lab_readiness
  stopping,     \* terminate_lab
  apiFaults, apiRestarts,
  unseen        \* history: labs whose instance the backend lost sight of

apiBounds == <<apiFaults, apiRestarts>>
cloudVars == <<instance, shown, provisioning, stopping, apiBounds, unseen>>

Environments == {"kali", "windows", "windows_malware"}
NoInstance == [state |-> "none", env |-> "kali", tagged |-> FALSE]
NoStop == [step |-> "none", labs |-> {}]
NotShown == [status |-> "unknown", door |-> "none"]

ACTIVE == {"PROVISIONING", "READY", "RUNNING"}
Live == {"pending", "running", "checked"}

MarkLab(l, status) ==
  shown' = IF shown[l] = NotShown THEN shown ELSE [shown EXCEPT ![l].status = status]

ApiFault == apiFaults < MaxApiFaults /\ apiFaults' = apiFaults + 1 /\ UNCHANGED apiRestarts

(* _describe and _resolve_instance_id: nothing, by an error or truly.      *)
Describable(l) == instance[l].state # "none"

-----------------------------------------------------------------------------
(* launch_lab.                                                             *)

(* run_instances, once more without the IAM profile when AWS does not know *)
(* it: started, refused, or started and the answer lost.                   *)
Launch(l, env) ==
  /\ provisioning[l] = "none"
  /\ \/ /\ instance' = [instance EXCEPT ![l] = [state |-> "pending", env |-> env, tagged |-> FALSE]]
        /\ provisioning' = [provisioning EXCEPT ![l] = "launched"]
        /\ UNCHANGED <<apiBounds, unseen>>
     \/ /\ ApiFault
        /\ provisioning' = [provisioning EXCEPT ![l] = "over"]
        /\ \/ UNCHANGED <<instance, unseen>>
           \/ /\ instance' = [instance EXCEPT ![l] = [state |-> "pending", env |-> env,
                                                      tagged |-> FALSE]]
              /\ unseen' = unseen \cup {l}
  /\ UNCHANGED <<shown, stopping>>

(* create_tags, whose failure is logged, and the lab is recorded.          *)
Tag(l) ==
  /\ provisioning[l] = "launched"
  /\ \/ instance' = [instance EXCEPT ![l].tagged = TRUE] /\ UNCHANGED apiBounds
     \/ ApiFault /\ UNCHANGED instance
  /\ provisioning' = [provisioning EXCEPT ![l] = "recording"]
  /\ UNCHANGED <<shown, stopping, unseen>>

Record(l) ==
  /\ provisioning[l] = "recording"
  /\ shown' = [shown EXCEPT ![l] = [status |-> "PROVISIONING", door |-> "none"]]
  /\ provisioning' = [provisioning EXCEPT ![l] = "running"]
  /\ UNCHANGED <<instance, stopping, apiBounds, unseen>>

-----------------------------------------------------------------------------
(* wait_until_ready and what follows it in process_lab_readiness.          *)

Reject(l) ==
  /\ MarkLab(l, "ERROR")
  /\ provisioning' = [provisioning EXCEPT ![l] = "over"]

(* Stage 1: a poll finds the instance running; or it is gone, a poll       *)
(* fails, or time is up.                                                   *)
WaitForAddress(l) ==
  /\ provisioning[l] = "running"
  /\ \/ /\ instance[l].state \in {"running", "checked"}
        /\ provisioning' = [provisioning EXCEPT ![l] = "checks"]
        /\ UNCHANGED <<shown, apiBounds>>
     \/ Reject(l) /\ UNCHANGED apiBounds
  /\ UNCHANGED <<instance, stopping, unseen>>

(* Stage 2: both status checks pass; a failing poll is repeated.           *)
WaitForChecks(l) ==
  /\ provisioning[l] = "checks"
  /\ \/ /\ instance[l].state = "checked"
        /\ provisioning' = [provisioning EXCEPT ![l] = "connect"]
        /\ UNCHANGED shown
     \/ Reject(l)
  /\ UNCHANGED <<instance, stopping, apiBounds, unseen>>

(* _info_from_instance: a missing tag reads as kali.                       *)
Door(l) == IF instance[l].tagged THEN instance[l].env ELSE "kali"

(* get_lab_status, once more through get_connection: the lab is READY      *)
(* whatever the first says, and is in error without an address.            *)
OpenDoor(l) ==
  /\ provisioning[l] = "connect"
  /\ \/ /\ instance[l].state \in {"running", "checked"}
        /\ shown' = IF shown[l] = NotShown THEN shown
                    ELSE [shown EXCEPT ![l] = [status |-> "READY", door |-> Door(l)]]
        /\ provisioning' = [provisioning EXCEPT ![l] = "over"]
        /\ UNCHANGED apiBounds
     \/ instance[l].state \notin Live /\ Reject(l) /\ UNCHANGED apiBounds
     \/ ApiFault /\ Reject(l)
  /\ UNCHANGED <<instance, stopping, unseen>>

-----------------------------------------------------------------------------
(* terminate_lab of the session manager, then of the provider.             *)

Stop(s, l) ==
  /\ stopping[s] = NoStop /\ shown[l] # NotShown
  /\ MarkLab(l, "STOPPING")
  /\ stopping' = [stopping EXCEPT ![s] = [step |-> "resolve", labs |-> {l}]]
  /\ UNCHANGED <<instance, provisioning, apiBounds, unseen>>

Step(s, step) == stopping' = [stopping EXCEPT ![s].step = step]
StopAt(s, step, l) == stopping[s] = [step |-> step, labs |-> {l}]

(* A lab no instance is found for counts as terminated, be it that the     *)
(* search failed.                                                          *)
Resolve(s, l) ==
  /\ StopAt(s, "resolve", l)
  /\ \/ Step(s, IF Describable(l) THEN "terminate" ELSE "gone") /\ UNCHANGED <<apiBounds, unseen>>
     \/ ApiFault /\ Step(s, "gone") /\ unseen' = unseen \cup {l}
  /\ UNCHANGED <<instance, shown, provisioning>>

ShutDown(l) ==
  instance' = IF instance[l].state \in Live
              THEN [instance EXCEPT ![l].state = "shutting-down"] ELSE instance

(* Faulty: an error of terminate_instances counts as success.              *)
TerminateBlind(s, l) ==
  /\ StopAt(s, "terminate", l)
  /\ \/ ShutDown(l) /\ UNCHANGED apiBounds
     \/ ApiFault /\ UNCHANGED instance
  /\ Step(s, "gone")
  /\ UNCHANGED <<shown, provisioning, unseen>>

(* terminate_vm; its answer may be lost.                                   *)
Terminate(s, l) ==
  /\ StopAt(s, "terminate", l)
  /\ \/ ShutDown(l) /\ UNCHANGED apiBounds /\ Step(s, "gone")
     \/ ApiFault /\ (UNCHANGED instance \/ ShutDown(l)) /\ Step(s, "failed")
  /\ UNCHANGED <<shown, provisioning, unseen>>

Settle(s, l) ==
  /\ \/ StopAt(s, "gone", l) /\ MarkLab(l, "TERMINATED")
     \/ StopAt(s, "failed", l) /\ MarkLab(l, "ERROR")
  /\ stopping' = [stopping EXCEPT ![s] = NoStop]
  /\ UNCHANGED <<instance, provisioning, apiBounds, unseen>>

(* get_metrics names labs by their instance: a stop that names one ends    *)
(* the instance and leaves the lab's own entry alone.                      *)
ListedAs(l) == instance[l].state \in Live

StopInstance(l) ==
  /\ ListedAs(l)
  /\ ShutDown(l)
  /\ UNCHANGED <<shown, provisioning, stopping, apiBounds, unseen>>

-----------------------------------------------------------------------------
(* EC2 and the backend's process.                                          *)

Proceed(l) ==
  /\ \E step \in {<<"pending", "running">>, <<"running", "checked">>, <<"checked", "running">>,
                  <<"shutting-down", "terminated">>, <<"terminated", "none">>} :
       /\ instance[l].state = step[1]
       /\ instance' = [instance EXCEPT ![l].state = step[2]]
  /\ UNCHANGED <<shown, provisioning, stopping, apiBounds, unseen>>

CloudRestart ==
  /\ apiRestarts < MaxApiRestarts /\ apiRestarts' = apiRestarts + 1
  /\ shown' = [l \in Clouds |-> IF shown[l].status \in ACTIVE
                                THEN [shown[l] EXCEPT !.status = "TERMINATED"] ELSE shown[l]]
  /\ provisioning' = [l \in Clouds |-> IF provisioning[l] = "none" THEN "none" ELSE "over"]
  /\ stopping' = [s \in Stoppers |-> NoStop]
  /\ unseen' = unseen \cup {l \in Clouds : shown[l].status \in ACTIVE
                                           \/ provisioning[l] \in {"launched", "recording"}}
  /\ UNCHANGED <<instance, apiFaults>>

CloudInit ==
  /\ instance = [l \in Clouds |-> NoInstance] /\ shown = [l \in Clouds |-> NotShown]
  /\ provisioning = [l \in Clouds |-> "none"] /\ stopping = [s \in Stoppers |-> NoStop]
  /\ apiFaults = 0 /\ apiRestarts = 0 /\ unseen = {}

CloudNext ==
  \/ \E l \in Clouds, env \in Environments : Launch(l, env)
  \/ \E l \in Clouds : \/ Tag(l) \/ Record(l) \/ WaitForAddress(l) \/ WaitForChecks(l) \/ OpenDoor(l)
                       \/ StopInstance(l) \/ Proceed(l)
  \/ \E s \in Stoppers, l \in Clouds : \/ Stop(s, l) \/ Resolve(s, l) \/ Terminate(s, l)
                                       \/ Settle(s, l)
  \/ CloudRestart

CloudSpec == CloudInit /\ [][CloudNext]_cloudVars

-----------------------------------------------------------------------------
(* Properties.                                                             *)

(* An instance that runs, and is paid for, is that of a lab that is not    *)
(* shown as terminated, or is being launched; the backend loses sight of   *)
(* one only                                                                *)
(*  - when the answer to its launch is lost,                               *)
(*  - when a stop cannot look it up, and                                   *)
(*  - by a restart, which calls every active lab terminated unasked.       *)
(* No order of waiting, stopping and failing calls loses another.          *)
InstancesAreShown ==
  \A l \in Clouds :
    instance[l].state \in Live =>
      \/ provisioning[l] \in {"launched", "recording"}
      \/ shown[l].status \notin {"unknown", "TERMINATED"}
      \/ l \in unseen

=============================================================================
