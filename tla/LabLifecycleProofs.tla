------------------------- MODULE LabLifecycleProofs -------------------------
(* Theorems about labs, their stops and their connections, for every set   *)
(* of labs and every number of requests, failures and restarts.            *)
EXTENDS LabLifecycle, TLAPS

Containers == {"none", "booting", "up", "exited"}
Statuses == {"unknown", "PROVISIONING", "READY", "ERROR", "STOPPING", "TERMINATED"}
Workers == {"none", "launched", "recorded", "waiting", "ready", "failed", "rejected",
            "registered", "done"}
KnownRecords == [status : Statuses, guac : Nat, host : BOOLEAN]
StopRecords ==
  [pc : {"idle", "mark", "revoke", "teardown", "settle", "close"}, lab : Labs \cup {NoLab},
   guac : Nat, result : {"none", "removed", "failed"}]
ReattachRecords ==
  [pc : {"idle", "resolve", "register"}, lab : Labs \cup {NoLab}, guac : Nat, result : {"none"}]

TypeInv ==
  /\ container \in [Labs -> Containers]
  /\ known \in [Labs -> KnownRecords]
  /\ worker \in [Labs -> Workers]
  /\ stop \in [Stops -> StopRecords]
  /\ reattach \in [Reattaches -> ReattachRecords]
  /\ conns \subseteq [id : Nat \ {0}, lab : Labs]
  /\ lastConn \in Nat

(* A request that is under way is about a lab.                             *)
Requested ==
  /\ \A s \in Stops : stop[s].lab = NoLab <=> stop[s].pc = "idle"
  /\ \A r \in Reattaches : reattach[r].lab = NoLab <=> reattach[r].pc = "idle"

(* What provisioning has done so far.  Until it has registered a           *)
(* connection nothing else does: only a READY lab is reattached.           *)
Provisioned ==
  \A l \in Labs :
    /\ worker[l] = "none" => container[l] = "none" /\ \A s \in Stops : stop[s].lab # l
    /\ worker[l] \in {"none", "launched"} => known[l] = Unknown
    /\ worker[l] \in {"recorded", "waiting", "ready", "failed", "rejected"} =>
         known[l].status # "unknown" /\ known[l].guac = 0
    /\ known[l].status = "unknown" => known[l] = Unknown
    /\ known[l].status = "READY" => worker[l] \in {"registered", "done"}
    /\ \A r \in Reattaches : reattach[r].lab = l =>
         worker[l] \in {"registered", "done"} /\ known[l].status # "unknown"

(* A container that a stop has removed does not come back.                 *)
RemovedStays ==
  \A s \in Stops :
    stop[s].pc = "settle" /\ stop[s].result = "removed" => container[stop[s].lab] = "none"

LabInv == TypeInv /\ Requested /\ Provisioned /\ RemovedStays /\ TerminatedIsGone

-----------------------------------------------------------------------------
(* What a write of a status does to what is known of the labs.             *)

LEMMA MarkedIs ==
  ASSUME TypeInv, Provisioned, NEW l \in Labs, NEW status \in Statuses \ {"unknown"},
         known' = Marked(l, status)
  PROVE  /\ known' \in [Labs -> KnownRecords]
         /\ \A x \in Labs \ {l} : known'[x] = known[x]
         /\ known'[l].guac = known[l].guac /\ known'[l].host = known[l].host
         /\ known[l].status = "unknown" => known'[l] = known[l]
         /\ known[l].status # "unknown" => known'[l].status = status
  <1>1. known \in [Labs -> KnownRecords]
    BY DEF TypeInv
  <1>2. CASE IsKnown(l)
    <2>1. known' = [known EXCEPT ![l].status = status]
      BY <1>2 DEF Marked
    <2>2. known[l].status # "unknown"
      BY <1>2 DEF IsKnown, Provisioned
    <2> QED BY <1>1, <2>1, <2>2 DEF KnownRecords
  <1>3. CASE ~IsKnown(l)
    BY <1>1, <1>3 DEF Marked, IsKnown, Unknown
  <1> QED BY <1>2, <1>3

LEMMA ReadyIs ==
  ASSUME TypeInv, Provisioned, NEW l \in Labs, NEW g \in Nat, known' = Ready(l, g),
         known[l].status # "unknown"
  PROVE  /\ known' \in [Labs -> KnownRecords]
         /\ \A x \in Labs \ {l} : known'[x] = known[x]
         /\ known'[l].status = "READY" /\ known'[l].guac = g
  BY DEF Ready, IsKnown, Unknown, TypeInv, KnownRecords, Statuses

LEMMA LoadedIs ==
  ASSUME TypeInv, NEW l \in Labs
  PROVE  /\ Loaded(l) \in KnownRecords
         /\ Loaded(l).guac = known[l].guac /\ Loaded(l).host = known[l].host
         /\ Loaded(l).status # "READY"
         /\ known[l].status \notin Active => Loaded(l) = known[l]
         /\ known[l].status \in Active => Loaded(l).status = "TERMINATED"
  BY DEF Loaded, TypeInv, KnownRecords, Statuses, Active

-----------------------------------------------------------------------------
(* Labs.                                                                   *)

LEMMA InitLab == Init => LabInv
  <1> SUFFICES ASSUME Init PROVE LabInv
    OBVIOUS
  <1> USE DEF Init, Unknown, Idle
  <1>1. TypeInv
    <2>1. known \in [Labs -> KnownRecords] /\ container \in [Labs -> Containers]
      BY DEF KnownRecords, Statuses, Containers
    <2>2. worker \in [Labs -> Workers] /\ reattach \in [Reattaches -> ReattachRecords]
      BY DEF Workers, ReattachRecords
    <2>3. stop \in [Stops -> StopRecords]
      BY DEF StopRecords
    <2> QED BY <2>1, <2>2, <2>3 DEF TypeInv
  <1>2. Requested
    BY DEF Requested
  <1>3. Provisioned
    BY LabsAssumption DEF Provisioned
  <1>4. RemovedStays
    BY DEF RemovedStays
  <1>5. TerminatedIsGone
    BY DEF TerminatedIsGone
  <1> QED BY <1>1, <1>2, <1>3, <1>4, <1>5 DEF LabInv

LEMMA LaunchLab ==
  ASSUME LabInv, LabsAssumption, NEW l \in Labs, Launch(l)
  PROVE  LabInv'
  <1> USE DEF LabInv
  <1>1. TypeInv'
    BY DEF Launch, requests, history, bounds, TypeInv, Containers, Statuses, Workers,
           StopRecords, ReattachRecords, KnownRecords
  <1>2. Requested'
    BY DEF Launch, requests, history, bounds, TypeInv, Requested, StopRecords,
           ReattachRecords, Idle
  <1>3. Provisioned'
    BY DEF Launch, requests, history, bounds, TypeInv, Containers, Statuses, Workers,
           StopRecords, ReattachRecords, KnownRecords, Requested, Provisioned, Unknown,
           Idle
  <1>4. RemovedStays'
    BY DEF Launch, requests, history, bounds, TypeInv, StopRecords, ReattachRecords,
           Requested, Provisioned, RemovedStays, Idle
  <1>5. TerminatedIsGone'
    BY DEF Launch, requests, history, bounds, TypeInv, TerminatedIsGone, Provisioned,
           RemovedStays, Requested, StopRecords, KnownRecords, Unknown
  <1> QED BY <1>1, <1>2, <1>3, <1>4, <1>5

LEMMA LaunchFailsLab ==
  ASSUME LabInv, LabsAssumption, NEW l \in Labs, LaunchFails(l)
  PROVE  LabInv'
  <1> USE DEF LabInv
  <1>1. TypeInv'
    BY DEF LaunchFails, requests, history, Fault, TypeInv, Containers, Statuses, Workers,
           StopRecords, ReattachRecords, KnownRecords
  <1>2. Requested'
    BY DEF LaunchFails, requests, history, Fault, TypeInv, Requested, StopRecords,
           ReattachRecords, Idle
  <1>3. Provisioned'
    BY DEF LaunchFails, requests, history, Fault, TypeInv, Containers, Statuses, Workers,
           StopRecords, ReattachRecords, KnownRecords, Requested, Provisioned, Unknown,
           Idle
  <1>4. RemovedStays'
    BY DEF LaunchFails, requests, history, Fault, TypeInv, StopRecords, ReattachRecords,
           Requested, Provisioned, RemovedStays, Idle
  <1>5. TerminatedIsGone'
    BY DEF LaunchFails, requests, history, Fault, TypeInv, TerminatedIsGone, Provisioned,
           RemovedStays, Requested, StopRecords, KnownRecords, Unknown
  <1> QED BY <1>1, <1>2, <1>3, <1>4, <1>5

LEMMA RecordLab ==
  ASSUME LabInv, LabsAssumption, NEW l \in Labs, Record(l)
  PROVE  LabInv'
  <1> USE DEF LabInv
  <1>1. TypeInv'
    BY DEF Record, outside, requests, history, bounds, TypeInv, Containers, Statuses,
           Workers, StopRecords, ReattachRecords, KnownRecords
  <1>2. Requested'
    BY DEF Record, outside, requests, history, bounds, TypeInv, Requested, StopRecords,
           ReattachRecords, Idle
  <1>3. Provisioned'
    BY DEF Record, outside, requests, history, bounds, TypeInv, Containers, Statuses,
           Workers, StopRecords, ReattachRecords, KnownRecords, Requested, Provisioned,
           Unknown, Idle
  <1>4. RemovedStays'
    BY DEF Record, outside, requests, history, bounds, TypeInv, StopRecords,
           ReattachRecords, Requested, Provisioned, RemovedStays, Idle
  <1>5. TerminatedIsGone'
    BY DEF Record, outside, requests, history, bounds, TypeInv, TerminatedIsGone,
           Provisioned, RemovedStays, Requested, StopRecords, KnownRecords, Unknown
  <1> QED BY <1>1, <1>2, <1>3, <1>4, <1>5

LEMMA InsertLab ==
  ASSUME LabInv, LabsAssumption, NEW l \in Labs, Insert(l)
  PROVE  LabInv'
  <1> USE DEF LabInv
  <1>1. TypeInv'
    BY DEF Insert, outside, requests, history, bounds, Fault, TypeInv, Containers,
           Statuses, Workers, StopRecords, ReattachRecords, KnownRecords
  <1>2. Requested'
    BY DEF Insert, outside, requests, history, bounds, Fault, TypeInv, Requested,
           StopRecords, ReattachRecords, Idle
  <1>3. Provisioned'
    BY DEF Insert, outside, requests, history, bounds, Fault, TypeInv, Containers,
           Statuses, Workers, StopRecords, ReattachRecords, KnownRecords, Requested,
           Provisioned, Unknown, Idle
  <1>4. RemovedStays'
    BY DEF Insert, outside, requests, history, bounds, Fault, TypeInv, StopRecords,
           ReattachRecords, Requested, Provisioned, RemovedStays, Idle
  <1>5. TerminatedIsGone'
    BY DEF Insert, outside, requests, history, bounds, Fault, TypeInv, TerminatedIsGone,
           Provisioned, RemovedStays, Requested, StopRecords, KnownRecords, Unknown
  <1> QED BY <1>1, <1>2, <1>3, <1>4, <1>5

LEMMA FindReadyLab ==
  ASSUME LabInv, LabsAssumption, NEW l \in Labs, FindReady(l)
  PROVE  LabInv'
  <1> USE DEF LabInv
  <1>1. TypeInv'
    BY DEF FindReady, outside, requests, history, bounds, TypeInv, Containers, Statuses,
           Workers, StopRecords, ReattachRecords, KnownRecords
  <1>2. Requested'
    BY DEF FindReady, outside, requests, history, bounds, TypeInv, Requested, StopRecords,
           ReattachRecords, Idle
  <1>3. Provisioned'
    BY DEF FindReady, outside, requests, history, bounds, TypeInv, Containers, Statuses,
           Workers, StopRecords, ReattachRecords, KnownRecords, Requested, Provisioned,
           Unknown, Idle
  <1>4. RemovedStays'
    BY DEF FindReady, outside, requests, history, bounds, TypeInv, StopRecords,
           ReattachRecords, Requested, Provisioned, RemovedStays, Idle
  <1>5. TerminatedIsGone'
    BY DEF FindReady, outside, requests, history, bounds, TypeInv, TerminatedIsGone,
           Provisioned, RemovedStays, Requested, StopRecords, KnownRecords, Unknown
  <1> QED BY <1>1, <1>2, <1>3, <1>4, <1>5

LEMMA GiveUpLab ==
  ASSUME LabInv, LabsAssumption, NEW l \in Labs, GiveUp(l)
  PROVE  LabInv'
  <1> USE DEF LabInv
  <1>1. TypeInv'
    BY DEF GiveUp, outside, requests, history, bounds, TypeInv, Containers, Statuses,
           Workers, StopRecords, ReattachRecords, KnownRecords
  <1>2. Requested'
    BY DEF GiveUp, outside, requests, history, bounds, TypeInv, Requested, StopRecords,
           ReattachRecords, Idle
  <1>3. Provisioned'
    BY DEF GiveUp, outside, requests, history, bounds, TypeInv, Containers, Statuses,
           Workers, StopRecords, ReattachRecords, KnownRecords, Requested, Provisioned,
           Unknown, Idle
  <1>4. RemovedStays'
    BY DEF GiveUp, outside, requests, history, bounds, TypeInv, StopRecords,
           ReattachRecords, Requested, Provisioned, RemovedStays, Idle
  <1>5. TerminatedIsGone'
    BY DEF GiveUp, outside, requests, history, bounds, TypeInv, TerminatedIsGone,
           Provisioned, RemovedStays, Requested, StopRecords, KnownRecords, Unknown
  <1> QED BY <1>1, <1>2, <1>3, <1>4, <1>5

LEMMA ConcludeLab ==
  ASSUME LabInv, LabsAssumption, NEW l \in Labs, Conclude(l)
  PROVE  LabInv'
  <1> USE DEF LabInv
  <1>1. TypeInv'
    BY DEF Conclude, outside, requests, history, bounds, Fault, WriteVm, TypeInv,
           Containers, Statuses, Workers, StopRecords, ReattachRecords, KnownRecords
  <1>2. Requested'
    BY DEF Conclude, outside, requests, history, bounds, Fault, WriteVm, TypeInv,
           Requested, StopRecords, ReattachRecords, Idle
  <1>3. Provisioned'
    BY DEF Conclude, outside, requests, history, bounds, Fault, WriteVm, TypeInv,
           Containers, Statuses, Workers, StopRecords, ReattachRecords, KnownRecords,
           Requested, Provisioned, Unknown, Idle
  <1>4. RemovedStays'
    BY DEF Conclude, outside, requests, history, bounds, Fault, WriteVm, TypeInv,
           StopRecords, ReattachRecords, Requested, Provisioned, RemovedStays, Idle
  <1>5. TerminatedIsGone'
    BY DEF Conclude, outside, requests, history, bounds, Fault, WriteVm, TypeInv,
           TerminatedIsGone, Provisioned, RemovedStays, Requested, StopRecords,
           KnownRecords, Unknown
  <1> QED BY <1>1, <1>2, <1>3, <1>4, <1>5

LEMMA BootLab ==
  ASSUME LabInv, LabsAssumption, NEW l \in Labs, Boot(l)
  PROVE  LabInv'
  <1> USE DEF LabInv
  <1>1. TypeInv'
    BY DEF Boot, requests, history, bounds, TypeInv, Containers, Statuses, Workers,
           StopRecords, ReattachRecords, KnownRecords
  <1>2. Requested'
    BY DEF Boot, requests, history, bounds, TypeInv, Requested, StopRecords,
           ReattachRecords, Idle
  <1>3. Provisioned'
    BY DEF Boot, requests, history, bounds, TypeInv, Containers, Statuses, Workers,
           StopRecords, ReattachRecords, KnownRecords, Requested, Provisioned, Unknown,
           Idle
  <1>4. RemovedStays'
    BY DEF Boot, requests, history, bounds, TypeInv, StopRecords, ReattachRecords,
           Requested, Provisioned, RemovedStays, Idle
  <1>5. TerminatedIsGone'
    BY DEF Boot, requests, history, bounds, TypeInv, TerminatedIsGone, Provisioned,
           RemovedStays, Requested, StopRecords, KnownRecords, Unknown
  <1> QED BY <1>1, <1>2, <1>3, <1>4, <1>5

LEMMA ExitLab ==
  ASSUME LabInv, LabsAssumption, NEW l \in Labs, Exit(l)
  PROVE  LabInv'
  <1> USE DEF LabInv
  <1>1. TypeInv'
    BY DEF Exit, requests, history, bounds, TypeInv, Containers, Statuses, Workers,
           StopRecords, ReattachRecords, KnownRecords
  <1>2. Requested'
    BY DEF Exit, requests, history, bounds, TypeInv, Requested, StopRecords,
           ReattachRecords, Idle
  <1>3. Provisioned'
    BY DEF Exit, requests, history, bounds, TypeInv, Containers, Statuses, Workers,
           StopRecords, ReattachRecords, KnownRecords, Requested, Provisioned, Unknown,
           Idle
  <1>4. RemovedStays'
    BY DEF Exit, requests, history, bounds, TypeInv, StopRecords, ReattachRecords,
           Requested, Provisioned, RemovedStays, Idle
  <1>5. TerminatedIsGone'
    BY DEF Exit, requests, history, bounds, TypeInv, TerminatedIsGone, Provisioned,
           RemovedStays, Requested, StopRecords, KnownRecords, Unknown
  <1> QED BY <1>1, <1>2, <1>3, <1>4, <1>5

LEMMA WriteStoppingLab ==
  ASSUME LabInv, LabsAssumption, NEW s \in Stops, WriteStopping(s)
  PROVE  LabInv'
  <1> USE DEF LabInv
  <1>0. stop' = [stop EXCEPT ![s].pc = "revoke"]
        /\ UNCHANGED <<container, conns, lastConn, known, worker, reattach>>
    BY DEF WriteStopping, outside
  <1>1. TypeInv'
    <2>1. stop' \in [Stops -> StopRecords]
      BY <1>0 DEF TypeInv, StopRecords
    <2> QED
      BY <1>0, <2>1 DEF TypeInv
  <1>2. Requested'
    BY DEF WriteStopping, outside, history, bounds, Fault, WriteVm, TypeInv, Requested,
           StopRecords, ReattachRecords, Idle
  <1>3. Provisioned'
    <2>1. stop[s].lab # NoLab /\ \A z \in Stops : stop'[z].lab = stop[z].lab
      BY <1>0 DEF TypeInv, StopRecords, WriteStopping, Requested
    <2> QED
      BY <1>0, <2>1 DEF Provisioned
  <1>4. RemovedStays'
    BY DEF WriteStopping, outside, history, bounds, Fault, WriteVm, TypeInv, StopRecords,
           ReattachRecords, Requested, Provisioned, RemovedStays, Idle
  <1>5. TerminatedIsGone'
    BY DEF WriteStopping, outside, history, bounds, Fault, WriteVm, TypeInv,
           TerminatedIsGone, Provisioned, RemovedStays, Requested, StopRecords,
           KnownRecords, Unknown
  <1> QED BY <1>1, <1>2, <1>3, <1>4, <1>5

LEMMA RevokeLab ==
  ASSUME LabInv, LabsAssumption, NEW s \in Stops, Revoke(s)
  PROVE  LabInv'
  <1> USE DEF LabInv
  <1>0. stop' = [stop EXCEPT ![s].pc = "teardown"] /\ conns' \subseteq conns
        /\ UNCHANGED <<container, lastConn, known, worker, reattach>>
    BY DEF Revoke
  <1>1. TypeInv'
    <2>1. stop' \in [Stops -> StopRecords]
      BY <1>0 DEF TypeInv, StopRecords
    <2> QED
      BY <1>0, <2>1 DEF TypeInv
  <1>2. Requested'
    BY DEF Revoke, bounds, Fault, TypeInv, Requested, StopRecords, ReattachRecords, Idle
  <1>3. Provisioned'
    BY DEF Revoke, bounds, Fault, TypeInv, Containers, Statuses, Workers, StopRecords,
           ReattachRecords, KnownRecords, Requested, Provisioned, Unknown, Idle
  <1>4. RemovedStays'
    BY DEF Revoke, bounds, Fault, TypeInv, StopRecords, ReattachRecords, Requested,
           Provisioned, RemovedStays, Idle
  <1>5. TerminatedIsGone'
    BY DEF Revoke, bounds, Fault, TypeInv, TerminatedIsGone, Provisioned, RemovedStays,
           Requested, StopRecords, KnownRecords, Unknown
  <1> QED BY <1>1, <1>2, <1>3, <1>4, <1>5

LEMMA TeardownLab ==
  ASSUME LabInv, LabsAssumption, NEW s \in Stops, Teardown(s)
  PROVE  LabInv'
  <1> USE DEF LabInv
  <1>1. PICK left \in Containers, found \in {"removed", "failed"} :
          /\ container' = [container EXCEPT ![stop[s].lab] = left]
          /\ stop' = [stop EXCEPT ![s].pc = "settle", ![s].result = found]
          /\ found = "removed" => left = "none"
          /\ left # "none" => container[stop[s].lab] # "none"
    BY DEF Teardown, TypeInv, Requested, StopRecords, Containers
  <1>2. /\ stop[s].pc = "teardown" /\ stop[s].lab \in Labs
        /\ UNCHANGED <<conns, lastConn, known, worker, reattach, history>>
    BY DEF Teardown, TypeInv, Requested, StopRecords
  <1>3. TypeInv'
    <2>1. stop' \in [Stops -> StopRecords]
      <3>1. [stop[s] EXCEPT !.pc = "settle", !.result = found] \in StopRecords
        BY DEF TypeInv, StopRecords
      <3> QED
        BY <1>1, <3>1 DEF TypeInv
    <2>2. container' \in [Labs -> Containers]
      BY <1>1, <1>2 DEF TypeInv
    <2> QED BY <1>2, <2>1, <2>2 DEF TypeInv, KnownRecords
  <1>4. Requested'
    BY <1>1, <1>2 DEF outside, requests, history, bounds, TypeInv, Requested, StopRecords,
           ReattachRecords, Idle
  <1>5. Provisioned'
    BY <1>1, <1>2 DEF outside, requests, history, bounds, TypeInv, Containers, Statuses,
           Workers, StopRecords, ReattachRecords, KnownRecords, Requested, Provisioned,
           Unknown, Idle
  <1>6. RemovedStays'
    BY <1>1, <1>2 DEF outside, requests, history, bounds, TypeInv, StopRecords,
           ReattachRecords, Requested, Provisioned, RemovedStays, Idle
  <1>7. TerminatedIsGone'
    BY <1>1, <1>2 DEF outside, requests, history, bounds, TypeInv, TerminatedIsGone,
           Provisioned, RemovedStays, Requested, StopRecords, KnownRecords, Unknown
  <1> QED BY <1>3, <1>4, <1>5, <1>6, <1>7

LEMMA CloseLab ==
  ASSUME LabInv, LabsAssumption, NEW s \in Stops, Close(s)
  PROVE  LabInv'
  <1> USE DEF LabInv
  <1>1. /\ stop' = [stop EXCEPT ![s] = Idle]
        /\ UNCHANGED <<outside, known, worker, reattach, presumed>>
    BY DEF Close
  <1>2. TypeInv'
    <2>1. stop' \in [Stops -> StopRecords]
      BY <1>1 DEF TypeInv, StopRecords, Idle
    <2> QED BY <1>1, <2>1 DEF TypeInv, outside
  <1>3. Requested'
    BY <1>1 DEF outside, requests, history, bounds, TypeInv, Requested, StopRecords,
           ReattachRecords, Idle
  <1>4. Provisioned'
    BY <1>1 DEF outside, requests, history, bounds, TypeInv, Containers, Statuses, Workers,
           StopRecords, ReattachRecords, KnownRecords, Requested, Provisioned, Unknown,
           Idle
  <1>5. RemovedStays'
    BY <1>1 DEF outside, requests, history, bounds, TypeInv, StopRecords, ReattachRecords,
           Requested, Provisioned, RemovedStays, Idle
  <1>6. TerminatedIsGone'
    BY <1>1 DEF outside, requests, history, bounds, TypeInv, TerminatedIsGone, Provisioned,
           RemovedStays, Requested, StopRecords, KnownRecords, Unknown
  <1> QED BY <1>2, <1>3, <1>4, <1>5, <1>6

LEMMA ReattachLab ==
  ASSUME LabInv, LabsAssumption, NEW r \in Reattaches, NEW l \in Labs, Reattach(r, l)
  PROVE  LabInv'
  <1> USE DEF LabInv
  <1>1. /\ reattach' = [reattach EXCEPT ![r] = [Idle EXCEPT !.pc = "resolve", !.lab = l]]
        /\ known[l].status = "READY" /\ reattach[r].pc = "idle"
        /\ UNCHANGED <<outside, known, worker, stop, history>>
    BY DEF Reattach
  <1>2. TypeInv'
    <2>1. reattach' \in [Reattaches -> ReattachRecords]
      BY <1>1 DEF TypeInv, ReattachRecords, Idle
    <2> QED BY <1>1, <2>1 DEF TypeInv, outside
  <1>3. Requested'
    BY <1>1 DEF outside, requests, history, bounds, TypeInv, Requested, StopRecords,
           ReattachRecords, Idle
  <1>4. Provisioned'
    BY <1>1 DEF outside, requests, history, bounds, TypeInv, Containers, Statuses, Workers,
           StopRecords, ReattachRecords, KnownRecords, Requested, Provisioned, Unknown,
           Idle
  <1>5. RemovedStays'
    BY <1>1 DEF outside, requests, history, bounds, TypeInv, StopRecords, ReattachRecords,
           Requested, Provisioned, RemovedStays, Idle
  <1>6. TerminatedIsGone'
    BY <1>1 DEF outside, requests, history, bounds, TypeInv, TerminatedIsGone, Provisioned,
           RemovedStays, Requested, StopRecords, KnownRecords, Unknown
  <1> QED BY <1>2, <1>3, <1>4, <1>5, <1>6

LEMMA ResolveLab ==
  ASSUME LabInv, LabsAssumption, NEW r \in Reattaches, Resolve(r)
  PROVE  LabInv'
  <1> USE DEF LabInv
  <1>1. /\ reattach[r].pc = "resolve"
        /\ \/ reattach' = [reattach EXCEPT ![r] = Idle]
           \/ reattach' = [reattach EXCEPT ![r].pc = "register"]
        /\ UNCHANGED <<outside, known, worker, stop, history>>
    BY DEF Resolve
  <1>2. TypeInv'
    <2>1. reattach' \in [Reattaches -> ReattachRecords]
      BY <1>1 DEF TypeInv, ReattachRecords, Idle
    <2> QED BY <1>1, <2>1 DEF TypeInv, outside
  <1>3. Requested'
    BY <1>1 DEF outside, requests, history, bounds, TypeInv, Requested, StopRecords,
           ReattachRecords, Idle
  <1>4. Provisioned'
    BY <1>1 DEF outside, requests, history, bounds, TypeInv, Containers, Statuses, Workers,
           StopRecords, ReattachRecords, KnownRecords, Requested, Provisioned, Unknown,
           Idle
  <1>5. RemovedStays'
    BY <1>1 DEF outside, requests, history, bounds, TypeInv, StopRecords, ReattachRecords,
           Requested, Provisioned, RemovedStays, Idle
  <1>6. TerminatedIsGone'
    BY <1>1 DEF outside, requests, history, bounds, TypeInv, TerminatedIsGone, Provisioned,
           RemovedStays, Requested, StopRecords, KnownRecords, Unknown
  <1> QED BY <1>2, <1>3, <1>4, <1>5, <1>6

LEMMA ReconnectLab ==
  ASSUME LabInv, LabsAssumption, NEW r \in Reattaches, Reconnect(r)
  PROVE  LabInv'
  <1> USE DEF LabInv
  <1>1. /\ reattach' = [reattach EXCEPT ![r] = Idle]
        /\ reattach[r].pc = "register" /\ reattach[r].lab \in Labs
        /\ UNCHANGED <<container, worker, stop, presumed>>
    BY DEF Reconnect, CreateConnection, history, Requested, TypeInv, ReattachRecords
  <1>2. /\ known' \in [Labs -> KnownRecords]
        /\ \A x \in Labs : known'[x].status = known[x].status
        /\ \A x \in Labs \ {reattach[r].lab} : known'[x] = known[x]
        /\ conns' \subseteq [id : Nat \ {0}, lab : Labs] /\ lastConn' \in Nat
    <2>1. CASE CreateConnection(reattach[r].lab)
               /\ known' = [known EXCEPT ![reattach[r].lab].guac = lastConn']
      BY <1>1, <2>1 DEF CreateConnection, TypeInv, KnownRecords
    <2>2. CASE UNCHANGED <<conns, lastConn, known>>
      BY <2>2 DEF TypeInv, KnownRecords
    <2> QED BY <2>1, <2>2 DEF Reconnect
  <1>3. TypeInv'
    <2>1. reattach' \in [Reattaches -> ReattachRecords]
      BY <1>1 DEF TypeInv, ReattachRecords, Idle
    <2> QED BY <1>1, <1>2, <2>1 DEF TypeInv
  <1>4. Requested'
    BY <1>1, <1>2 DEF outside, requests, history, bounds, TypeInv, Requested, StopRecords,
           ReattachRecords, Idle
  <1>5. Provisioned'
    BY <1>1, <1>2 DEF outside, requests, history, bounds, TypeInv, Containers, Statuses,
           Workers, StopRecords, ReattachRecords, KnownRecords, Requested, Provisioned,
           Unknown, Idle
  <1>6. RemovedStays'
    BY <1>1, <1>2 DEF outside, requests, history, bounds, TypeInv, StopRecords,
           ReattachRecords, Requested, Provisioned, RemovedStays, Idle
  <1>7. TerminatedIsGone'
    BY <1>1, <1>2 DEF outside, requests, history, bounds, TypeInv, TerminatedIsGone,
           Provisioned, RemovedStays, Requested, StopRecords, KnownRecords, Unknown
  <1> QED BY <1>3, <1>4, <1>5, <1>6, <1>7

LEMMA RejectLab ==
  ASSUME LabInv, LabsAssumption, NEW l \in Labs, Reject(l)
  PROVE  LabInv'
  <1> USE DEF LabInv
  <1>1. /\ known' \in [Labs -> KnownRecords]
        /\ \A x \in Labs \ {l} : known'[x] = known[x]
        /\ known'[l].guac = known[l].guac /\ known'[l].host = known[l].host
        /\ known[l].status = "unknown" => known'[l] = known[l]
        /\ known[l].status # "unknown" => known'[l].status = "ERROR"
    BY MarkedIs DEF Reject, Statuses
  <1>2. /\ worker[l] = "failed" /\ worker' = [worker EXCEPT ![l] = "rejected"]
        /\ UNCHANGED <<outside, requests, history>>
    BY DEF Reject
  <1>3. TypeInv'
    BY <1>1, <1>2 DEF outside, requests, history, bounds, TypeInv, Containers, Statuses,
           Workers, StopRecords, ReattachRecords, KnownRecords
  <1>4. Requested'
    BY <1>1, <1>2 DEF outside, requests, history, bounds, TypeInv, Requested, StopRecords,
           ReattachRecords, Idle
  <1>5. Provisioned'
    BY <1>1, <1>2 DEF outside, requests, history, bounds, TypeInv, Containers, Statuses,
           Workers, StopRecords, ReattachRecords, KnownRecords, Requested, Provisioned,
           Unknown, Idle
  <1>6. RemovedStays'
    BY <1>1, <1>2 DEF outside, requests, history, bounds, TypeInv, StopRecords,
           ReattachRecords, Requested, Provisioned, RemovedStays, Idle
  <1>7. TerminatedIsGone'
    BY <1>1, <1>2 DEF outside, requests, history, bounds, TypeInv, TerminatedIsGone,
           Provisioned, RemovedStays, Requested, StopRecords, KnownRecords, Unknown
  <1> QED BY <1>3, <1>4, <1>5, <1>6, <1>7

LEMMA RegisterLab ==
  ASSUME LabInv, LabsAssumption, NEW l \in Labs, Register(l)
  PROVE  LabInv'
  <1> USE DEF LabInv
  <1>1. /\ worker[l] = "ready" /\ worker' = [worker EXCEPT ![l] = "registered"]
        /\ UNCHANGED <<container, stop, reattach, stopped, presumed>>
    BY DEF Register, CreateConnection, requests, history
  <1>2. /\ conns' \subseteq [id : Nat \ {0}, lab : Labs] /\ lastConn' \in Nat
        /\ known' = Ready(l, lastConn') \/ known' = Ready(l, 0)
    BY DEF Register, CreateConnection, TypeInv
  <1>3. /\ known' \in [Labs -> KnownRecords]
        /\ \A x \in Labs \ {l} : known'[x] = known[x]
        /\ known'[l].status = "READY"
    <2>1. known[l].status # "unknown"
      BY <1>1 DEF Provisioned
    <2>2. PICK g \in Nat : known' = Ready(l, g)
      BY <1>2
    <2> QED BY <2>1, <2>2, ReadyIs
  <1>4. TypeInv'
    BY <1>1, <1>2, <1>3 DEF outside, requests, history, bounds, TypeInv, Containers,
           Statuses, Workers, StopRecords, ReattachRecords, KnownRecords
  <1>5. Requested'
    BY <1>1, <1>2, <1>3 DEF outside, requests, history, bounds, TypeInv, Requested,
           StopRecords, ReattachRecords, Idle
  <1>6. Provisioned'
    <2> SUFFICES ASSUME NEW x \in Labs
                 PROVE  /\ worker'[x] = "none" =>
                             container'[x] = "none" /\ \A z \in Stops : stop'[z].lab # x
                        /\ worker'[x] \in {"none", "launched"} => known'[x] = Unknown
                        /\ worker'[x] \in {"recorded", "waiting", "ready", "failed", "rejected"} =>
                             known'[x].status # "unknown" /\ known'[x].guac = 0
                        /\ known'[x].status = "unknown" => known'[x] = Unknown
                        /\ known'[x].status = "READY" => worker'[x] \in {"registered", "done"}
                        /\ \A r \in Reattaches : reattach'[r].lab = x =>
                             worker'[x] \in {"registered", "done"} /\ known'[x].status # "unknown"
      BY DEF Provisioned
    <2>1. CASE x = l
      BY <1>1, <1>2, <1>3, <2>1 DEF TypeInv, Workers, Provisioned
    <2>2. CASE x # l
      BY <1>1, <1>2, <1>3, <2>2 DEF TypeInv, Workers, Provisioned
    <2> QED BY <2>1, <2>2
  <1>7. RemovedStays'
    BY <1>1, <1>2, <1>3 DEF outside, requests, history, bounds, TypeInv, StopRecords,
           ReattachRecords, Requested, Provisioned, RemovedStays, Idle
  <1>8. TerminatedIsGone'
    BY <1>1, <1>2, <1>3 DEF outside, requests, history, bounds, TypeInv, TerminatedIsGone,
           Provisioned, RemovedStays, Requested, StopRecords, KnownRecords, Unknown
  <1> QED BY <1>4, <1>5, <1>6, <1>7, <1>8

LEMMA StopLab ==
  ASSUME LabInv, LabsAssumption, NEW s \in Stops, NEW l \in Labs, Stop(s, l)
  PROVE  LabInv'
  <1> USE DEF LabInv
  <1>1. /\ known' \in [Labs -> KnownRecords]
        /\ \A x \in Labs \ {l} : known'[x] = known[x]
        /\ known'[l].guac = known[l].guac /\ known'[l].host = known[l].host
        /\ known[l].status = "unknown" => known'[l] = known[l]
        /\ known[l].status # "unknown" => known'[l].status = "STOPPING"
    BY MarkedIs DEF Stop, Statuses
  <1>2. PICK g \in Nat : stop' = [stop EXCEPT ![s] = [pc |-> "mark", lab |-> l, guac |-> g,
                                                         result |-> "none"]]
    BY DEF Stop, TypeInv, KnownRecords
  <1>3. /\ stop[s].pc = "idle" /\ UNCHANGED <<outside, worker, reattach, history>>
        /\ worker[l] # "none"
    BY DEF Stop, Listed, Provisioned
  <1>4. TypeInv'
    BY <1>1, <1>2, <1>3 DEF outside, requests, history, bounds, TypeInv, Containers,
           Statuses, Workers, StopRecords, ReattachRecords, KnownRecords
  <1>5. Requested'
    BY <1>1, <1>2, <1>3 DEF outside, requests, history, bounds, TypeInv, Requested,
           StopRecords, ReattachRecords, Idle
  <1>6. Provisioned'
    BY <1>1, <1>2, <1>3 DEF outside, requests, history, bounds, TypeInv, Containers,
           Statuses, Workers, StopRecords, ReattachRecords, KnownRecords, Requested,
           Provisioned, Unknown, Idle
  <1>7. RemovedStays'
    BY <1>1, <1>2, <1>3 DEF outside, requests, history, bounds, TypeInv, StopRecords,
           ReattachRecords, Requested, Provisioned, RemovedStays, Idle
  <1>8. TerminatedIsGone'
    BY <1>1, <1>2, <1>3 DEF outside, requests, history, bounds, TypeInv, TerminatedIsGone,
           Provisioned, RemovedStays, Requested, StopRecords, KnownRecords, Unknown
  <1> QED BY <1>4, <1>5, <1>6, <1>7, <1>8

LEMMA SettleLab ==
  ASSUME LabInv, LabsAssumption, NEW s \in Stops, Settle(s)
  PROVE  LabInv'
  <1> USE DEF LabInv
  <1>1. stop[s].lab \in Labs /\ Outcome(s) \in {"TERMINATED", "ERROR"}
    BY DEF Settle, Requested, TypeInv, StopRecords, Outcome
  <1>2. /\ known' \in [Labs -> KnownRecords]
        /\ \A x \in Labs \ {stop[s].lab} : known'[x] = known[x]
        /\ known'[stop[s].lab].guac = known[stop[s].lab].guac /\ known'[stop[s].lab].host = known[stop[s].lab].host
        /\ known[stop[s].lab].status = "unknown" => known'[stop[s].lab] = known[stop[s].lab]
        /\ known[stop[s].lab].status # "unknown" => known'[stop[s].lab].status = Outcome(s)
    BY <1>1, MarkedIs DEF Settle, Statuses
  <1>3. /\ stop[s].pc = "settle" /\ stop' = [stop EXCEPT ![s].pc = "close"]
        /\ UNCHANGED <<outside, worker, reattach, history>>
        /\ Outcome(s) = "TERMINATED" => container[stop[s].lab] = "none"
    BY DEF Settle, Outcome, RemovedStays
  <1>4. TypeInv'
    <2>1. stop' \in [Stops -> StopRecords]
      BY <1>3 DEF TypeInv, StopRecords
    <2> QED
      BY <1>2, <1>3, <2>1 DEF outside, TypeInv
  <1>5. Requested'
    BY <1>1, <1>2, <1>3 DEF outside, requests, history, bounds, TypeInv, Requested,
           StopRecords, ReattachRecords, Idle
  <1>6. Provisioned'
    BY <1>1, <1>2, <1>3 DEF outside, requests, history, bounds, TypeInv, Containers,
           Statuses, Workers, StopRecords, ReattachRecords, KnownRecords, Requested,
           Provisioned, Unknown, Idle
  <1>7. RemovedStays'
    BY <1>1, <1>2, <1>3 DEF outside, requests, history, bounds, TypeInv, StopRecords,
           ReattachRecords, Requested, Provisioned, RemovedStays, Idle
  <1>8. TerminatedIsGone'
    BY <1>1, <1>2, <1>3 DEF outside, requests, history, bounds, TypeInv, TerminatedIsGone,
           Provisioned, RemovedStays, Requested, StopRecords, KnownRecords, Unknown
  <1> QED BY <1>4, <1>5, <1>6, <1>7, <1>8

LEMMA RestartLab ==
  ASSUME LabInv, LabsAssumption, Restart
  PROVE  LabInv'
  <1> USE DEF LabInv
  <1>1. /\ stop' = [s \in Stops |-> Idle] /\ reattach' = [r \in Reattaches |-> Idle]
        /\ worker' = [l \in Labs |-> IF worker[l] = "none" THEN "none" ELSE "done"]
        /\ presumed' = presumed \cup {l \in Labs : known[l].status \in Active}
        /\ UNCHANGED <<outside, stopped>>
    BY DEF Restart
  <1>2. /\ known' \in [Labs -> KnownRecords]
        /\ \A l \in Labs :
             \/ known'[l] = Unknown
             \/ known'[l] = known[l] /\ known[l].status \notin Active
             \/ known'[l].status = "TERMINATED" /\ known[l].status \in Active
    <2>1. CASE known' = [l \in Labs |-> Loaded(l)]
      <3>1. \A l \in Labs : known'[l] = Loaded(l)
        BY <2>1
      <3>2. \A l \in Labs : Loaded(l) \in KnownRecords
        BY LoadedIs
      <3>3. \A l \in Labs :
               \/ Loaded(l) = known[l] /\ known[l].status \notin Active
               \/ Loaded(l).status = "TERMINATED" /\ known[l].status \in Active
        BY LoadedIs
      <3> QED BY <2>1, <3>1, <3>2, <3>3
    <2>2. CASE known' = [l \in Labs |-> Unknown]
      <3>1. Unknown \in KnownRecords
        BY DEF Unknown, KnownRecords, Statuses
      <3> QED BY <2>2, <3>1
    <2> QED BY <2>1, <2>2 DEF Restart
  <1>3. TypeInv'
    <2>1. stop' \in [Stops -> StopRecords] /\ reattach' \in [Reattaches -> ReattachRecords]
      BY <1>1 DEF StopRecords, ReattachRecords, Idle
    <2>2. worker' \in [Labs -> Workers]
      BY <1>1 DEF Workers
    <2> QED BY <1>1, <1>2, <2>1, <2>2 DEF TypeInv, outside
  <1>4. Requested'
    BY <1>1, <1>2 DEF outside, requests, history, bounds, TypeInv, Requested, StopRecords,
           ReattachRecords, Idle
  <1>5. Provisioned'
    <2> SUFFICES ASSUME NEW x \in Labs
                 PROVE  /\ worker'[x] = "none" =>
                             container'[x] = "none" /\ \A z \in Stops : stop'[z].lab # x
                        /\ worker'[x] \in {"none", "launched"} => known'[x] = Unknown
                        /\ worker'[x] \in {"recorded", "waiting", "ready", "failed", "rejected"} =>
                             known'[x].status # "unknown" /\ known'[x].guac = 0
                        /\ known'[x].status = "unknown" => known'[x] = Unknown
                        /\ known'[x].status = "READY" => worker'[x] \in {"registered", "done"}
                        /\ \A r \in Reattaches : reattach'[r].lab = x =>
                             worker'[x] \in {"registered", "done"} /\ known'[x].status # "unknown"
      BY DEF Provisioned
    <2>1. worker'[x] \in {"none", "done"} /\ (worker'[x] = "none" => worker[x] = "none")
      BY <1>1
    <2>2. /\ \A z \in Stops : stop'[z].lab # x
          /\ \A r \in Reattaches : reattach'[r].lab # x
      BY <1>1, LabsAssumption DEF Idle
    <2>3. known'[x].status # "READY" /\ (known'[x].status = "unknown" => known'[x] = Unknown)
      BY <1>2 DEF Provisioned, Unknown, Active
    <2>4. worker[x] = "none" => known'[x] = Unknown /\ container'[x] = "none"
      BY <1>1, <1>2 DEF Provisioned, Unknown, Active, outside
    <2> QED BY <2>1, <2>2, <2>3, <2>4
  <1>6. RemovedStays'
    BY <1>1, <1>2 DEF outside, requests, history, bounds, TypeInv, StopRecords,
           ReattachRecords, Requested, Provisioned, RemovedStays, Idle
  <1>7. TerminatedIsGone'
    BY <1>1, <1>2 DEF outside, requests, history, bounds, TypeInv, TerminatedIsGone,
           Provisioned, RemovedStays, Requested, StopRecords, KnownRecords, Unknown
  <1> QED BY <1>3, <1>4, <1>5, <1>6, <1>7

LEMMA StepLab ==
  ASSUME LabInv, [Next]_vars
  PROVE  LabInv'
  <1> USE LabsAssumption
  <1>1. CASE Restart
    BY <1>1, RestartLab
  <1>2. ASSUME NEW l \in Labs, Launch(l) \/ LaunchFails(l) \/ Provision(l) \/ Boot(l) \/ Exit(l)
        PROVE  LabInv'
    BY <1>2, LaunchLab, LaunchFailsLab, RecordLab, InsertLab, FindReadyLab, GiveUpLab, RejectLab,
       RegisterLab, ConcludeLab, BootLab, ExitLab DEF Provision
  <1>3. ASSUME NEW s \in Stops, Terminate(s) \/ \E l \in Labs : Stop(s, l)
        PROVE  LabInv'
    BY <1>3, WriteStoppingLab, RevokeLab, TeardownLab, SettleLab, CloseLab, StopLab DEF Terminate
  <1>4. ASSUME NEW r \in Reattaches,
               Resolve(r) \/ Reconnect(r) \/ \E l \in Labs : Reattach(r, l)
        PROVE  LabInv'
    BY <1>4, ResolveLab, ReconnectLab, ReattachLab
  <1>5. CASE UNCHANGED vars
    BY <1>5 DEF vars, outside, requests, history, bounds, LabInv, TypeInv, Requested, Provisioned,
                RemovedStays, TerminatedIsGone
  <1> QED BY <1>1, <1>2, <1>3, <1>4, <1>5 DEF Next

LEMMA LabsHold == Spec => []LabInv
  <1>1. LabInv /\ [Next]_vars => LabInv'
    BY StepLab
  <1> QED
    BY InitLab, <1>1, PTL DEF Spec

(* A lab shows TERMINATED when its container is gone, whatever stops       *)
(* overlap and fail; only a restart marks one on suspicion.                *)
THEOREM LabsGone == Spec => []TerminatedIsGone
  <1>1. LabInv => TerminatedIsGone
    BY DEF LabInv
  <1> QED
    BY LabsHold, <1>1, PTL

-----------------------------------------------------------------------------
(* A connection id that a lab's state or a request for the lab names is no *)
(* other lab's.                                                            *)
Owned ==
  /\ \A c \in conns : c.id <= lastConn
  /\ \A c, d \in conns : c.id = d.id => c.lab = d.lab
  /\ \A l \in Labs : known[l].guac <= lastConn /\
       \A c \in conns : c.id = known[l].guac => c.lab = l
  /\ \A s \in Stops : stop[s].guac <= lastConn /\
       \A c \in conns : c.id = stop[s].guac => c.lab = stop[s].lab

(* Every connection is the one its lab's state names, or a stray; once a   *)
(* stop has looked for the lab's connections all of them are strays.       *)
Accounted ==
  /\ \A c \in conns : c.id \in strays \/ c.id = known[c.lab].guac
  /\ \A c \in conns : Revoked(c.lab) => c.id \in strays

ConnInv == Owned /\ Accounted /\ ReadyConnects

-----------------------------------------------------------------------------
(* Connections.                                                            *)

Revoking(l) == \E s \in Stops : stop[s].lab = l /\ stop[s].pc \in {"teardown", "settle"}

(* A stop names a connection of its lab, or none.                          *)
NamesOwn(s) ==
  \/ stop'[s].guac = 0
  \/ stop'[s].guac = stop[s].guac /\ stop'[s].lab = stop[s].lab
  \/ stop'[s].lab \in Labs /\ stop'[s].guac = known[stop'[s].lab].guac
  \/ \E d \in conns : d.lab = stop'[s].lab /\ d.id = stop'[s].guac

LEMMA InitConn == Init => ConnInv
  BY DEF Init, ConnInv, Owned, Accounted, ReadyConnects, Unknown, Idle

(* A step that neither creates nor deletes a connection.                   *)
LEMMA QuietConn ==
  ASSUME LabInv, LabInv', ConnInv, UNCHANGED <<conns, lastConn, strays>>,
         \A l \in Labs : known'[l].guac = known[l].guac /\ (Revoked(l)' => Revoked(l)),
         \A l \in Labs : known'[l].status = "READY" /\ known'[l].guac # 0 =>
            known[l].status = "READY" /\ (Revoking(l) => Revoking(l)'),
         \A s \in Stops : NamesOwn(s)
  PROVE  ConnInv'
  <1>0. \A c \in conns : c.id \in Nat \ {0} /\ c.lab \in Labs
    BY DEF LabInv, TypeInv
  <1>1. Owned'
    <2>1. \A l \in Labs : known'[l].guac <= lastConn /\
            \A c \in conns : c.id = known'[l].guac => c.lab = l
      BY DEF ConnInv, Owned
    <2>2. ASSUME NEW s \in Stops
          PROVE  stop'[s].guac <= lastConn /\
                   \A c \in conns : c.id = stop'[s].guac => c.lab = stop'[s].lab
      <3>1. CASE stop'[s].guac = 0
        BY <1>0, <3>1 DEF LabInv, TypeInv
      <3>2. CASE stop'[s].guac = stop[s].guac /\ stop'[s].lab = stop[s].lab
        BY <3>2 DEF ConnInv, Owned
      <3>3. CASE stop'[s].lab \in Labs /\ stop'[s].guac = known[stop'[s].lab].guac
        BY <3>3 DEF ConnInv, Owned
      <3>4. CASE \E d \in conns : d.lab = stop'[s].lab /\ d.id = stop'[s].guac
        BY <3>4 DEF ConnInv, Owned
      <3> QED BY <3>1, <3>2, <3>3, <3>4 DEF NamesOwn
    <2> QED BY <2>1, <2>2 DEF ConnInv, Owned
  <1>2. Accounted'
    BY <1>0 DEF ConnInv, Accounted
  <1>3. ReadyConnects'
    BY DEF ConnInv, ReadyConnects, Live, Revoking
  <1> QED BY <1>1, <1>2, <1>3 DEF ConnInv

(* A step that leaves the connections, what is known and the stops alone.  *)
LEMMA StillConn ==
  ASSUME LabInv, ConnInv, UNCHANGED <<conns, lastConn, strays, stopped, known, stop>>
  PROVE  ConnInv'
  BY DEF ConnInv, Owned, Accounted, Revoked, ReadyConnects, Live

(* A new connection of a lab whose state then names it.                    *)
LEMMA CreateConn ==
  ASSUME LabInv, LabInv', ConnInv, NEW l \in Labs, CreateConnection(l), UNCHANGED stop,
         known'[l].guac = lastConn', \A x \in Labs \ {l} : known'[x] = known[x]
  PROVE  ConnInv'
  <1>1. /\ lastConn \in Nat /\ lastConn' = lastConn + 1
        /\ conns' = conns \cup {[id |-> lastConn', lab |-> l]}
        /\ strays \subseteq strays'
        /\ Revoked(l) => lastConn' \in strays'
        /\ known[l].guac # 0 => known[l].guac \in strays'
        /\ UNCHANGED stopped
    BY DEF CreateConnection, LabInv, TypeInv
  <1>2. \A c \in conns : c.id \in Nat \ {0} /\ c.lab \in Labs /\ c.id < lastConn'
    BY <1>1 DEF LabInv, TypeInv, ConnInv, Owned
  <1>3. \A c \in conns' : c \in conns \/ (c.id = lastConn' /\ c.lab = l)
    BY <1>1
  <1>4. /\ \A x \in Labs : known[x].guac \in Nat /\ known[x].guac < lastConn'
        /\ \A s \in Stops : stop[s].guac \in Nat /\ stop[s].guac < lastConn'
    BY <1>1 DEF LabInv, TypeInv, KnownRecords, StopRecords, ConnInv, Owned
  <1>5. \A x \in Labs : Revoked(x)' <=> Revoked(x)
    BY <1>1 DEF Revoked
  <1>6. Owned'
    <2>1. /\ \A c \in conns' : c.id <= lastConn'
          /\ \A c, d \in conns' : c.id = d.id => c.lab = d.lab
      BY <1>1, <1>2, <1>3 DEF ConnInv, Owned
    <2>2. ASSUME NEW x \in Labs
          PROVE  known'[x].guac <= lastConn' /\ \A c \in conns' : c.id = known'[x].guac => c.lab = x
      <3>1. CASE x = l
        BY <1>1, <1>2, <1>3, <3>1
      <3>2. CASE x # l
        BY <1>1, <1>2, <1>3, <1>4, <3>2 DEF ConnInv, Owned
      <3> QED BY <3>1, <3>2
    <2>3. ASSUME NEW s \in Stops
          PROVE  stop'[s].guac <= lastConn' /\
                   \A c \in conns' : c.id = stop'[s].guac => c.lab = stop'[s].lab
      BY <1>1, <1>2, <1>3, <1>4 DEF ConnInv, Owned
    <2> QED BY <2>1, <2>2, <2>3 DEF Owned
  <1>7. Accounted'
    <2>1. ASSUME NEW c \in conns'
          PROVE  /\ c.id \in strays' \/ c.id = known'[c.lab].guac
                 /\ Revoked(c.lab) => c.id \in strays'
      <3>1. CASE c \in conns
        BY <1>1, <1>2, <3>1 DEF ConnInv, Accounted
      <3>2. CASE c.id = lastConn' /\ c.lab = l
        BY <1>1, <3>2
      <3> QED BY <1>3, <3>1, <3>2
    <2>2. \A c \in conns' : c.lab \in Labs
      BY <1>2, <1>3
    <2> QED BY <1>5, <2>1, <2>2 DEF Accounted
  <1>8. ReadyConnects'
    <2>1. ASSUME NEW x \in Labs, known'[x].status = "READY", known'[x].guac # 0
          PROVE  \/ [id |-> known'[x].guac, lab |-> x] \in conns'
                 \/ \E s \in Stops : stop[s].lab = x /\ stop[s].pc \in {"teardown", "settle"}
      <3>1. CASE x = l
        BY <1>1, <3>1
      <3>2. CASE x # l
        BY <1>1, <2>1, <3>2 DEF ConnInv, ReadyConnects, Live
      <3> QED BY <3>1, <3>2
    <2> QED BY <2>1 DEF ReadyConnects, Live
  <1> QED BY <1>6, <1>7, <1>8 DEF ConnInv

LEMMA RevokeConn ==
  ASSUME LabInv, LabInv', ConnInv, NEW s \in Stops, Revoke(s)
  PROVE  ConnInv'
  <1> DEFINE l == stop[s].lab
             g == ConnectionOf(s)
  <1>1. /\ l \in Labs /\ stop[s].pc = "revoke"
        /\ g = stop[s].guac \/ g = known[l].guac
        /\ stop[s].guac = 0 => g = known[l].guac
    BY DEF LabInv, TypeInv, Requested, StopRecords, Revoke, ConnectionOf
  <1>2. /\ stop' = [stop EXCEPT ![s].pc = "teardown"]
        /\ UNCHANGED <<lastConn, known, stopped>>
        /\ conns' \subseteq conns /\ \A c \in conns : c.id # g => c \in conns'
        /\ strays \subseteq strays'
    BY DEF Revoke
  <1>3. /\ stop'[s].pc = "teardown" /\ stop'[s].lab = l /\ stop'[s].guac = stop[s].guac
        /\ \A z \in Stops \ {s} : stop'[z] = stop[z]
    BY <1>2 DEF LabInv, TypeInv, StopRecords
  <1>4. \A c \in conns : c.lab \in Labs /\ c.id \in Nat \ {0}
    BY DEF LabInv, TypeInv
  <1>5. \A c \in conns' : c.id = known[l].guac => c.id \in strays'
    <2>1. CASE conns' = {c \in conns : c.id # g} /\
               strays' = strays \cup (IF stop[s].guac \in {0, known[l].guac} THEN {}
                                                                          ELSE {known[l].guac})
      BY <1>1, <2>1
    <2>2. CASE strays' = strays \cup {g, known[l].guac}
      BY <2>2
    <2> QED BY <2>1, <2>2 DEF Revoke
  <1>6. \A c \in conns : c.id = g => c.lab = l
    BY <1>1 DEF ConnInv, Owned
  <1>7. Owned'
    BY <1>2, <1>3 DEF ConnInv, Owned
  <1>8. Accounted'
    <2>1. \A x \in Labs \ {l} : Revoked(x)' => Revoked(x)
      BY <1>2, <1>3 DEF Revoked
    <2>2. \A c \in conns' : c.id \in strays' \/ c.id = known'[c.lab].guac
      BY <1>2 DEF ConnInv, Accounted
    <2>3. \A c \in conns' : c.lab = l => c.id \in strays'
      BY <1>2, <1>5 DEF ConnInv, Accounted
    <2>4. \A c \in conns' : c.lab \in Labs \ {l} /\ Revoked(c.lab) => c.id \in strays'
      BY <1>2 DEF ConnInv, Accounted
    <2> QED BY <1>2, <1>4, <2>1, <2>2, <2>3, <2>4 DEF Accounted
  <1>9. ReadyConnects'
    <2>1. ASSUME NEW x \in Labs, known'[x].status = "READY", known'[x].guac # 0
          PROVE  \/ [id |-> known'[x].guac, lab |-> x] \in conns'
                 \/ \E z \in Stops : stop'[z].lab = x /\ stop'[z].pc \in {"teardown", "settle"}
      <3>1. CASE x = l
        BY <1>3, <3>1
      <3>2. CASE x # l
        <4>1. CASE \E z \in Stops : stop[z].lab = x /\ stop[z].pc \in {"teardown", "settle"}
          BY <1>1, <1>3, <4>1
        <4>2. CASE [id |-> known[x].guac, lab |-> x] \in conns
          <5>1. known[x].guac # g
            BY <1>6, <3>2, <4>2
          <5> QED BY <1>2, <4>2, <5>1
        <4> QED BY <1>2, <2>1, <4>1, <4>2 DEF ConnInv, ReadyConnects, Live
      <3> QED BY <3>1, <3>2
    <2> QED BY <2>1 DEF ReadyConnects, Live
  <1> QED BY <1>7, <1>8, <1>9 DEF ConnInv

LEMMA RestartConn ==
  ASSUME LabInv, LabInv', ConnInv, Restart
  PROVE  ConnInv'
  <1>1. /\ stop' = [s \in Stops |-> Idle] /\ UNCHANGED <<conns, lastConn, stopped>>
    BY DEF Restart, outside
  <1>2. \A s \in Stops : stop'[s].guac = 0 /\ stop'[s].pc = "idle"
    BY <1>1 DEF Idle
  <1>3. \A l \in Labs : Revoked(l)' => Revoked(l)
    BY <1>1, <1>2 DEF Revoked
  <1>4. CASE known' = [l \in Labs |-> Loaded(l)] /\ strays' = strays
    <2>1. \A l \in Labs : known'[l].guac = known[l].guac /\ known'[l].status # "READY"
      BY <1>4, LoadedIs DEF LabInv
    <2> QED BY <1>1, <1>2, <1>3, <1>4, <2>1, QuietConn DEF NamesOwn
  <1>5. CASE known' = [l \in Labs |-> Unknown] /\ strays' = strays \cup {known[l].guac : l \in Labs}
    <2>1. \A l \in Labs : known'[l].guac = 0 /\ known'[l].status # "READY"
      BY <1>5 DEF Unknown
    <2>2. \A c \in conns : c.id \in Nat \ {0} /\ c.lab \in Labs
      BY DEF LabInv, TypeInv
    <2>3. Owned'
      BY <1>1, <1>2, <2>1, <2>2 DEF ConnInv, Owned, LabInv, TypeInv
    <2>4. Accounted'
      BY <1>1, <1>3, <1>5, <2>2 DEF ConnInv, Accounted
    <2>5. ReadyConnects'
      BY <2>1 DEF ReadyConnects
    <2> QED BY <2>3, <2>4, <2>5 DEF ConnInv
  <1> QED BY <1>4, <1>5 DEF Restart

LEMMA RecordConn ==
  ASSUME LabInv, LabInv', ConnInv, NEW l \in Labs, Record(l)
  PROVE  ConnInv'
  <1>1. /\ \A x \in Labs : known'[x].guac = known[x].guac
        /\ \A x \in Labs \ {l} : known'[x] = known[x]
        /\ known'[l].status # "READY"
    BY DEF Record, LabInv, TypeInv, KnownRecords, Provisioned, Unknown
  <1>2. UNCHANGED <<conns, lastConn, strays, stopped, stop>>
    BY DEF Record, outside, requests, history
  <1>3. \A x \in Labs : (Revoked(x)' <=> Revoked(x)) /\ (Revoking(x)' <=> Revoking(x))
    BY <1>2 DEF Revoked, Revoking
  <1> QED BY <1>1, <1>2, <1>3, QuietConn DEF NamesOwn

LEMMA RejectConn ==
  ASSUME LabInv, LabInv', ConnInv, NEW l \in Labs, Reject(l)
  PROVE  ConnInv'
  <1>1. /\ \A x \in Labs : known'[x].guac = known[x].guac
        /\ \A x \in Labs \ {l} : known'[x] = known[x]
        /\ known'[l].status # "READY"
    <2>1. known' = Marked(l, "ERROR") /\ "ERROR" \in Statuses \ {"unknown", "READY"}
      BY DEF Reject, Statuses
    <2> QED BY <2>1, MarkedIs DEF LabInv, TypeInv, KnownRecords
  <1>2. UNCHANGED <<conns, lastConn, strays, stopped, stop>>
    BY DEF Reject, outside, requests, history
  <1>3. \A x \in Labs : (Revoked(x)' <=> Revoked(x)) /\ (Revoking(x)' <=> Revoking(x))
    BY <1>2 DEF Revoked, Revoking
  <1> QED BY <1>1, <1>2, <1>3, QuietConn DEF NamesOwn

LEMMA RegisterConn ==
  ASSUME LabInv, LabInv', ConnInv, NEW l \in Labs, Register(l)
  PROVE  ConnInv'
  <1>1. known[l].status # "unknown" /\ known[l].guac = 0 /\ UNCHANGED stop /\ lastConn' \in Nat
    BY DEF Register, LabInv, Provisioned, requests, TypeInv
  <1>2. CASE CreateConnection(l) /\ known' = Ready(l, lastConn')
    <2>1. known'[l].guac = lastConn' /\ \A x \in Labs \ {l} : known'[x] = known[x]
      BY <1>1, <1>2, ReadyIs DEF LabInv
    <2> QED BY <1>1, <1>2, <2>1, CreateConn
  <1>3. CASE known' = Ready(l, 0) /\ UNCHANGED <<conns, lastConn, history>>
    <2>1. known'[l].guac = 0 /\ \A x \in Labs \ {l} : known'[x] = known[x]
      BY <1>1, <1>3, ReadyIs DEF LabInv
    <2>2. \A x \in Labs : (Revoked(x)' <=> Revoked(x)) /\ (Revoking(x)' <=> Revoking(x))
      BY <1>1, <1>3 DEF Revoked, Revoking, history
    <2> QED BY <1>1, <1>3, <2>1, <2>2, QuietConn DEF NamesOwn, history
  <1> QED BY <1>2, <1>3 DEF Register

LEMMA StopConn ==
  ASSUME LabInv, LabInv', ConnInv, NEW s \in Stops, NEW l \in Labs, Stop(s, l)
  PROVE  ConnInv'
  <1>1. /\ \A x \in Labs : known'[x].guac = known[x].guac
        /\ \A x \in Labs \ {l} : known'[x] = known[x]
        /\ known'[l].status # "READY"
    <2>1. known' = Marked(l, "STOPPING") /\ "STOPPING" \in Statuses \ {"unknown", "READY"}
      BY DEF Stop, Statuses
    <2> QED BY <2>1, MarkedIs DEF LabInv, TypeInv, KnownRecords
  <1>2. PICK g \in {0, known[l].guac} \cup {c.id : c \in {d \in conns : d.lab = l}} :
          stop' = [stop EXCEPT ![s] = [pc |-> "mark", lab |-> l, guac |-> g, result |-> "none"]]
    BY DEF Stop
  <1>3. UNCHANGED <<conns, lastConn, strays, stopped>> /\ stop[s].pc = "idle"
    BY DEF Stop, outside, history
  <1>4. /\ stop'[s].pc = "mark" /\ stop'[s].lab = l /\ stop'[s].guac = g
        /\ \A z \in Stops \ {s} : stop'[z] = stop[z]
    BY <1>2 DEF LabInv, TypeInv
  <1>5. \A x \in Labs : (Revoked(x)' => Revoked(x)) /\ (Revoking(x) => Revoking(x)')
    BY <1>3, <1>4 DEF Revoked, Revoking
  <1>6. \A z \in Stops : NamesOwn(z)
    BY <1>4 DEF NamesOwn
  <1> QED BY <1>1, <1>3, <1>5, <1>6, QuietConn

LEMMA WriteStoppingConn ==
  ASSUME LabInv, LabInv', ConnInv, NEW s \in Stops, WriteStopping(s)
  PROVE  ConnInv'
  <1>1. stop' = [stop EXCEPT ![s].pc = "revoke"] /\ stop[s].pc = "mark"
        /\ UNCHANGED <<conns, lastConn, strays, stopped, known>>
    BY DEF WriteStopping, outside, history
  <1>2. /\ stop'[s].pc = "revoke" /\ stop'[s].lab = stop[s].lab /\ stop'[s].guac = stop[s].guac
        /\ \A z \in Stops \ {s} : stop'[z] = stop[z]
    BY <1>1 DEF LabInv, TypeInv, StopRecords
  <1>3. \A x \in Labs : (Revoked(x)' => Revoked(x)) /\ (Revoking(x) => Revoking(x)')
    BY <1>1, <1>2 DEF Revoked, Revoking
  <1>4. \A z \in Stops : NamesOwn(z)
    BY <1>2 DEF NamesOwn
  <1> QED BY <1>1, <1>3, <1>4, QuietConn

LEMMA TeardownConn ==
  ASSUME LabInv, LabInv', ConnInv, NEW s \in Stops, Teardown(s)
  PROVE  ConnInv'
  <1>1. PICK found \in {"removed", "failed"} :
          stop' = [stop EXCEPT ![s].pc = "settle", ![s].result = found]
    BY DEF Teardown
  <1>2. /\ stop[s].pc = "teardown" /\ UNCHANGED <<conns, lastConn, strays, stopped, known>>
    BY DEF Teardown, history
  <1>3. /\ stop'[s].pc = "settle" /\ stop'[s].lab = stop[s].lab /\ stop'[s].guac = stop[s].guac
        /\ \A z \in Stops \ {s} : stop'[z] = stop[z]
    BY <1>1 DEF LabInv, TypeInv, StopRecords
  <1>4. \A x \in Labs : (Revoked(x)' => Revoked(x)) /\ (Revoking(x) => Revoking(x)')
    BY <1>2, <1>3 DEF Revoked, Revoking
  <1>5. \A z \in Stops : NamesOwn(z)
    BY <1>3 DEF NamesOwn
  <1> QED BY <1>2, <1>4, <1>5, QuietConn

LEMMA SettleConn ==
  ASSUME LabInv, LabInv', ConnInv, NEW s \in Stops, Settle(s)
  PROVE  ConnInv'
  <1>0. stop[s].lab \in Labs
    BY DEF Settle, LabInv, Requested, TypeInv, StopRecords
  <1>1. /\ \A x \in Labs : known'[x].guac = known[x].guac
        /\ \A x \in Labs \ {stop[s].lab} : known'[x] = known[x]
        /\ known'[stop[s].lab].status # "READY"
    <2>1. known' = Marked(stop[s].lab, Outcome(s)) /\ Outcome(s) \in Statuses \ {"unknown", "READY"}
      BY DEF Settle, Outcome, Statuses
    <2>2. /\ \A x \in Labs \ {stop[s].lab} : known'[x] = known[x]
          /\ known'[stop[s].lab].guac = known[stop[s].lab].guac
          /\ known[stop[s].lab].status = "unknown" => known'[stop[s].lab] = known[stop[s].lab]
          /\ known[stop[s].lab].status # "unknown" => known'[stop[s].lab].status = Outcome(s)
      BY <2>1, MarkedIs, <1>0 DEF LabInv
    <2> QED BY <1>0, <2>1, <2>2
  <1>2. /\ stop' = [stop EXCEPT ![s].pc = "close"] /\ stop[s].pc = "settle"
        /\ UNCHANGED <<conns, lastConn, strays, stopped>>
    BY DEF Settle, outside, history
  <1>3. /\ stop'[s].pc = "close" /\ stop'[s].lab = stop[s].lab /\ stop'[s].guac = stop[s].guac
        /\ \A z \in Stops \ {s} : stop'[z] = stop[z]
    BY <1>2 DEF LabInv, TypeInv, StopRecords
  <1>4. /\ \A x \in Labs : Revoked(x)' => Revoked(x)
        /\ \A x \in Labs \ {stop[s].lab} : Revoking(x) => Revoking(x)'
    BY <1>2, <1>3 DEF Revoked, Revoking
  <1>5. \A z \in Stops : NamesOwn(z)
    BY <1>3 DEF NamesOwn
  <1> QED BY <1>1, <1>2, <1>4, <1>5, QuietConn

LEMMA CloseConn ==
  ASSUME LabInv, LabInv', ConnInv, NEW s \in Stops, Close(s)
  PROVE  ConnInv'
  <1>1. /\ stop' = [stop EXCEPT ![s] = Idle] /\ stop[s].pc = "close"
        /\ stopped' \subseteq stopped \cup {stop[s].lab}
        /\ UNCHANGED <<conns, lastConn, strays, known>>
    BY DEF Close, outside
  <1>2. /\ stop'[s].pc = "idle" /\ stop'[s].guac = 0
        /\ \A z \in Stops \ {s} : stop'[z] = stop[z]
    BY <1>1 DEF LabInv, TypeInv, Idle
  <1>3. \A x \in Labs : (Revoked(x)' => Revoked(x)) /\ (Revoking(x) => Revoking(x)')
    BY <1>1, <1>2 DEF Revoked, Revoking
  <1>4. \A z \in Stops : NamesOwn(z)
    BY <1>2 DEF NamesOwn
  <1> QED BY <1>1, <1>3, <1>4, QuietConn

LEMMA ReconnectConn ==
  ASSUME LabInv, LabInv', ConnInv, NEW r \in Reattaches, Reconnect(r)
  PROVE  ConnInv'
  <1> DEFINE l == reattach[r].lab
  <1>1. l \in Labs /\ UNCHANGED stop
    BY DEF Reconnect, LabInv, Requested, TypeInv, ReattachRecords
  <1>2. CASE CreateConnection(l) /\ known' = [known EXCEPT ![l].guac = lastConn']
    <2>1. known'[l].guac = lastConn' /\ \A x \in Labs \ {l} : known'[x] = known[x]
      BY <1>1, <1>2 DEF LabInv, TypeInv, KnownRecords
    <2> QED BY <1>1, <1>2, <2>1, CreateConn
  <1>3. CASE UNCHANGED <<conns, lastConn, known, history>>
    BY <1>1, <1>3, StillConn DEF history
  <1> QED BY <1>2, <1>3 DEF Reconnect

LEMMA StepConn ==
  ASSUME LabInv, LabInv', ConnInv, [Next]_vars
  PROVE  ConnInv'
  <1>1. CASE Restart
    BY <1>1, RestartConn
  <1>2. ASSUME NEW l \in Labs, Launch(l) \/ LaunchFails(l) \/ Boot(l) \/ Exit(l) \/ Insert(l)
                               \/ FindReady(l) \/ GiveUp(l) \/ Conclude(l)
        PROVE  ConnInv'
    BY <1>2, StillConn
       DEF Launch, LaunchFails, Boot, Exit, Insert, FindReady, GiveUp, Conclude, outside, requests,
           history
  <1>3. ASSUME NEW l \in Labs, Record(l) \/ Reject(l) \/ Register(l)
        PROVE  ConnInv'
    BY <1>3, RecordConn, RejectConn, RegisterConn
  <1>4. ASSUME NEW s \in Stops, Terminate(s) \/ \E l \in Labs : Stop(s, l)
        PROVE  ConnInv'
    BY <1>4, WriteStoppingConn, RevokeConn, TeardownConn, SettleConn, CloseConn, StopConn
       DEF Terminate
  <1>5. ASSUME NEW r \in Reattaches, Resolve(r) \/ \E l \in Labs : Reattach(r, l)
        PROVE  ConnInv'
    BY <1>5, StillConn DEF Resolve, Reattach, outside, history
  <1>6. ASSUME NEW r \in Reattaches, Reconnect(r)
        PROVE  ConnInv'
    BY <1>6, ReconnectConn
  <1>7. CASE UNCHANGED vars
    BY <1>7, StillConn DEF vars, outside, requests, history
  <1> QED BY <1>1, <1>2, <1>3, <1>4, <1>5, <1>6, <1>7 DEF Next, Provision

LEMMA ConnectionsHold == Spec => []ConnInv
  <1>1. LabInv /\ LabInv' /\ ConnInv /\ [Next]_vars => ConnInv'
    BY StepConn
  <1> QED
    BY InitConn, LabsHold, <1>1, PTL DEF Spec

(* A READY lab offers its user a connection that exists, or one that a     *)
(* stop of the lab has deleted and is about to report.                     *)
THEOREM LabsConnect == Spec => []ReadyConnects
  <1>1. ConnInv => ReadyConnects
    BY DEF ConnInv
  <1> QED
    BY ConnectionsHold, <1>1, PTL

(* A connection that outlives its lab's stop is one of the known strays,   *)
(* however stops, provisioning, reattachments and restarts interleave.     *)
THEOREM StraysOnly == Spec => []OnlyStraysAreLeft
  <1>1. ConnInv => OnlyStraysAreLeft
    BY DEF ConnInv, Accounted, OnlyStraysAreLeft, Revoked
  <1> QED
    BY ConnectionsHold, <1>1, PTL
=============================================================================
