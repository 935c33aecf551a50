-------------------------- MODULE IncidentDeskProofs --------------------------
(***************************************************************************)
(* Proofs about IncidentDesk, for any number of transactions, incidents,   *)
(* events and notes.                                                       *)
(*                                                                         *)
(*   WhatAnalystsAddStays   notes stay in their incident, and its timeline *)
(*                          reaches over what analysts linked              *)
(*                                                                         *)
(* The reason is one of versions: a transaction writes an incident from    *)
(* the row it read, the database refuses it when the row has changed, and  *)
(* so every write adds to the row that is there.                           *)
(***************************************************************************)
EXTENDS IncidentDesk, Integers, FiniteSetTheorems, WellFoundedInduction, TLAPS

RowFields == {"key", "open", "first", "last", "ips", "notes", "updated"}

(* The row of an incident: its window is over no later than now.           *)
IsIncident(r, now) ==
  /\ DOMAIN r = RowFields
  /\ r.first \in Nat /\ r.last \in Nat /\ r.last <= now

(* A write that takes nothing from a row.                                  *)
Grown(old, new) ==
  /\ new.first <= old.first /\ old.last <= new.last
  /\ old.ips \subseteq new.ips /\ old.notes \subseteq new.notes

TypeInv ==
  /\ second \in Nat
  /\ DOMAIN incidents \in SUBSET Numbers
  /\ \A i \in DOMAIN incidents : IsIncident(incidents[i], second)
  /\ revision \in [Numbers -> Nat]
  /\ DOMAIN task = Tasks
  /\ \A e \in stored : At(e) \in Nat /\ At(e) <= second

(* What a transaction read: its rows, no later than its first read, are    *)
(* those of now wherever the row has not changed.                          *)
SnapshotOK(k) ==
  /\ k.at \in Nat /\ k.at <= second
  /\ DOMAIN k.incidents \in SUBSET DOMAIN incidents
  /\ k.op \in AnalystOps => k.inc \in DOMAIN k.incidents
  /\ \A i \in DOMAIN k.incidents :
       /\ IsIncident(k.incidents[i], k.at)
       /\ k.revision[i] \in Nat /\ k.revision[i] <= revision[i]
       /\ k.revision[i] = revision[i] => incidents[i] = k.incidents[i]
  /\ k.stored \in SUBSET stored

Snapshots == \A t \in Tasks : task[t] # NoTask => SnapshotOK(task[t])

(* What an analyst linked is within the window and the addresses.          *)
IsCovered(l) ==
  /\ l.inc \in DOMAIN incidents
  /\ Source(l.event) \in incidents[l.inc].ips
  /\ At(l.event) \in Nat
  /\ incidents[l.inc].first <= At(l.event) /\ At(l.event) <= incidents[l.inc].last

Covered == \A l \in linked : l.by = "analyst" => IsCovered(l)

IsKept(n) == noted[n] \in DOMAIN incidents /\ n \in incidents[noted[n]].notes

Kept == \A n \in DOMAIN noted : IsKept(n)

DeskInv == TypeInv /\ Snapshots /\ Kept /\ Covered

(* A step writes incidents only by adding to them, and an incident it      *)
(* changes gets another revision.                                          *)
RowsGrow ==
  /\ DOMAIN incidents \subseteq DOMAIN incidents' /\ DOMAIN incidents' \in SUBSET Numbers
  /\ \A i \in DOMAIN incidents : Grown(incidents[i], incidents'[i])
  /\ \A i \in DOMAIN incidents' : IsIncident(incidents'[i], second')
  /\ revision' \in [Numbers -> Nat]
  /\ \A i \in DOMAIN incidents :
       /\ revision[i] <= revision'[i]
       /\ revision'[i] = revision[i] => incidents'[i] = incidents[i]

-----------------------------------------------------------------------------
(* The earliest and the latest.                                            *)

LEMMA LeastNat ==
  ASSUME NEW T \in SUBSET Nat, T # {}
  PROVE  \E x \in T : \A y \in T : x <= y
  <1>1. PICK x \in T : \A y \in T : ~ (<<y, x>> \in OpToRel(<, Nat))
    BY NatLessThanWellFounded, WFMin
  <1>2. ASSUME NEW y \in T PROVE x <= y
    <2>1. y \in Nat /\ x \in Nat /\ ~ (y < x)
      BY <1>1 DEF OpToRel
    <2> QED
      BY <2>1
  <1> QED
    BY <1>2

LEMMA Extremes ==
  ASSUME NEW S \in SUBSET Nat, S # {}, NEW b \in Nat, \A x \in S : x <= b
  PROVE  /\ Earliest(S) \in S /\ \A y \in S : Earliest(S) <= y
         /\ Latest(S) \in S /\ \A y \in S : Latest(S) >= y
  <1>1. Earliest(S) \in S /\ \A y \in S : Earliest(S) <= y
    <2>1. \E x \in S : \A y \in S : x <= y
      BY LeastNat
    <2> QED
      BY <2>1 DEF Earliest
  <1>2. \E x \in S : \A y \in S : x >= y
    <2> DEFINE T == {b - x : x \in S}
    <2>1. T \in SUBSET Nat /\ T # {}
      <3>1. \A x \in S : x \in Nat /\ b - x \in Nat
        OBVIOUS
      <3> QED
        BY <3>1
    <2>2. PICK t \in T : \A y \in T : t <= y
      BY <2>1, LeastNat
    <2>3. PICK x \in S : t = b - x
      BY <2>2
    <2>4. ASSUME NEW y \in S PROVE x >= y
      <3>1. b - y \in T
        OBVIOUS
      <3>2. t <= b - y
        BY <2>2, <3>1
      <3>3. x \in Nat /\ y \in Nat
        OBVIOUS
      <3> HIDE DEF T
      <3> QED
        BY <2>3, <3>2, <3>3
    <2> QED
      BY <2>4
  <1>3. Latest(S) \in S /\ \A y \in S : Latest(S) >= y
    BY <1>2 DEF Latest
  <1> QED
    BY <1>1, <1>3

(* Linking events widens the window over them and adds their addresses.    *)
LEMMA WidenedGrows ==
  ASSUME NEW now \in Nat, NEW r, IsIncident(r, now),
         NEW E, \A e \in E : At(e) \in Nat /\ At(e) <= now
  PROVE  /\ IsIncident(Widened(r, E), now) /\ Grown(r, Widened(r, E))
         /\ \A e \in E : /\ Source(e) \in Widened(r, E).ips
                         /\ Widened(r, E).first <= At(e) /\ At(e) <= Widened(r, E).last
  <1>1. CASE E = {}
    BY <1>1 DEF Widened, IsIncident, Grown
  <1>2. CASE E # {}
    <2> DEFINE S == {At(e) : e \in E}
               lo == Earliest(S)
               hi == Latest(S)
               a == IF lo < r.first THEN lo ELSE r.first
               z == IF hi > r.last THEN hi ELSE r.last
               ips == r.ips \cup {Source(e) : e \in E}
    <2>1. /\ lo \in Nat /\ hi \in Nat /\ hi <= now
          /\ \A e \in E : lo <= At(e) /\ At(e) <= hi /\ At(e) \in Nat
      <3>1. S \in SUBSET Nat /\ S # {} /\ \A x \in S : x <= now
        BY <1>2
      <3>2. /\ lo \in S /\ \A y \in S : lo <= y
            /\ hi \in S /\ \A y \in S : hi >= y
        <4> HIDE DEF S
        <4> QED
          BY <3>1, Extremes
      <3>3. \A e \in E : At(e) \in S
        OBVIOUS
      <3> HIDE DEF S, lo, hi
      <3> QED
        BY <3>1, <3>2, <3>3
    <2>2. Widened(r, E) = [r EXCEPT !.ips = ips, !.first = a, !.last = z]
      BY <1>2 DEF Widened
    <2> HIDE DEF lo, hi
    <2>3. r.first \in Nat /\ r.last \in Nat /\ r.last <= now /\ DOMAIN r = RowFields
      BY DEF IsIncident
    <2>4. /\ a \in Nat /\ z \in Nat /\ z <= now /\ a <= r.first /\ r.last <= z
          /\ \A e \in E : a <= At(e) /\ At(e) <= z
      BY <2>1, <2>3
    <2>5. r.ips \subseteq ips /\ \A e \in E : Source(e) \in ips
      OBVIOUS
    <2> HIDE DEF a, z, ips
    <2>6. /\ DOMAIN Widened(r, E) = RowFields
          /\ Widened(r, E).ips = ips /\ Widened(r, E).first = a /\ Widened(r, E).last = z
          /\ Widened(r, E).notes = r.notes
      BY <2>2, <2>3 DEF RowFields
    <2> QED
      BY <2>4, <2>5, <2>6 DEF IsIncident, Grown
  <1> QED
    BY <1>1, <1>2

-----------------------------------------------------------------------------
(* Writes.                                                                 *)

LEMMA GrownSame ==
  ASSUME NEW r, NEW now \in Nat, IsIncident(r, now)
  PROVE  Grown(r, r)
  BY DEF IsIncident, Grown

LEMMA LaterIncident ==
  ASSUME NEW r, NEW now \in Nat, NEW then \in Nat, now <= then, IsIncident(r, now)
  PROVE  IsIncident(r, then)
  BY DEF IsIncident

LEMMA RowsStay ==
  ASSUME TypeInv, UNCHANGED <<incidents, revision>>, second' \in Nat, second <= second'
  PROVE  RowsGrow
  <1>1. \A i \in DOMAIN incidents : Grown(incidents[i], incidents[i])
    BY GrownSame DEF TypeInv
  <1>2. \A i \in DOMAIN incidents : IsIncident(incidents[i], second')
    BY LaterIncident DEF TypeInv
  <1> QED
    BY <1>1, <1>2 DEF RowsGrow, TypeInv

(* An update from a snapshot that was not refused adds to the row.         *)
LEMMA UpdateAdds ==
  ASSUME ConflictsRefused, TypeInv, Snapshots, second' = second,
         NEW t \in Tasks, task[t] # NoTask, NEW i \in DOMAIN task[t].incidents,
         NEW new, IsIncident(new, second), Grown(task[t].incidents[i], new), Update(t, i, new)
  PROVE  RowsGrow /\ i \in DOMAIN incidents /\ i \in DOMAIN incidents' /\ incidents'[i] = new
  <1>1. i \in DOMAIN incidents /\ i \in Numbers /\ incidents[i] = task[t].incidents[i]
    BY DEF Snapshots, SnapshotOK, Update, TypeInv
  <1>2. Grown(incidents[i], new)
    BY <1>1
  <1>3. /\ incidents' = [incidents EXCEPT ![i] = new]
        /\ revision' = [revision EXCEPT ![i] = IF new = incidents[i] THEN @ ELSE @ + 1]
    BY DEF Update
  <1>4. DOMAIN incidents' = DOMAIN incidents /\ incidents'[i] = new
    BY <1>1, <1>3
  <1>5. \A j \in DOMAIN incidents : Grown(incidents[j], incidents'[j])
    BY <1>2, <1>3, GrownSame DEF TypeInv
  <1>6. \A j \in DOMAIN incidents' : IsIncident(incidents'[j], second')
    BY <1>3, <1>4 DEF TypeInv
  <1>7. revision' \in [Numbers -> Nat]
    BY <1>1, <1>3 DEF TypeInv
  <1>8. \A j \in DOMAIN incidents :
          /\ revision[j] <= revision'[j]
          /\ revision'[j] = revision[j] => incidents'[j] = incidents[j]
    <2>1. \A j \in DOMAIN incidents : revision[j] \in Nat
      BY DEF TypeInv
    <2> QED
      BY <1>1, <1>3, <2>1 DEF TypeInv
  <1> QED
    BY <1>1, <1>4, <1>5, <1>6, <1>7, <1>8 DEF RowsGrow, TypeInv

LEMMA OpenAdds ==
  ASSUME TypeInv, second' = second, NEW t, NEW new, IsIncident(new, second), Open(t, new)
  PROVE  /\ RowsGrow
         /\ NextNumber(t) \in DOMAIN incidents' /\ incidents'[NextNumber(t)] = new
  <1>1. PICK n : n = NextNumber(t)
    OBVIOUS
  <1>2. /\ n \in Numbers \ DOMAIN incidents /\ revision' = revision
        /\ incidents' = [i \in DOMAIN incidents \cup {n} |-> IF i = n THEN new ELSE incidents[i]]
    BY <1>1 DEF Open
  <1>3. \A j \in DOMAIN incidents : incidents'[j] = incidents[j]
    BY <1>2
  <1>4. \A j \in DOMAIN incidents : Grown(incidents[j], incidents'[j])
    BY <1>3, GrownSame DEF TypeInv
  <1>5. \A j \in DOMAIN incidents' : IsIncident(incidents'[j], second')
    BY <1>2 DEF TypeInv
  <1> QED
    BY <1>1, <1>2, <1>3, <1>4, <1>5 DEF RowsGrow, TypeInv

-----------------------------------------------------------------------------
(* The invariant is kept by every step that only adds to incidents.        *)

LEMMA SnapshotsStay ==
  ASSUME TypeInv, NEW k, SnapshotOK(k), RowsGrow, second <= second', second' \in Nat,
         stored \subseteq stored'
  PROVE  SnapshotOK(k)'
  <1>1. k.at \in Nat /\ k.at <= second'
    BY DEF SnapshotOK, TypeInv
  <1>2. DOMAIN k.incidents \in SUBSET DOMAIN incidents'
    BY DEF SnapshotOK, RowsGrow
  <1>3. ASSUME NEW i \in DOMAIN k.incidents
        PROVE  /\ IsIncident(k.incidents[i], k.at)
               /\ k.revision[i] \in Nat /\ k.revision[i] <= revision'[i]
               /\ k.revision[i] = revision'[i] => incidents'[i] = k.incidents[i]
    <2>1. /\ i \in DOMAIN incidents /\ IsIncident(k.incidents[i], k.at)
          /\ k.revision[i] \in Nat /\ k.revision[i] <= revision[i]
          /\ k.revision[i] = revision[i] => incidents[i] = k.incidents[i]
      BY DEF SnapshotOK
    <2>2. /\ revision[i] <= revision'[i]
          /\ revision'[i] = revision[i] => incidents'[i] = incidents[i]
      BY <2>1 DEF RowsGrow
    <2>3. revision[i] \in Nat /\ revision'[i] \in Nat
      BY <2>1 DEF TypeInv, RowsGrow
    <2> QED
      BY <2>1, <2>2, <2>3
  <1> QED
    BY <1>1, <1>2, <1>3 DEF SnapshotOK, IsIncident

LEMMA DeskKept ==
  ASSUME DeskInv, RowsGrow, second <= second', second' \in Nat,
         stored \subseteq stored', \A e \in stored' : At(e) \in Nat /\ At(e) <= second',
         DOMAIN task' = Tasks,
         \A t \in Tasks : task'[t] # NoTask =>
            task'[t] = task[t] \/ \E k : k = task'[t] /\ SnapshotOK(k)',
         \A n \in DOMAIN noted' :
           (n \in DOMAIN noted /\ noted'[n] = noted[n]) \/ IsKept(n)',
         \A l \in linked' : l.by = "analyst" => l \in linked \/ IsCovered(l)'
  PROVE  DeskInv'
  <1> USE DEF DeskInv
  <1>1. TypeInv'
    BY DEF TypeInv, RowsGrow
  <1>2. Snapshots'
    <2> SUFFICES ASSUME NEW t \in Tasks, NEW k, k = task'[t], k # NoTask
                 PROVE  SnapshotOK(k)'
      BY DEF Snapshots
    <2>1. CASE k = task[t]
      <3>1. SnapshotOK(k)
        BY <2>1 DEF Snapshots
      <3> QED
        BY <3>1, SnapshotsStay
    <2>2. CASE k # task[t]
      BY <2>2
    <2> QED
      BY <2>1, <2>2
  <1>3. Kept'
    BY DEF Kept, IsKept, RowsGrow, Grown
  <1>4. Covered'
    <2> SUFFICES ASSUME NEW l \in linked, l.by = "analyst" PROVE IsCovered(l)'
      BY DEF Covered
    <2>1. IsCovered(l)
      BY DEF Covered
    <2>2. l.inc \in DOMAIN incidents /\ l.inc \in DOMAIN incidents'
      BY <2>1 DEF IsCovered, RowsGrow
    <2>3. Grown(incidents[l.inc], incidents'[l.inc])
      BY <2>2 DEF RowsGrow
    <2>4. /\ incidents[l.inc].first \in Nat /\ incidents[l.inc].last \in Nat
          /\ incidents'[l.inc].first \in Nat /\ incidents'[l.inc].last \in Nat
      BY <2>2 DEF TypeInv, RowsGrow, IsIncident
    <2> QED
      BY <2>1, <2>2, <2>3, <2>4 DEF IsCovered, Grown
  <1> QED
    BY <1>1, <1>2, <1>3, <1>4

(* A transaction that ends: what is left is to say what it wrote.          *)
LEMMA TaskEnds ==
  ASSUME DeskInv, NEW t \in Tasks, EndTask(t), RowsGrow,
         \A n \in DOMAIN noted' :
           (n \in DOMAIN noted /\ noted'[n] = noted[n]) \/ IsKept(n)',
         \A l \in linked' : l.by = "analyst" => l \in linked \/ IsCovered(l)'
  PROVE  DeskInv'
  <1>1. /\ task' = [task EXCEPT ![t] = NoTask] /\ stored' = stored /\ second' = second
    BY DEF EndTask
  <1>2. DOMAIN task' = Tasks /\ \A u \in Tasks : task'[u] = IF u = t THEN NoTask ELSE task[u]
    BY <1>1 DEF DeskInv, TypeInv
  <1>3. /\ second \in Nat /\ second' \in Nat /\ second <= second'
        /\ \A e \in stored' : At(e) \in Nat /\ At(e) <= second'
    BY <1>1 DEF DeskInv, TypeInv
  <1>4. \A u \in Tasks : task'[u] # NoTask =>
          task'[u] = task[u] \/ \E k : k = task'[u] /\ SnapshotOK(k)'
    BY <1>2
  <1> HIDE DEF DeskInv
  <1> QED
    BY <1>1, <1>2, <1>3, <1>4, DeskKept

(* The row an analyst's transaction read.                                  *)
LEMMA MineIs ==
  ASSUME DeskInv, NEW t \in Tasks, task[t] # NoTask, task[t].op \in AnalystOps
  PROVE  /\ second \in Nat /\ task[t].inc \in DOMAIN task[t].incidents
         /\ IsIncident(Mine(t), second) /\ Mine(t) = task[t].incidents[task[t].inc]
         /\ \A e \in task[t].stored : At(e) \in Nat /\ At(e) <= second
  <1>1. SnapshotOK(task[t]) /\ second \in Nat
    BY DEF DeskInv, Snapshots, TypeInv
  <1>2. /\ task[t].inc \in DOMAIN task[t].incidents /\ task[t].at \in Nat /\ task[t].at <= second
        /\ IsIncident(task[t].incidents[task[t].inc], task[t].at)
        /\ task[t].stored \subseteq stored
    BY <1>1 DEF SnapshotOK
  <1>3. IsIncident(Mine(t), second)
    BY <1>1, <1>2, LaterIncident DEF Mine
  <1> QED
    BY <1>1, <1>2, <1>3 DEF Mine, DeskInv, TypeInv

(* Columns that are no part of the window, the addresses or the notes.     *)
LEMMA OtherColumns ==
  ASSUME NEW now \in Nat, NEW r, IsIncident(r, now), NEW new,
         DOMAIN new = RowFields, new.first = r.first, new.last = r.last, new.ips = r.ips,
         r.notes \subseteq new.notes
  PROVE  IsIncident(new, now) /\ Grown(r, new)
  BY DEF IsIncident, Grown

-----------------------------------------------------------------------------
(* Every action keeps the invariant.                                       *)

LEMMA BeginTaskKeeps ==
  ASSUME DeskInv, NEW t \in Tasks, BeginTask(t)
  PROVE  DeskInv'
  <1>1. /\ UNCHANGED <<deskTables, stored, second, noted>>
        /\ task' = [task EXCEPT ![t] = task'[t]]
    BY DEF BeginTask, DeskInv, TypeInv
  <1>2. UNCHANGED <<incidents, revision, linked, stored, second, noted>>
    BY <1>1 DEF deskTables
  <1>3. /\ second \in Nat /\ second' \in Nat /\ second <= second'
        /\ \A e \in stored' : At(e) \in Nat /\ At(e) <= second'
    BY <1>2 DEF DeskInv, TypeInv
  <1>4. RowsGrow
    BY <1>2, <1>3, RowsStay DEF DeskInv
  <1>5. DOMAIN task' = Tasks /\ \A u \in Tasks : u # t => task'[u] = task[u]
    BY <1>1 DEF DeskInv, TypeInv
  <1>6. \E k : k = task'[t] /\ SnapshotOK(k)'
    <2>1. PICK op \in AnalystOps \cup {"create", "correlate"}, i \in Numbers :
            /\ op \in AnalystOps => i \in DOMAIN incidents
            /\ task' = [task EXCEPT ![t] =
                     [op |-> op, inc |-> i, at |-> second, incidents |-> incidents,
                      revision |-> revision, linked |-> linked,
                      indicators |-> indicators, stored |-> stored]]
      BY DEF BeginTask
    <2>2. PICK k : k = [op |-> op, inc |-> i, at |-> second, incidents |-> incidents,
                      revision |-> revision, linked |-> linked,
                      indicators |-> indicators, stored |-> stored]
      OBVIOUS
    <2>3. k = task'[t]
      BY <2>1, <2>2 DEF DeskInv, TypeInv
    <2>4. /\ k.op = op /\ k.inc = i /\ k.at = second /\ k.incidents = incidents
          /\ k.revision = revision /\ k.stored = stored
      BY <2>2
    <2>5. SnapshotOK(k)
      <3>1. \A j \in DOMAIN incidents : IsIncident(incidents[j], second) /\ revision[j] \in Nat
        BY DEF DeskInv, TypeInv
      <3> QED
        BY <1>3, <2>1, <2>4, <3>1 DEF SnapshotOK
    <2>6. SnapshotOK(k)'
      BY <1>3, <1>2, <1>4, <2>5, SnapshotsStay DEF DeskInv
    <2> QED
      BY <2>3, <2>6
  <1>7. \A u \in Tasks : task'[u] # NoTask =>
          task'[u] = task[u] \/ \E k : k = task'[u] /\ SnapshotOK(k)'
    BY <1>5, <1>6
  <1> QED
    BY <1>2, <1>3, <1>4, <1>5, <1>7, DeskKept

LEMMA AbandonKeeps ==
  ASSUME DeskInv, NEW t \in Tasks, Abandon(t)
  PROVE  DeskInv'
  <1>1. EndTask(t) /\ UNCHANGED <<incidents, revision, linked, noted, second>>
    BY DEF Abandon, deskTables, EndTask
  <1>2. RowsGrow
    BY <1>1, RowsStay DEF DeskInv, TypeInv
  <1> QED
    BY <1>1, <1>2, TaskEnds

(* An update of other columns, by a transaction that touches the links and *)
(* the notes no more than that.                                            *)
LEMMA PlainUpdateKeeps ==
  ASSUME ConflictsRefused, DeskInv, NEW t \in Tasks, task[t] # NoTask,
         task[t].op \in AnalystOps, EndTask(t), UNCHANGED <<linked, noted>>,
         NEW new, Update(t, task[t].inc, new), DOMAIN new = RowFields,
         new.first = Mine(t).first, new.last = Mine(t).last,
         new.ips = Mine(t).ips, new.notes = Mine(t).notes
  PROVE  DeskInv'
  <1>1. second' = second
    BY DEF EndTask
  <1>2. /\ second \in Nat /\ task[t].inc \in DOMAIN task[t].incidents
        /\ IsIncident(Mine(t), second) /\ Mine(t) = task[t].incidents[task[t].inc]
    BY MineIs
  <1>3. IsIncident(new, second) /\ Grown(task[t].incidents[task[t].inc], new)
    BY <1>2, OtherColumns
  <1>4. RowsGrow
    BY <1>1, <1>2, <1>3, UpdateAdds DEF DeskInv
  <1> QED
    BY <1>4, TaskEnds

LEMMA PatchIncidentKeeps ==
  ASSUME ConflictsRefused, DeskInv, NEW t \in Tasks, PatchIncident(t)
  PROVE  DeskInv'
  <1>1. PICK open \in BOOLEAN :
          Update(t, task[t].inc, [Mine(t) EXCEPT !.open = open, !.updated = second])
    BY DEF PatchIncident
  <1>2. /\ task[t] # NoTask /\ task[t].op \in AnalystOps
        /\ EndTask(t) /\ UNCHANGED <<linked, noted>>
    BY DEF PatchIncident, Doing, AnalystOps
  <1>3. PICK new : new = [Mine(t) EXCEPT !.open = open, !.updated = second]
    OBVIOUS
  <1>4. DOMAIN Mine(t) = RowFields
    BY <1>2, MineIs DEF IsIncident
  <1>5. /\ DOMAIN new = RowFields /\ new.first = Mine(t).first /\ new.last = Mine(t).last
        /\ new.ips = Mine(t).ips /\ new.notes = Mine(t).notes
    BY <1>3, <1>4 DEF RowFields
  <1> QED
    BY <1>1, <1>2, <1>3, <1>5, PlainUpdateKeeps

(* Only the time of the last change.                                       *)
LEMMA TouchKeeps ==
  ASSUME ConflictsRefused, DeskInv, NEW t \in Tasks, task[t] # NoTask,
         task[t].op \in AnalystOps, EndTask(t), UNCHANGED <<linked, noted>>,
         Update(t, task[t].inc, [Mine(t) EXCEPT !.updated = second])
  PROVE  DeskInv'
  <1>1. PICK new : new = [Mine(t) EXCEPT !.updated = second]
    OBVIOUS
  <1>2. DOMAIN Mine(t) = RowFields
    BY MineIs DEF IsIncident
  <1>3. /\ DOMAIN new = RowFields /\ new.first = Mine(t).first /\ new.last = Mine(t).last
        /\ new.ips = Mine(t).ips /\ new.notes = Mine(t).notes
    BY <1>1, <1>2 DEF RowFields
  <1> QED
    BY <1>1, <1>3, PlainUpdateKeeps

LEMMA NothingWrittenKeeps ==
  ASSUME DeskInv, NEW t \in Tasks, EndTask(t), UNCHANGED <<deskTables, noted>>
  PROVE  DeskInv'
  <1>1. UNCHANGED <<incidents, revision, linked, noted, second>>
    BY DEF deskTables, EndTask
  <1>2. RowsGrow
    BY <1>1, RowsStay DEF DeskInv, TypeInv
  <1> QED
    BY <1>1, <1>2, TaskEnds

LEMMA AddIocKeeps ==
  ASSUME ConflictsRefused, DeskInv, NEW t \in Tasks, AddIoc(t)
  PROVE  DeskInv'
  <1>1. /\ task[t] # NoTask /\ task[t].op \in AnalystOps
        /\ EndTask(t) /\ UNCHANGED noted
    BY DEF AddIoc, Doing, AnalystOps
  <1>2. \/ UNCHANGED deskTables
        \/ Update(t, task[t].inc, [Mine(t) EXCEPT !.updated = second]) /\ UNCHANGED linked
    BY DEF AddIoc
  <1> QED
    BY <1>1, <1>2, NothingWrittenKeeps, TouchKeeps

LEMMA RemoveIocKeeps ==
  ASSUME ConflictsRefused, DeskInv, NEW t \in Tasks, RemoveIoc(t)
  PROVE  DeskInv'
  <1>1. /\ task[t] # NoTask /\ task[t].op \in AnalystOps
        /\ EndTask(t) /\ UNCHANGED <<linked, noted>>
    BY DEF RemoveIoc, Doing, AnalystOps
  <1>2. Update(t, task[t].inc, [Mine(t) EXCEPT !.updated = second])
    BY DEF RemoveIoc
  <1> QED
    BY <1>1, <1>2, TouchKeeps

LEMMA AddNoteKeeps ==
  ASSUME ConflictsRefused, DeskInv, NEW t \in Tasks, AddNote(t)
  PROVE  DeskInv'
  <1>1. /\ task[t] # NoTask /\ task[t].op \in AnalystOps
        /\ EndTask(t) /\ UNCHANGED linked
    BY DEF AddNote, Doing, AnalystOps
  <1>2. PICK i : i = task[t].inc
    OBVIOUS
  <1>3. PICK n \in Notes \ DOMAIN noted :
          /\ Update(t, i, [Mine(t) EXCEPT !.notes = @ \cup {n}, !.updated = second])
          /\ noted' = [m \in DOMAIN noted \cup {n} |-> IF m = n THEN i ELSE noted[m]]
    BY <1>2 DEF AddNote
  <1>4. PICK new : new = [Mine(t) EXCEPT !.notes = @ \cup {n}, !.updated = second]
    OBVIOUS
  <1>5. /\ second \in Nat /\ i \in DOMAIN task[t].incidents
        /\ IsIncident(Mine(t), second) /\ Mine(t) = task[t].incidents[i]
    BY <1>1, <1>2, MineIs
  <1>6. /\ DOMAIN new = RowFields /\ new.first = Mine(t).first /\ new.last = Mine(t).last
        /\ new.ips = Mine(t).ips /\ new.notes = Mine(t).notes \cup {n}
    BY <1>4, <1>5 DEF RowFields, IsIncident
  <1>7. IsIncident(new, second) /\ Grown(task[t].incidents[i], new)
    BY <1>5, <1>6, OtherColumns
  <1>8. RowsGrow /\ i \in DOMAIN incidents' /\ incidents'[i] = new
    <2>1. second' = second
      BY <1>1 DEF EndTask
    <2> QED
      BY <1>1, <1>3, <1>4, <1>5, <1>7, <2>1, UpdateAdds DEF DeskInv
  <1>9. \A m \in DOMAIN noted' :
          (m \in DOMAIN noted /\ noted'[m] = noted[m]) \/ IsKept(m)'
    <2>1. noted'[n] = i /\ n \in incidents'[i].notes
      BY <1>3, <1>6, <1>8
    <2>2. IsKept(n)'
      BY <1>8, <2>1 DEF IsKept
    <2>3. \A m \in DOMAIN noted' : m = n \/ (m \in DOMAIN noted /\ noted'[m] = noted[m])
      BY <1>3
    <2> QED
      BY <2>2, <2>3
  <1> QED
    BY <1>1, <1>8, <1>9, TaskEnds

(* The window and the addresses are widened over what the request links.   *)
LEMMA LinkEventsKeeps ==
  ASSUME ConflictsRefused, DeskInv, NEW t \in Tasks, LinkEvents(t)
  PROVE  DeskInv'
  <1>1. /\ task[t] # NoTask /\ task[t].op \in AnalystOps
        /\ EndTask(t) /\ UNCHANGED noted
    BY DEF LinkEvents, Doing, AnalystOps
  <1>2. PICK i : i = task[t].inc
    OBVIOUS
  <1>3. PICK new \in SUBSET task[t].stored :
          \/ UNCHANGED deskTables
          \/ /\ Update(t, i, [Widened(Mine(t), new) EXCEPT !.updated = second])
             /\ linked' = linked \cup LinksOf(i, new, "analyst")
    BY <1>2 DEF LinkEvents
  <1>4. CASE UNCHANGED deskTables
    BY <1>1, <1>4, NothingWrittenKeeps
  <1>5. CASE /\ Update(t, i, [Widened(Mine(t), new) EXCEPT !.updated = second])
             /\ linked' = linked \cup LinksOf(i, new, "analyst")
    <2>1. PICK wide : wide = Widened(Mine(t), new)
      OBVIOUS
    <2>2. PICK row : row = [wide EXCEPT !.updated = second]
      OBVIOUS
    <2>3. /\ second \in Nat /\ i \in DOMAIN task[t].incidents
          /\ IsIncident(Mine(t), second) /\ Mine(t) = task[t].incidents[i]
          /\ \A e \in new : At(e) \in Nat /\ At(e) <= second
      BY <1>1, <1>2, MineIs
    <2>4. /\ IsIncident(wide, second) /\ Grown(Mine(t), wide)
          /\ \A e \in new : /\ Source(e) \in wide.ips
                            /\ wide.first <= At(e) /\ At(e) <= wide.last
      BY <2>1, <2>3, WidenedGrows
    <2>5. /\ DOMAIN row = RowFields /\ row.first = wide.first /\ row.last = wide.last
          /\ row.ips = wide.ips /\ row.notes = wide.notes
      BY <2>2, <2>4 DEF RowFields, IsIncident
    <2>6. IsIncident(row, second) /\ Grown(task[t].incidents[i], row)
      BY <2>3, <2>4, <2>5 DEF IsIncident, Grown
    <2>7. RowsGrow /\ i \in DOMAIN incidents' /\ incidents'[i] = row
      <3>1. second' = second
        BY <1>1 DEF EndTask
      <3> QED
        BY <1>1, <1>5, <2>1, <2>2, <2>3, <2>6, <3>1, UpdateAdds DEF DeskInv
    <2>8. \A l \in linked' : l.by = "analyst" => l \in linked \/ IsCovered(l)'
      <3>1. ASSUME NEW l \in LinksOf(i, new, "analyst") PROVE IsCovered(l)'
        <4>1. l.inc = i /\ l.event \in new
          BY DEF LinksOf
        <4> QED
          BY <2>3, <2>4, <2>5, <2>7, <4>1 DEF IsCovered
      <3> QED
        BY <1>5, <3>1
    <2> QED
      BY <1>1, <2>7, <2>8, TaskEnds
  <1> QED
    BY <1>3, <1>4, <1>5

(* What a transaction that opens or finds an incident may use.             *)
LEMMA ReadBefore ==
  ASSUME DeskInv, NEW t \in Tasks, task[t] # NoTask, NEW now \in task[t].at..second
  PROVE  /\ second \in Nat /\ now \in Nat /\ now <= second
         /\ \A e \in task[t].stored : At(e) \in Nat /\ At(e) <= second
         /\ \A i \in DOMAIN task[t].incidents :
              IsIncident(task[t].incidents[i], now)
  <1>1. SnapshotOK(task[t]) /\ second \in Nat
    BY DEF DeskInv, Snapshots, TypeInv
  <1>2. /\ task[t].at \in Nat /\ task[t].stored \subseteq stored
        /\ \A i \in DOMAIN task[t].incidents : IsIncident(task[t].incidents[i], task[t].at)
    BY <1>1 DEF SnapshotOK
  <1>3. now \in Nat /\ now <= second /\ task[t].at <= now
    BY <1>1, <1>2
  <1> QED
    BY <1>1, <1>2, <1>3, LaterIncident DEF DeskInv, TypeInv

LEMMA NewIncident ==
  ASSUME NEW now \in Nat, NEW then \in Nat, now <= then, NEW key, NEW ips, NEW notes
  PROVE  IsIncident(Incident(key, ips, now, notes), then)
  BY DEF Incident, IsIncident, RowFields

LEMMA CreateIncidentKeeps ==
  ASSUME DeskInv, NEW t \in Tasks, CreateIncident(t)
  PROVE  DeskInv'
  <1>1. task[t] # NoTask /\ EndTask(t) /\ UNCHANGED noted /\ second' = second
    BY DEF CreateIncident, Doing, EndTask
  <1>2. PICK n : n = NextNumber(t)
    OBVIOUS
  <1>3. PICK E \in SUBSET task[t].stored, ips \in {{}} \cup {{s} : s \in Sources},
             now \in task[t].at..second :
          /\ Open(t, Widened(Incident(ips, ips, now, {}), E))
          /\ linked' = linked \cup LinksOf(n, E, "analyst")
    BY <1>2 DEF CreateIncident
  <1>4. PICK row : row = Widened(Incident(ips, ips, now, {}), E)
    OBVIOUS
  <1>5. /\ second \in Nat /\ now \in Nat /\ now <= second
        /\ \A e \in E : At(e) \in Nat /\ At(e) <= second
    BY <1>1, ReadBefore
  <1>6. /\ IsIncident(row, second)
        /\ \A e \in E : Source(e) \in row.ips /\ row.first <= At(e) /\ At(e) <= row.last
    <2>1. PICK r : r = Incident(ips, ips, now, {})
      OBVIOUS
    <2>2. IsIncident(r, second)
      BY <1>5, <2>1, NewIncident
    <2> QED
      BY <1>4, <1>5, <2>1, <2>2, WidenedGrows
  <1>7. RowsGrow /\ n \in DOMAIN incidents' /\ incidents'[n] = row
    BY <1>1, <1>2, <1>3, <1>4, <1>6, OpenAdds DEF DeskInv
  <1>8. \A l \in linked' : l.by = "analyst" => l \in linked \/ IsCovered(l)'
    <2>1. ASSUME NEW l \in LinksOf(n, E, "analyst") PROVE IsCovered(l)'
      <3>1. l.inc = n /\ l.event \in E
        BY DEF LinksOf
      <3> QED
        BY <1>5, <1>6, <1>7, <3>1 DEF IsCovered
    <2> QED
      BY <1>3, <2>1
  <1> QED
    BY <1>1, <1>7, <1>8, TaskEnds

(* The engine moves the end of the incident it finds to now, which is no   *)
(* earlier than what its cycle read, and links none for an analyst.        *)
LEMMA CorrelateKeeps ==
  ASSUME ConflictsRefused, DeskInv, NEW t \in Tasks, Correlate(t)
  PROVE  DeskInv'
  <1>1. task[t] # NoTask /\ EndTask(t) /\ UNCHANGED noted /\ second' = second
    BY DEF Correlate, Doing, EndTask
  <1>2. PICK s \in Sources, now \in task[t].at..second,
             E \in SUBSET task[t].stored :
          LET found == Current(t, s, now)
          IN  \/ /\ Open(t, Incident({s}, {s}, now, {}))
                 /\ linked' = linked \cup LinksOf(NextNumber(t), E, "engine")
              \/ \E i \in found :
                 /\ Update(t, i, [task[t].incidents[i] EXCEPT
                                    !.last = now, !.ips = @ \cup {s}, !.updated = now])
                 /\ linked' = linked \cup LinksOf(i, E \ LinkedTo(task[t].linked, i), "engine")
    BY DEF Correlate
  <1>3. /\ second \in Nat /\ now \in Nat /\ now <= second
        /\ \A i \in DOMAIN task[t].incidents : IsIncident(task[t].incidents[i], now)
    BY <1>1, ReadBefore
  <1>4. RowsGrow
    <2>1. CASE Open(t, Incident({s}, {s}, now, {}))
      <3>1. PICK row : row = Incident({s}, {s}, now, {})
        OBVIOUS
      <3>2. IsIncident(row, second)
        BY <1>3, <3>1, NewIncident
      <3> QED
        BY <1>1, <2>1, <3>1, <3>2, OpenAdds DEF DeskInv
    <2>2. CASE \E i \in Current(t, s, now) :
                 Update(t, i, [task[t].incidents[i] EXCEPT
                                 !.last = now, !.ips = @ \cup {s}, !.updated = now])
      <3>1. PICK i \in Current(t, s, now) :
              Update(t, i, [task[t].incidents[i] EXCEPT
                              !.last = now, !.ips = @ \cup {s}, !.updated = now])
        BY <2>2
      <3>2. i \in DOMAIN task[t].incidents
        BY DEF Current
      <3>3. PICK old : old = task[t].incidents[i]
        OBVIOUS
      <3>4. PICK row : row = [old EXCEPT !.last = now, !.ips = @ \cup {s}, !.updated = now]
        OBVIOUS
      <3>5. IsIncident(old, now)
        BY <1>3, <3>2, <3>3
      <3>6. /\ DOMAIN row = RowFields /\ row.first = old.first /\ row.last = now
            /\ row.ips = old.ips \cup {s} /\ row.notes = old.notes
        BY <3>4, <3>5 DEF RowFields, IsIncident
      <3>7. IsIncident(row, second) /\ Grown(old, row)
        BY <1>3, <3>5, <3>6 DEF IsIncident, Grown
      <3> QED
        BY <1>1, <3>1, <3>2, <3>3, <3>4, <3>7, UpdateAdds DEF DeskInv
    <2> QED
      BY <1>2, <2>1, <2>2
  <1>5. \A l \in linked' : l.by = "analyst" => l \in linked
    <2>1. \A i, F : \A l \in LinksOf(i, F, "engine") : l.by # "analyst"
      BY DEF LinksOf
    <2> QED
      BY <1>2, <2>1
  <1> QED
    BY <1>1, <1>4, <1>5, TaskEnds

(* Telemetry arrives, time passes.                                         *)
LEMMA WorldKeeps ==
  ASSUME DeskInv, Arrive \/ Tick \/ UNCHANGED deskVars
  PROVE  DeskInv'
  <1>1. /\ second \in Nat /\ second' \in Nat /\ second <= second'
        /\ \A e \in stored : At(e) \in Nat /\ At(e) <= second'
    BY DEF Tick, Arrive, deskVars, DeskInv, TypeInv
  <1>2. UNCHANGED <<incidents, revision, linked, task, noted>>
    BY DEF Tick, Arrive, deskVars, deskTables
  <1>3. /\ stored \subseteq stored'
        /\ \A e \in stored' : At(e) \in Nat /\ At(e) <= second'
    <2>1. CASE Arrive
      <3>1. PICK e \in Events : At(e) <= second /\ stored' = stored \cup {e}
        BY <2>1 DEF Arrive
      <3>2. At(e) \in Nat
        BY DEF Events, At, DeskAssumption
      <3>3. second' = second
        BY <2>1 DEF Arrive
      <3> QED
        BY <1>1, <3>1, <3>2, <3>3
    <2>2. CASE Tick \/ UNCHANGED deskVars
      BY <1>1, <2>2 DEF Tick, deskVars
    <2> QED
      BY <2>1, <2>2
  <1>4. RowsGrow
    BY <1>1, <1>2, RowsStay DEF DeskInv
  <1>5. DOMAIN task' = Tasks /\ \A t \in Tasks : task'[t] = task[t]
    BY <1>2 DEF DeskInv, TypeInv
  <1> QED
    BY <1>1, <1>2, <1>3, <1>4, <1>5, DeskKept

LEMMA InitDesk ==
  ASSUME DeskInit
  PROVE  DeskInv
  <1>1. /\ second = 1 /\ revision \in [Numbers -> Nat] /\ DOMAIN task = Tasks
        /\ \A t \in Tasks : task[t] = NoTask
        /\ DOMAIN noted = {}
    BY DEF DeskInit
  <1>2. /\ DOMAIN incidents \in SUBSET Numbers
        /\ \A i \in DOMAIN incidents : IsIncident(incidents[i], 1)
        /\ \A e \in stored : At(e) = 1
        /\ \A l \in linked : l.by # "analyst"
    <2>1. CASE incidents = [i \in {} |-> 0] /\ linked = {} /\ stored = {}
      BY <2>1
    <2>2. CASE \E s : /\ incidents = [i \in {1} |-> Incident({s}, {s}, 1, {})]
                      /\ linked = LinksOf(1, {<<s, 1>>}, "engine")
                      /\ stored = {<<s, 1>>}
      <3>1. 1 \in Numbers
        BY DeskAssumption DEF Numbers
      <3>2. \A s : IsIncident(Incident({s}, {s}, 1, {}), 1)
        BY NewIncident
      <3>3. \A s, l : l \in LinksOf(1, {<<s, 1>>}, "engine") => l.by # "analyst"
        BY DEF LinksOf
      <3>4. PICK s : /\ incidents = [i \in {1} |-> Incident({s}, {s}, 1, {})]
                     /\ linked = LinksOf(1, {<<s, 1>>}, "engine")
                     /\ stored = {<<s, 1>>}
        BY <2>2
      <3>5. DOMAIN incidents \in SUBSET Numbers
        BY <3>1, <3>4
      <3>6. \A i \in DOMAIN incidents : IsIncident(incidents[i], 1)
        BY <3>2, <3>4
      <3>7. \A e \in stored : At(e) = 1
        BY <3>4 DEF At
      <3>8. \A l \in linked : l.by # "analyst"
        BY <3>3, <3>4
      <3> QED
        BY <3>5, <3>6, <3>7, <3>8
    <2> QED
      BY <2>1, <2>2 DEF DeskInit
  <1> QED
    BY <1>1, <1>2 DEF DeskInv, TypeInv, Snapshots, Kept, Covered

LEMMA DeskStep ==
  ASSUME ConflictsRefused, DeskInv, [DeskNext]_deskVars
  PROVE  DeskInv'
  <1>1. CASE Arrive \/ Tick \/ UNCHANGED deskVars
    BY <1>1, WorldKeeps
  <1>2. ASSUME NEW t \in Tasks, BeginTask(t) \/ Work(t) \/ Abandon(t)
        PROVE  DeskInv'
    <2>1. CASE BeginTask(t)
      BY <2>1, BeginTaskKeeps
    <2>2. CASE PatchIncident(t)
      BY <2>2, PatchIncidentKeeps
    <2>3. CASE LinkEvents(t)
      BY <2>3, LinkEventsKeeps
    <2>4. CASE AddIoc(t)
      BY <2>4, AddIocKeeps
    <2>5. CASE RemoveIoc(t)
      BY <2>5, RemoveIocKeeps
    <2>6. CASE AddNote(t)
      BY <2>6, AddNoteKeeps
    <2>7. CASE CreateIncident(t)
      BY <2>7, CreateIncidentKeeps
    <2>8. CASE Correlate(t)
      BY <2>8, CorrelateKeeps
    <2>9. CASE Abandon(t)
      BY <2>9, AbandonKeeps
    <2> QED
      BY <1>2, <2>1, <2>2, <2>3, <2>4, <2>5, <2>6, <2>7, <2>8, <2>9 DEF Work
  <1> QED
    BY <1>1, <1>2 DEF DeskNext

-----------------------------------------------------------------------------
(* What the invariant says of the timeline.                                *)
LEMMA CoveredReaches ==
  ASSUME TypeInv, Covered
  PROVE  TimelineReaches
  <1> SUFFICES ASSUME NEW l \in {k \in linked : k.by = "analyst"},
                      NEW m \in {k \in linked : k.by = "analyst"}, l.inc = m.inc,
                      NEW e \in stored, Source(e) \in {Source(l.event), Source(m.event)},
                      At(l.event) <= At(e), At(e) <= At(m.event)
               PROVE  e \in Timeline(l.inc)
    BY DEF TimelineReaches
  <1>1. PICK i : i = l.inc
    OBVIOUS
  <1>2. /\ i \in DOMAIN incidents
        /\ Source(e) \in incidents[i].ips
        /\ At(l.event) \in Nat /\ At(m.event) \in Nat
        /\ incidents[i].first <= At(l.event) /\ At(m.event) <= incidents[i].last
    BY <1>1 DEF Covered, IsCovered
  <1>3. /\ incidents[i].first \in Nat /\ incidents[i].last \in Nat
        /\ At(e) \in Nat /\ Margin \in Nat
    BY <1>2, DeskAssumption DEF TypeInv, IsIncident
  <1>4. incidents[i].first <= At(e) + Margin /\ At(e) <= incidents[i].last + Margin
    BY <1>2, <1>3
  <1>5. incidents[i].ips # {}
    BY <1>2
  <1> QED
    BY <1>1, <1>2, <1>4, <1>5 DEF Timeline

(* Notes analysts were told are saved stay in their incident, and between  *)
(* the events analysts linked its timeline shows all from their addresses, *)
(* however analysts and engine cycles write the same row at the same time: *)
(* the row they wrote is the one they read, with more in it, when the      *)
(* database refuses a write to a row that has changed (endpoints/          *)
(* incidents.py, services/detection_engine.py).                            *)
THEOREM WhatAnalystsAddStays == DeskSpec => []AdditionsKept
  <1>1. CASE ConflictsRefused
    <2>1. DeskInit => DeskInv
      BY InitDesk
    <2>2. DeskInv /\ [DeskNext]_deskVars => DeskInv'
      BY <1>1, DeskStep
    <2>3. DeskInv => AdditionsKept
      <3>1. DeskInv => NotesKept
        BY DEF DeskInv, Kept, IsKept, NotesKept
      <3>2. DeskInv => TimelineReaches
        BY CoveredReaches DEF DeskInv
      <3> QED
        BY <3>1, <3>2 DEF AdditionsKept
    <2> QED
      BY <2>1, <2>2, <2>3, PTL DEF DeskSpec
  <1>2. CASE ~ ConflictsRefused
    <2>1. AdditionsKept
      BY <1>2 DEF AdditionsKept, NotesKept, TimelineReaches
    <2> QED
      BY <2>1, PTL
  <1> QED
    BY <1>1, <1>2
=============================================================================
