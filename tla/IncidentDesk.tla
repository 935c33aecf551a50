---------------------------- MODULE IncidentDesk ----------------------------
(***************************************************************************)
(* Incidents under several hands: analysts patch them, link events, add    *)
(* indicators and notes, open new ones (endpoints/incidents.py), and the   *)
(* detection engine correlates detections into the same rows               *)
(* (services/detection_engine.py); the timeline of an incident is built    *)
(* from what they leave (services/timeline_builder.py).                    *)
(*                                                                         *)
(* A task is one transaction: a request or an engine's cycle.  It sees the *)
(* tables as of its first read.  An event is <<source address, second>>,   *)
(* an indicator one of those addresses; texts, severities, scores and      *)
(* techniques are left out.                                                *)
(***************************************************************************)
EXTENDS Naturals, FiniteSets

CONSTANTS
  Tasks,             \* transactions in progress at the same time
  NoTask,           \* no transaction
  Sources,           \* source addresses
  Notes,             \* notes analysts write
  LastSecond,        \* bound on the clock
  Margin,            \* seconds the timeline adds on both sides of the window
  Window,            \* _INCIDENT_WINDOW
  MaxLinked,         \* events one request names, at most
  MaxIncidents,      \* bound on the incidents
  MaxTasks,          \* bound on the transactions
  ConflictsRefused   \* a write to a row changed since the snapshot is an error

ASSUME DeskAssumption ==
  /\ LastSecond \in Nat /\ Margin \in Nat /\ Window \in Nat
  /\ MaxLinked \in Nat /\ MaxIncidents \in Nat \ {0} /\ MaxTasks \in Nat
  /\ ConflictsRefused \in BOOLEAN /\ NoTask \notin Nat

VARIABLES
  incidents,   \* the incidents table, by the number in incident_key
  revision,    \* how often an incident's row has changed
  linked,      \* incident_events: incident, event, and who linked it
  indicators,  \* incident_iocs
  stored,      \* normalized_events
  second,      \* the clock
  task,        \* transactions in progress, each with its snapshot
  begun,       \* transactions so far
  noted        \* history: notes whose request succeeded, with their incident

deskTables == <<incidents, revision, linked, indicators>>
deskVars == <<deskTables, stored, second, task, begun, noted>>

Numbers == 1..MaxIncidents
Events == Sources \X (1..LastSecond)
Source(e) == e[1]
At(e) == e[2]

Incident(key, ips, now, notes) ==
  [key |-> key, open |-> TRUE, first |-> now, last |-> now, ips |-> ips,
   notes |-> notes, updated |-> now]

Earliest(S) == CHOOSE x \in S : \A y \in S : x <= y
Latest(S) == CHOOSE x \in S : \A y \in S : x >= y

-----------------------------------------------------------------------------
(* Transactions.                                                           *)

AnalystOps == {"patch", "link", "addIoc", "removeIoc", "note"}

BeginTask(t) ==
  /\ task[t] = NoTask /\ begun < MaxTasks
  /\ \E op \in AnalystOps \cup {"create", "correlate"}, i \in Numbers :
       /\ op \in AnalystOps => i \in DOMAIN incidents
       /\ op \notin AnalystOps => i = 1
       /\ task' = [task EXCEPT ![t] =
                     [op |-> op, inc |-> i, at |-> second, incidents |-> incidents,
                      revision |-> revision, linked |-> linked,
                      indicators |-> indicators, stored |-> stored]]
  /\ begun' = begun + 1
  /\ UNCHANGED <<deskTables, stored, second, noted>>

Doing(t, op) == task[t] # NoTask /\ task[t].op = op

EndTask(t) ==
  /\ task' = [task EXCEPT ![t] = NoTask]
  /\ UNCHANGED <<stored, second, begun>>

(* A check fails, a commit is refused, the database or the process is away.*)
Abandon(t) ==
  /\ task[t] # NoTask
  /\ EndTask(t)
  /\ UNCHANGED <<deskTables, noted>>

(* UPDATE of the incident's row.  One that changes no column, such as a    *)
(* second updated_at in the same second, leaves the row as it was.         *)
Update(t, i, row) ==
  /\ ConflictsRefused => revision[i] = task[t].revision[i]
  /\ incidents' = [incidents EXCEPT ![i] = row]
  /\ revision' = [revision EXCEPT ![i] = IF row = incidents[i] THEN @ ELSE @ + 1]

(* INSERT with the number the snapshot's count suggests; incident_key is   *)
(* unique.                                                                 *)
NextNumber(t) == Cardinality(DOMAIN task[t].incidents) + 1

Open(t, row) ==
  LET n == NextNumber(t)
  IN  /\ n \in Numbers \ DOMAIN incidents
      /\ incidents' = [i \in DOMAIN incidents \cup {n} |-> IF i = n THEN row ELSE incidents[i]]
      /\ UNCHANGED revision

Mine(t) == task[t].incidents[task[t].inc]

LinkedTo(rows, i) == {l.event : l \in {k \in rows : k.inc = i}}

LinksOf(i, E, who) == {[inc |-> i, event |-> e, by |-> who] : e \in E}

-----------------------------------------------------------------------------
(* Analysts.                                                               *)

(* The columns _link_events sets, from the row it read.                    *)
Widened(row, E) ==
  IF E = {} THEN row
  ELSE LET stamps == {At(e) : e \in E}
           lo == Earliest(stamps)  hi == Latest(stamps)
       IN  [row EXCEPT !.ips = @ \cup {Source(e) : e \in E},
                       !.first = IF lo < @ THEN lo ELSE @,
                       !.last = IF hi > @ THEN hi ELSE @]

LinkEvents(t) ==
  LET i == task[t].inc
  IN  /\ Doing(t, "link")
      /\ \E E \in SUBSET task[t].stored :
           LET new == E \ LinkedTo(task[t].linked, i)
           IN  /\ Cardinality(E) <= MaxLinked
               /\ IF new = {} THEN UNCHANGED deskTables
                  ELSE /\ Update(t, i, [Widened(Mine(t), new) EXCEPT !.updated = second])
                       /\ linked' = linked \cup LinksOf(i, new, "analyst")
                       /\ UNCHANGED indicators
      /\ EndTask(t) /\ UNCHANGED noted

PatchIncident(t) ==
  /\ Doing(t, "patch")
  /\ \E open \in BOOLEAN :
       Update(t, task[t].inc, [Mine(t) EXCEPT !.open = open, !.updated = second])
  /\ EndTask(t) /\ UNCHANGED <<linked, indicators, noted>>

AddIoc(t) ==
  LET i == task[t].inc
  IN  /\ Doing(t, "addIoc")
      /\ \E v \in Sources :
           IF <<i, v>> \in task[t].indicators THEN UNCHANGED deskTables
           ELSE /\ Update(t, i, [Mine(t) EXCEPT !.updated = second])
                /\ indicators' = indicators \cup {<<i, v>>}
                /\ UNCHANGED linked
      /\ EndTask(t) /\ UNCHANGED noted

RemoveIoc(t) ==
  LET i == task[t].inc
  IN  /\ Doing(t, "removeIoc")
      /\ \E v \in Sources :
           /\ <<i, v>> \in task[t].indicators \cap indicators
           /\ Update(t, i, [Mine(t) EXCEPT !.updated = second])
           /\ indicators' = indicators \ {<<i, v>>}
      /\ EndTask(t) /\ UNCHANGED <<linked, noted>>

(* Faulty: the note takes the place of those before it.                    *)
AddNoteAlone(t) ==
  LET i == task[t].inc
  IN  /\ Doing(t, "note")
      /\ \E n \in Notes \ DOMAIN noted :
           /\ Update(t, i, [Mine(t) EXCEPT !.notes = {n}, !.updated = second])
           /\ noted' = [m \in DOMAIN noted \cup {n} |-> IF m = n THEN i ELSE noted[m]]
      /\ EndTask(t) /\ UNCHANGED <<linked, indicators>>

(* The note is appended to the text the request read.                      *)
AddNote(t) ==
  LET i == task[t].inc
  IN  /\ Doing(t, "note")
      /\ \E n \in Notes \ DOMAIN noted :
           /\ Update(t, i, [Mine(t) EXCEPT !.notes = @ \cup {n}, !.updated = second])
           /\ noted' = [m \in DOMAIN noted \cup {n} |-> IF m = n THEN i ELSE noted[m]]
      /\ EndTask(t) /\ UNCHANGED <<linked, indicators>>

(* Without addresses the correlation key is one no address has.            *)
CreateIncident(t) ==
  /\ Doing(t, "create")
  /\ \E E \in SUBSET task[t].stored, ips \in {{}} \cup {{s} : s \in Sources},
        iocs \in SUBSET Sources, now \in task[t].at..second :
       LET n == NextNumber(t)
       IN  /\ Cardinality(E) <= MaxLinked
           /\ Open(t, Widened(Incident(ips, ips, now, {}), E))
           /\ linked' = linked \cup LinksOf(n, E, "analyst")
           /\ indicators' = indicators \cup {<<n, v>> : v \in iocs}
  /\ EndTask(t) /\ UNCHANGED noted

-----------------------------------------------------------------------------
(* The detection engine, for the detections of one address.                *)

(* The open incident of the address in use last.                           *)
Current(t, s, now) ==
  LET rows == task[t].incidents
      open == {i \in DOMAIN rows : /\ rows[i].key = {s} /\ rows[i].open
                                   /\ rows[i].last + Window >= now}
  IN  {i \in open : \A j \in open : rows[i].last >= rows[j].last}

Correlate(t) ==
  /\ Doing(t, "correlate")
  /\ \E s \in Sources, now \in task[t].at..second :
       \E E \in SUBSET {e \in task[t].stored : Source(e) = s} :
         LET found == Current(t, s, now)
             old == task[t].linked
             iocs == task[t].indicators
         IN  /\ E # {} /\ Cardinality(E) <= MaxLinked
             /\ \/ /\ found = {}
                   /\ Open(t, Incident({s}, {s}, now, {}))
                   /\ linked' = linked \cup LinksOf(NextNumber(t), E, "engine")
                   /\ indicators' = indicators \cup {<<NextNumber(t), s>>}
                \/ \E i \in found :
                   /\ Update(t, i, [task[t].incidents[i] EXCEPT
                                      !.last = now, !.ips = @ \cup {s}, !.updated = now])
                   /\ linked' = linked \cup LinksOf(i, E \ LinkedTo(old, i), "engine")
                   /\ indicators' = indicators \cup ({<<i, s>>} \ iocs)
  /\ EndTask(t) /\ UNCHANGED noted

-----------------------------------------------------------------------------
(* Reads: the linked events, and those of the incident's addresses around  *)
(* its window (the first 400).                                             *)
Timeline(i) ==
  LET row == incidents[i]
      ips == IF row.ips = {} THEN row.key ELSE row.ips
  IN  (LinkedTo(linked, i) \cap stored)
      \cup {e \in stored : /\ Source(e) \in ips
                           /\ row.first <= At(e) + Margin /\ At(e) <= row.last + Margin}

-----------------------------------------------------------------------------
(* The telemetry collector stores events of the past, in any order.        *)
Arrive ==
  /\ \E e \in Events \ stored : At(e) <= second /\ stored' = stored \cup {e}
  /\ UNCHANGED <<deskTables, second, task, begun, noted>>

Tick ==
  /\ second < LastSecond /\ second' = second + 1
  /\ UNCHANGED <<deskTables, stored, task, begun, noted>>

(* With no incident, or with one the engine opened in the first second.    *)
DeskInit ==
  /\ LET s == CHOOSE s \in Sources : TRUE
     IN  \/ incidents = [i \in {} |-> 0] /\ linked = {} /\ indicators = {} /\ stored = {}
         \/ /\ incidents = [i \in {1} |-> Incident({s}, {s}, 1, {})]
            /\ linked = LinksOf(1, {<<s, 1>>}, "engine")
            /\ indicators = {<<1, s>>} /\ stored = {<<s, 1>>}
  /\ revision = [i \in Numbers |-> 0] /\ second = 1
  /\ task = [t \in Tasks |-> NoTask] /\ begun = 0
  /\ noted = [n \in {} |-> 0]

Work(t) ==
  \/ PatchIncident(t) \/ LinkEvents(t) \/ AddIoc(t) \/ RemoveIoc(t)
  \/ AddNote(t) \/ CreateIncident(t) \/ Correlate(t)

DeskNext ==
  \/ \E t \in Tasks : BeginTask(t) \/ Work(t) \/ Abandon(t)
  \/ Arrive
  \/ Tick

DeskSpec == DeskInit /\ [][DeskNext]_deskVars

-----------------------------------------------------------------------------
(* Properties.                                                             *)

(* The text of every note an analyst was told is saved stays in its        *)
(* incident, whoever writes the row at the same time (add_note appends to  *)
(* what its own request read).                                             *)
NotesKept ==
  ConflictsRefused =>
    \A n \in DOMAIN noted :
      noted[n] \in DOMAIN incidents /\ n \in incidents[noted[n]].notes

(* Between two events analysts linked to an incident, its timeline shows   *)
(* all that came from their addresses: linking widens the window and the   *)
(* addresses (_link_events), and nothing an engine or another analyst      *)
(* does to the row at the same time narrows them again.                    *)
TimelineReaches ==
  ConflictsRefused =>
    \A l, m \in {k \in linked : k.by = "analyst"} : l.inc = m.inc =>
      \A e \in stored :
        /\ Source(e) \in {Source(l.event), Source(m.event)}
        /\ At(l.event) <= At(e) /\ At(e) <= At(m.event)
        => e \in Timeline(l.inc)

(* What analysts put into an incident, notes and events, is not lost to    *)
(* another who writes its row.                                             *)
AdditionsKept == NotesKept /\ TimelineReaches

=============================================================================
