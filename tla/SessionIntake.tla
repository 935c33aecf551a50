--------------------------- MODULE SessionIntake ----------------------------
(***************************************************************************)
(* What becomes of the events that agents post (POST /events/ingest): the  *)
(* session engine puts them into attacker sessions every minute            *)
(* (services/session_engine.py), the sync manager copies them into         *)
(* structured_events every ten seconds (services/sync_manager.py), and a   *)
(* detection cycle rewrites the newest session of an address               *)
(* (_update_sessions of services/detection_engine.py).                     *)
(*                                                                         *)
(* One source address.  An event has a moment, a number of Moments, and    *)
(* comes with a session's id when its agent knows one.                     *)
(***************************************************************************)
EXTENDS Naturals, Sequences, FiniteSets, SequencesExt

CONSTANTS
  Posts,           \* events an agent may post
  LastMoment,      \* events are stamped 0..LastMoment
  Gap,             \* SESSION_TIMEOUT_MINUTES
  Batch,           \* BATCH_SIZE of the sync manager
  MaxRewrites      \* bound on detection cycles that see the address

ASSUME IntakeAssumption == Gap \in Nat /\ LastMoment \in Nat /\ Batch \in Nat \ {0}

VARIABLES
  raw,          \* raw_events: the posted rows, by event
  sessions,     \* attacker_sessions, by id
  structured,   \* structured_events: the events copied
  mapping,      \* the session engine's cycle: what it read
  syncing,      \* the sync manager's cycle: the events it read
  rewrites

intakeVars == <<raw, sessions, structured, mapping, syncing, rewrites>>

Moments == 0..LastMoment

(* The ids: "<ip>-<second>" of the session engine, "sess-<ip>" of the      *)
(* detection engine; an agent may also name a session nobody stored.       *)
Sess == LastMoment + 1
SessionIds == Moments \cup {Sess}
Unknown == LastMoment + 2
None == LastMoment + 3

NotPosted == [at |-> 0, session |-> None, status |-> "absent"]
NoCycle == [rows |-> {}, last |-> None, seen |-> 0, total |-> 0]

Posted == {p \in Posts : raw[p].status # "absent"}

NoSession == [first |-> 0, seen |-> 0, total |-> 0]
Stored == {s \in SessionIds : sessions[s] # NoSession}

-----------------------------------------------------------------------------
(* ingest_telemetry: a list of events in one commit, refused as a whole    *)
(* for an id that is there already.                                        *)
Ingest(new) ==
  /\ new \cap Posted = {}
  /\ \E at \in [new -> Moments], given \in [new -> {None, Unknown}] :
       raw' = [p \in Posts |-> IF p \in new
                               THEN [at |-> at[p], session |-> given[p], status |-> "PENDING"]
                               ELSE raw[p]]
  /\ UNCHANGED <<sessions, structured, mapping, syncing, rewrites>>

-----------------------------------------------------------------------------
(* SessionEngine.process_unmapped_events                                   *)

Unmapped == {p \in Posted : raw[p].session = None}
ByMoment(S) == SetToSortSeq(S, LAMBDA p, q : raw[p].at < raw[q].at)

(* The session of the address that was seen last.                          *)
Newest == CHOOSE s \in Stored : \A t \in Stored : sessions[t].seen <= sessions[s].seen

(* The reads: rows without a session, and the newest session.              *)
StartMapping ==
  /\ mapping = NoCycle
  /\ Unmapped # {}
  /\ mapping' = IF Stored = {}
                THEN [NoCycle EXCEPT !.rows = Unmapped]
                ELSE [rows |-> Unmapped, last |-> Newest, seen |-> sessions[Newest].seen,
                      total |-> sessions[Newest].total]
  /\ UNCHANGED <<raw, sessions, structured, syncing, rewrites>>

(* One event after another: it continues the current session, or opens one *)
(* when the gap is longer.  An event from before the session continues it  *)
(* too and takes its last_seen back.                                       *)
Place(run, p) ==
  LET ts == raw[p].at
      continues == run.current # None /\ ts <= run.at[run.current].seen + Gap
      id == IF continues THEN run.current ELSE ts
      old == IF continues THEN run.at[id] ELSE [first |-> ts, seen |-> ts, total |-> 0]
  IN  [current |-> id,
       at      |-> [run.at EXCEPT ![id] = [old EXCEPT !.seen = ts, !.total = @ + 1]],
       into    |-> [run.into EXCEPT ![p] = id],
       fresh   |-> IF continues THEN run.fresh ELSE Append(run.fresh, id)]

(* The session read first is continued under the same rule, from what was  *)
(* read of it.                                                             *)
Plan ==
  LET held == IF mapping.last = None THEN sessions
              ELSE [sessions EXCEPT ![mapping.last] =
                      [@ EXCEPT !.seen = mapping.seen, !.total = mapping.total]]
  IN  FoldLeft(Place,
               [current |-> mapping.last, at |-> held,
                into |-> [p \in Posts |-> raw[p].session], fresh |-> <<>>],
               ByMoment(mapping.rows))

(* An id that is there already fails the cycle, and every one after it     *)
(* that reads the same rows.                                               *)
Collides == \E i \in DOMAIN Plan.fresh :
              \/ Plan.fresh[i] \in Stored
              \/ \E j \in DOMAIN Plan.fresh : i # j /\ Plan.fresh[i] = Plan.fresh[j]

CommitMapping ==
  /\ mapping # NoCycle
  /\ mapping' = NoCycle
  /\ IF Collides
     THEN UNCHANGED <<raw, sessions>>
     ELSE /\ sessions' = [s \in SessionIds |->
                            IF s \in Range(Plan.into) THEN Plan.at[s] ELSE sessions[s]]
          /\ raw' = [p \in Posts |-> [raw[p] EXCEPT !.session = Plan.into[p]]]
  /\ UNCHANGED <<structured, syncing, rewrites>>

(* _update_sessions: the newest session gets the totals of the sensors'    *)
(* events, or one is created for them.                                     *)
Rewrite(seen, total) ==
  /\ rewrites < MaxRewrites
  /\ rewrites' = rewrites + 1
  /\ sessions' = IF Stored # {}
                 THEN [sessions EXCEPT ![Newest].seen = seen, ![Newest].total = total]
                 ELSE [sessions EXCEPT ![Sess] = [first |-> seen, seen |-> seen, total |-> total]]
  /\ UNCHANGED <<raw, structured, mapping, syncing>>

-----------------------------------------------------------------------------
(* SyncManager.run_sync_cycle                                              *)

Pending == {p \in Posted : raw[p].status = "PENDING"}

StartSync ==
  /\ syncing = {}
  /\ \E S \in SUBSET Pending :
       /\ Cardinality(S) = (IF Cardinality(Pending) < Batch THEN Cardinality(Pending) ELSE Batch)
       /\ syncing' = S
  /\ UNCHANGED <<raw, sessions, structured, mapping, rewrites>>

(* Faulty: every pending event is marked, read by this cycle or not.       *)
MarkPending == Pending

MarkRead == syncing

(* The copies carry the session's id read with the event, a foreign key:   *)
(* one that is unknown fails the batch, which is read again in ten         *)
(* seconds.                                                                *)
Push ==
  /\ syncing # {}
  /\ syncing' = {}
  /\ IF \E p \in syncing : raw[p].session = Unknown
     THEN UNCHANGED <<raw, structured>>
     ELSE /\ structured' = structured \cup syncing
          /\ raw' = [p \in Posts |-> IF p \in MarkRead THEN [raw[p] EXCEPT !.status = "SYNCED"]
                                                       ELSE raw[p]]
  /\ UNCHANGED <<sessions, mapping, rewrites>>

-----------------------------------------------------------------------------
IntakeInit ==
  /\ raw = [p \in Posts |-> NotPosted]
  /\ sessions = [s \in SessionIds |-> NoSession]
  /\ structured = {}
  /\ mapping = NoCycle
  /\ syncing = {}
  /\ rewrites = 0

IntakeNext ==
  \/ \E new \in (SUBSET Posts) \ {{}} : Ingest(new)
  \/ StartMapping \/ CommitMapping
  \/ \E m \in Moments : Rewrite(m, 2)
  \/ StartSync \/ Push

IntakeSpec == IntakeInit /\ [][IntakeNext]_intakeVars

-----------------------------------------------------------------------------
(* An event counts as synced exactly when its copy is stored: one that is  *)
(* posted while a batch is on its way waits for the next, and a batch that *)
(* fails leaves no event marked.                                           *)
SyncedIsStructured == {p \in Posted : raw[p].status = "SYNCED"} = structured
=============================================================================
