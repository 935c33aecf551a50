----------------------------- MODULE S3Pipeline -----------------------------
(***************************************************************************)
(* Telemetry from an S3 bucket: the polling loop of                        *)
(* services/aws_telemetry_service.py (run_pipeline) and the pulls an       *)
(* administrator asks for (endpoints/aws.py, pull_s3_logs).                *)
(*                                                                         *)
(* A sensor's host writes an object again, with more events, each time it  *)
(* uploads.  An object is read whole when it was modified after it was     *)
(* last marked as processed.  An event stands for its signature; what is   *)
(* not an event (heartbeats, other files) is left out.                     *)
(***************************************************************************)
EXTENDS Naturals, FiniteSets

CONSTANTS
  Keys,         \* objects of the bucket
  S3Events,     \* events the sensors upload
  Pulls,        \* pulls served at the same time
  MarksRefused, \* a write to a row changed since the snapshot is an error
  Remembered,   \* recent_signatures: the length of the deque
  LastPoll,     \* bound on the clock
  MaxReads,     \* bound on the polls and pulls
  MaxPollFaults \* bound on failing calls and restarts

VARIABLES
  objects,    \* the bucket: the events of an object and when it was written
  processed,  \* s3_sync_state, 0 without a row
  rawRows,    \* raw_events
  remembered, \* recent_signatures
  reader,     \* the poll and the pulls under way
  pollSecond, \* the clock
  reads,      \* polls and pulls so far
  pollFaults, \* faults so far
  known       \* history: events lost in one of the ways Losses names

readers == Pulls \cup {"pipeline"}
database == <<processed, rawRows>>
bounds == <<pollSecond, reads, pollFaults>>
s3Vars == <<objects, database, remembered, reader, bounds, known>>

NoRead == [on |-> FALSE, seen |-> [k \in Keys |-> 0], todo |-> {}, touched |-> {},
           got |-> [k \in Keys |-> {}], marked |-> FALSE]

Got(a) == UNION {reader[a].got[k] : k \in reader[a].touched}

(* Faulty: an object that was marked once is not looked at again.          *)
UnmarkedOnly(k) == objects[k].events # {} /\ processed[k] = 0

(* process_all, or not in the cache, or modified since.                    *)
Candidate(k) == objects[k].events # {} /\ objects[k].modified > processed[k]

-----------------------------------------------------------------------------
(* Reading.                                                                *)

(* The marks are read, then the bucket is listed; force_repull takes all.  *)
List(a) ==
  /\ ~ reader[a].on /\ reads < MaxReads
  /\ \E todo \in {{k \in Keys : Candidate(k)}}
                 \cup (IF a \in Pulls THEN {{k \in Keys : objects[k].events # {}}} ELSE {}) :
       /\ todo # {}
       /\ reader' = [reader EXCEPT ![a] = [NoRead EXCEPT !.on = TRUE, !.seen = processed,
                                                         !.todo = todo]]
  /\ reads' = reads + 1
  /\ UNCHANGED <<objects, database, remembered, pollSecond, pollFaults, known>>

Took(a, k, touched) ==
  reader' = [reader EXCEPT ![a].todo = @ \ {k}, ![a].touched = touched,
                           ![a].got[k] = objects[k].events]

FetchObject(a, k) ==
  /\ reader[a].on /\ k \in reader[a].todo
  /\ \/ Took(a, k, reader[a].touched \cup {k}) /\ UNCHANGED pollFaults
     \/ /\ pollFaults < MaxPollFaults /\ pollFaults' = pollFaults + 1
        /\ reader' = [reader EXCEPT ![a].todo = @ \ {k}]
  /\ UNCHANGED <<objects, database, remembered, pollSecond, reads, known>>

AllRead(a) == reader[a].on /\ reader[a].todo = {}

(* A mark is new and someone made it meanwhile (file_key is unique), or    *)
(* its row was written meanwhile and the database refuses.                 *)
MarksConflict(a) ==
  \E k \in reader[a].touched :
    /\ processed[k] # reader[a].seen[k]
    /\ reader[a].seen[k] = 0 \/ MarksRefused

MarkObjects(a) == processed' = [k \in Keys |-> IF k \in reader[a].touched THEN pollSecond ELSE processed[k]]

(* Written into an object after it was fetched, and not after the mark.    *)
TooLate(a) == UNION {objects[k].events \ reader[a].got[k] : k \in reader[a].touched}

(* One by one, each in a transaction of its own: what is stored already is *)
(* refused, and so is what meets a fault.                                  *)
OneByOne(E) ==
  \E lost \in SUBSET (E \ rawRows) :
    /\ IF lost = {} THEN UNCHANGED pollFaults ELSE pollFaults < MaxPollFaults /\ pollFaults' = pollFaults + 1
    /\ rawRows' = rawRows \cup (E \ lost)
    /\ known' = known \cup lost

-----------------------------------------------------------------------------
(* The polling loop: what it remembers it passes over, and it remembers an *)
(* event before it is stored.                                              *)
StorePoll ==
  LET new == Got("pipeline") \ remembered
  IN  /\ AllRead("pipeline")
      /\ \E kept \in SUBSET (remembered \cup new) :
           /\ Cardinality(kept) = IF Cardinality(remembered \cup new) <= Remembered
                                  THEN Cardinality(remembered \cup new) ELSE Remembered
           /\ remembered' = kept
      /\ \/ /\ new \cap rawRows = {} /\ ~ MarksConflict("pipeline")
            /\ MarkObjects("pipeline") /\ rawRows' = rawRows \cup new
            /\ known' = known \cup TooLate("pipeline") /\ UNCHANGED pollFaults
         \/ /\ new \cap rawRows # {} \/ MarksConflict("pipeline")
            /\ OneByOne(new) /\ UNCHANGED processed
         \/ /\ pollFaults < MaxPollFaults
            /\ OneByOne(new) /\ UNCHANGED processed
      /\ reader' = [reader EXCEPT !["pipeline"] = NoRead]
      /\ UNCHANGED <<objects, pollSecond, reads>>

(* A pull commits its marks first, and its events after them.              *)
PullMark(a) ==
  /\ a \in Pulls /\ AllRead(a) /\ ~ reader[a].marked
  /\ IF MarksConflict(a) THEN UNCHANGED <<processed, known>>
     ELSE MarkObjects(a) /\ known' = known \cup TooLate(a)
  /\ reader' = [reader EXCEPT ![a].marked = TRUE]
  /\ UNCHANGED <<objects, rawRows, remembered, bounds>>

PullStore(a) ==
  /\ a \in Pulls /\ AllRead(a) /\ reader[a].marked
  /\ OneByOne(Got(a))
  /\ reader' = [reader EXCEPT ![a] = NoRead]
  /\ UNCHANGED <<objects, processed, remembered, pollSecond, reads>>

-----------------------------------------------------------------------------
(* Times are kept in whole seconds on both sides.                          *)
UploadEvent(k, e) ==
  /\ \A j \in Keys : e \notin objects[j].events
  /\ objects' = [objects EXCEPT ![k] = [events |-> @.events \cup {e}, modified |-> pollSecond]]
  /\ known' = IF pollSecond <= processed[k] THEN known \cup {e} ELSE known
  /\ UNCHANGED <<database, remembered, reader, bounds>>

PassSecond ==
  /\ pollSecond < LastPoll /\ pollSecond' = pollSecond + 1
  /\ UNCHANGED <<objects, database, remembered, reader, reads, pollFaults, known>>

(* The backend's process ends between two steps.                           *)
PipelineRestart ==
  /\ pollFaults < MaxPollFaults /\ pollFaults' = pollFaults + 1
  /\ \E a \in readers : reader[a].on
  /\ known' = known \cup ((UNION {Got(a) : a \in {b \in Pulls : reader[b].marked}}) \ rawRows)
  /\ reader' = [a \in readers |-> NoRead] /\ remembered' = {}
  /\ UNCHANGED <<objects, database, pollSecond, reads>>

S3Init ==
  /\ objects = [k \in Keys |-> [events |-> {}, modified |-> 0]]
  /\ processed = [k \in Keys |-> 0] /\ rawRows = {} /\ remembered = {}
  /\ reader = [a \in readers |-> NoRead]
  /\ pollSecond = 1 /\ reads = 0 /\ pollFaults = 0 /\ known = {}

S3Next ==
  \/ \E a \in readers : List(a) \/ PullMark(a) \/ PullStore(a)
  \/ \E a \in readers, k \in Keys : FetchObject(a, k)
  \/ StorePoll
  \/ \E k \in Keys, e \in S3Events : UploadEvent(k, e)
  \/ PassSecond
  \/ PipelineRestart

S3Spec == S3Init /\ [][S3Next]_s3Vars

-----------------------------------------------------------------------------
(* Properties.                                                             *)

(* An uploaded event is stored, or its object will be read again and the   *)
(* event not be passed over, or a pull has it in hand; it is lost only     *)
(*  - by an upload after the fetch of its object, up to the end of the     *)
(*    second of the mark,                                                  *)
(*  - by a failing insert after its signature was remembered or its object *)
(*    marked, or                                                           *)
(*  - by a restart between the two commits of a pull.                      *)
(* No order of polls, pulls and conflicts among them loses another.        *)
Losses ==
  \A k \in Keys : \A e \in objects[k].events \ (rawRows \cup known) :
    \/ Candidate(k) /\ e \notin remembered
    \/ \E a \in Pulls : reader[a].marked /\ e \in Got(a)

=============================================================================
