----------------------------- MODULE Collector -----------------------------
(***************************************************************************)
(* The local telemetry collector: sensors append lines to log files, the   *)
(* collector tails every file from a stored byte offset and commits the    *)
(* events together with the offsets that cover them.                       *)
(*                                                                         *)
(*   services/telemetry/local_source.py   walk, stat, read                 *)
(*   services/telemetry/collector.py      cycle, transaction, publication  *)
(*   services/telemetry/fs_watch.py       wake-up on a change              *)
(*                                                                         *)
(* A file's content is a sequence of chunks.  An event (the content hash   *)
(* of a line, compute_event_id) is LineLen[e] chunks long and its last     *)
(* chunk carries the newline, so a sensor can be caught in mid-line.       *)
(***************************************************************************)
EXTENDS Integers, Sequences, FiniteSets, SequencesExt

CONSTANTS
  Live,          \* files a sensor writes to
  Archive,       \* watched names a live file may be rotated to
  Truncatable,   \* files that may also be truncated in place
  Events,        \* what one line can say
  Unusable,      \* lines normalize() rejects: heartbeats, no source address
  LineLen,       \* chunks in the line of an event
  MAX_BYTES_PER_FILE,
  MAX_FILES_PER_CYCLE,
  MaxChunks,     \* bound on the chunks sensors write
  MaxIds,        \* bound on the file incarnations ever created
  MaxFaults      \* bound on read errors, failed transactions and crashes

Files == Live \cup Archive

ASSUME FilesAssumption ==
  /\ IsFiniteSet(Files)
  /\ Live \cap Archive = {}
  /\ Truncatable \subseteq Files

ASSUME LinesAssumption ==
  /\ Unusable \subseteq Events
  /\ LineLen \in [Events -> Nat \ {0}]

ASSUME LimitsAssumption ==
  /\ MAX_BYTES_PER_FILE \in Nat \ {0}
  /\ MAX_FILES_PER_CYCLE \in Nat \ {0}
  /\ MaxChunks \in Nat
  /\ MaxIds \in Nat
  /\ MaxFaults \in Nat

Chunk == [ev : Events, pos : Nat \ {0}]

(* What is at a path: its inode, its bytes, and the identity of this       *)
(* incarnation, which no code sees: truncation keeps the inode and starts  *)
(* a new incarnation.                                                      *)
File == [inode : Nat, id : Nat, data : Seq(Chunk)]
NoFile == [inode |-> 0, id |-> 0, data |-> <<>>]

(* FileCursor / IngestCursor.  A row that does not exist reads as inode "" *)
(* and offset 0.  id is history: the incarnation whose first off chunks    *)
(* this cursor vouches for, 0 when there is none.                          *)
Cursor == [inode : Nat, off : Nat, id : Nat]
NoCursor == [inode |-> 0, off |-> 0, id |-> 0]

VARIABLES
  file,       \* the directory: path -> File
  order,      \* existing paths, least recently modified first
  lastId,     \* last inode / incarnation handed out
  chunks,     \* chunks written so far
  changed,    \* DirectoryWatcher._changed
  cursor,     \* table ingest_cursors
  stored,     \* table normalized_events (and its mirror in raw_events)
  published,  \* events handed to the event bus
  pc,         \* where the collector task is
  cursors,    \* cursors loaded at the start of the cycle
  todo,       \* files still to read in this cycle, with their stat
  batch,      \* raw events parsed in this cycle
  updated,    \* cursors to save at the end of the cycle
  faults      \* faults so far

env == <<file, order, lastId, chunks>>
db == <<cursor, stored>>
cycle == <<cursors, todo, batch, updated>>
vars == <<env, changed, db, published, pc, cycle, faults>>

-----------------------------------------------------------------------------
Lesser(m, n) == IF m <= n THEN m ELSE n

(* Sensors and log rotation.  A change under the watched directory that    *)
(* WATCH_MASK asks for reaches _on_readable and sets the watcher's event.  *)

Exists(f) == file[f].id # 0

At(f, i) == order[i] = f

(* f's mtime becomes the newest.                                           *)
Touch(f) ==
  \E i \in DOMAIN order : At(f, i) /\ order' = Append(RemoveAt(order, i), f)

EndsLine(c) == c.pos = LineLen[c.ev]

MidLine(data) == data # <<>> /\ ~ EndsLine(data[Len(data)])

Create(f) ==
  /\ f \in Live
  /\ ~ Exists(f)
  /\ lastId < MaxIds
  /\ lastId' = lastId + 1
  /\ file' = [file EXCEPT ![f] = [inode |-> lastId', id |-> lastId', data |-> <<>>]]
  /\ order' = Append(order, f)
  /\ changed' = TRUE
  /\ UNCHANGED <<chunks, db, published, pc, cycle, faults>>

Write(f, c) ==
  /\ f \in Live
  /\ Exists(f)
  /\ chunks < MaxChunks
  /\ chunks' = chunks + 1
  /\ file' = [file EXCEPT ![f].data = Append(@, c)]
  /\ Touch(f)
  /\ changed' = TRUE
  /\ UNCHANGED <<lastId, db, published, pc, cycle, faults>>

StartLine(f) ==
  /\ ~ MidLine(file[f].data)
  /\ \E e \in Events : Write(f, [ev |-> e, pos |-> 1])

ContinueLine(f) ==
  /\ MidLine(file[f].data)
  /\ LET last == file[f].data[Len(file[f].data)]
     IN  Write(f, [last EXCEPT !.pos = @ + 1])

(* Deleted, which WATCH_MASK does not ask for, or renamed to a name the    *)
(* source ignores (VALID_SUFFIXES), which is a notification as well.         *)
RotateOut(f) ==
  /\ f \in Live
  /\ Exists(f)
  /\ file' = [file EXCEPT ![f] = NoFile]
  /\ \E i \in DOMAIN order : At(f, i) /\ order' = RemoveAt(order, i)
  /\ changed' \in {changed, TRUE}
  /\ UNCHANGED <<lastId, chunks, db, published, pc, cycle, faults>>

(* Renamed to another watched name: inode, bytes and mtime go with it.     *)
RotateTo(f, g) ==
  /\ f \in Live
  /\ g \in Archive
  /\ Exists(f)
  /\ file' = [file EXCEPT ![g] = file[f], ![f] = NoFile]
  /\ LET renamed == ReplaceAll(order, f, g)
     IN  \/ ~ Exists(g) /\ order' = renamed
         \/ \E i \in DOMAIN order : At(g, i) /\ order' = RemoveAt(renamed, i)
  /\ changed' = TRUE
  /\ UNCHANGED <<lastId, chunks, db, published, pc, cycle, faults>>

(* copytruncate: the same inode starts again from nothing.                 *)
Truncate(f) ==
  /\ f \in Truncatable
  /\ file[f].data # <<>>
  /\ lastId < MaxIds
  /\ lastId' = lastId + 1
  /\ file' = [file EXCEPT ![f].data = <<>>, ![f].id = lastId']
  /\ Touch(f)
  /\ changed' = TRUE
  /\ UNCHANGED <<chunks, db, published, pc, cycle, faults>>

-----------------------------------------------------------------------------
(* The collector task, run_forever: a cycle, then watcher.wait.            *)

Wake ==
  /\ pc = "waiting"
  /\ changed
  /\ changed' = FALSE
  /\ pc' = "load"
  /\ UNCHANGED <<env, db, published, cycle, faults>>

(* Faulty: no safety sweep, only notifications.                            *)
NoSweep == FALSE /\ UNCHANGED vars

(* The safety sweep: wait() times out and leaves the event alone.          *)
Sweep ==
  /\ pc = "waiting"
  /\ ~ changed
  /\ pc' = "load"
  /\ UNCHANGED <<env, changed, db, published, cycle, faults>>

EmptyCycle ==
  /\ todo' = <<>>
  /\ batch' = {}
  /\ updated' = [f \in Files |-> NoCursor]

LoadCursors ==
  /\ pc = "load"
  /\ pc' = "walk"
  /\ cursors' = cursor
  /\ EmptyCycle
  /\ UNCHANGED <<env, changed, db, published, faults>>

(* _iter_files, the sort by mtime and the cap.                             *)
Walk ==
  /\ pc = "walk"
  /\ pc' = "read"
  /\ todo' = [i \in 1 .. Lesser(Len(order), MAX_FILES_PER_CYCLE) |->
                [key   |-> order[i],
                 inode |-> file[order[i]].inode,
                 size  |-> Len(file[order[i]].data)]]
  /\ UNCHANGED <<env, changed, db, published, cursors, batch, updated, faults>>

(* Faulty: a new inode goes unnoticed.                                     *)
ResolveOffsetBySize(cur, stat) ==
  IF stat.size < cur.off THEN 0 ELSE cur.off

ResolveOffset(cur, stat) ==
  IF \/ cur.inode # 0 /\ cur.inode # stat.inode
     \/ stat.size < cur.off
  THEN 0
  ELSE cur.off

(* handle.read(MAX_BYTES_PER_FILE) from start: the last chunk it returns.  *)
ReadEnd(data, start) == Lesser(Len(data), start + MAX_BYTES_PER_FILE)

Newlines(data, start) ==
  {k \in (start + 1) .. ReadEnd(data, start) : EndsLine(data[k])}

(* The lines of chunks start+1 .. last that parse: those read from their   *)
(* first chunk on.  What is left of a longer line is not JSON.             *)
ParsedLines(data, start, last) ==
  {data[k].ev : k \in {n \in (start + 1) .. last :
                         EndsLine(data[n]) /\ n - data[n].pos >= start}}

(* Faulty: the inode is not recorded.                                      *)
NewCursorNoInode(f, start, off) ==
  [inode |-> 0,
   off   |-> off,
   id    |-> IF start = 0 \/ cursors[f].id = file[f].id THEN file[f].id ELSE 0]

(* What the cursor vouches for after reading f up to off from start.       *)
NewCursor(f, start, off) ==
  [inode |-> Head(todo).inode,
   off   |-> off,
   id    |-> IF start = 0 \/ cursors[f].id = file[f].id THEN file[f].id ELSE 0]

Reading(f) == pc = "read" /\ todo # <<>> /\ Head(todo).key = f

NextFile ==
  /\ todo' = Tail(todo)
  /\ UNCHANGED <<env, changed, db, published, pc, cursors>>

(* Nothing appended; or nothing there to read, or no complete line yet.    *)
SkipFile(f) ==
  /\ Reading(f)
  /\ LET data  == file[f].data
         start == ResolveOffset(cursors[f], Head(todo))
     IN  \/ start >= Head(todo).size
         \/ /\ Newlines(data, start) = {}
            /\ ReadEnd(data, start) - start < MAX_BYTES_PER_FILE
  /\ NextFile
  /\ UNCHANGED <<batch, updated, faults>>

(* Faulty: any read without a newline is given up.                         *)
SkipAnyFragment(f) ==
  /\ Reading(f)
  /\ LET data  == file[f].data
         start == ResolveOffset(cursors[f], Head(todo))
     IN  /\ start < Head(todo).size
         /\ start < Len(data)
         /\ Newlines(data, start) = {}
         /\ updated' = [updated EXCEPT ![f] = NewCursor(f, start, ReadEnd(data, start))]
  /\ NextFile
  /\ UNCHANGED <<batch, faults>>

(* A full read without a newline: the line is given up.                    *)
SkipOversized(f) ==
  /\ Reading(f)
  /\ LET data  == file[f].data
         start == ResolveOffset(cursors[f], Head(todo))
     IN  /\ start < Head(todo).size
         /\ Newlines(data, start) = {}
         /\ ReadEnd(data, start) - start = MAX_BYTES_PER_FILE
         /\ updated' = [updated EXCEPT ![f] = NewCursor(f, start, ReadEnd(data, start))]
  /\ NextFile
  /\ UNCHANGED <<batch, faults>>

ConsumeLines(f) ==
  /\ Reading(f)
  /\ LET data  == file[f].data
         start == ResolveOffset(cursors[f], Head(todo))
     IN  /\ start < Head(todo).size
         /\ \E last \in Newlines(data, start) :
              /\ \A k \in Newlines(data, start) : k <= last
              /\ batch' = batch \cup ParsedLines(data, start, last)
              /\ updated' = [updated EXCEPT ![f] = NewCursor(f, start, last)]
  /\ NextFile
  /\ UNCHANGED faults

Fault ==
  /\ faults < MaxFaults
  /\ faults' = faults + 1

(* open() or read() raises: the file is left for another cycle.            *)
ReadFails(f) ==
  /\ Reading(f)
  /\ Fault
  /\ NextFile
  /\ UNCHANGED <<batch, updated>>

(* run_once returns early when no file advanced.                           *)
EndRead ==
  /\ pc = "read"
  /\ todo = <<>>
  /\ pc' = IF \E f \in Files : updated[f].off > 0 THEN "commit" ELSE "waiting"
  /\ UNCHANGED <<env, changed, db, published, cycle, faults>>

Usable(events) == events \ Unusable

(* _persist (INSERT IGNORE on the content hash) and _save_cursors, in the  *)
(* one transaction that commits them.                                      *)
Save ==
  /\ stored' = stored \cup Usable(batch)
  /\ cursor' = [f \in Files |-> IF updated[f].off > 0 THEN updated[f] ELSE cursor[f]]

Commit ==
  /\ pc = "commit"
  /\ Save
  /\ pc' = IF Usable(batch) = {} THEN "waiting" ELSE "publish"
  /\ UNCHANGED <<env, changed, published, cycle, faults>>

(* Faulty: the cycle goes on to publish after the rollback.                *)
CommitFailsUnnoticed ==
  /\ pc = "commit"
  /\ Fault
  /\ pc' = "publish"
  /\ UNCHANGED <<env, changed, db, published, cycle>>

(* commit() raises: rollback, run_once returns 0 and the loop waits.       *)
CommitFails ==
  /\ pc = "commit"
  /\ Fault
  /\ pc' = "waiting"
  /\ UNCHANGED <<env, changed, db, published, cycle>>

(* The server commits but the answer is lost: run_once sees a failure too. *)
CommitUnacknowledged ==
  /\ pc = "commit"
  /\ Fault
  /\ Save
  /\ pc' = "waiting"
  /\ UNCHANGED <<env, changed, published, cycle>>

(* A statement raises: run_forever backs off and runs another cycle.       *)
CycleFails ==
  /\ pc \in {"load", "walk", "commit"}
  /\ Fault
  /\ pc' = "load"
  /\ UNCHANGED <<env, changed, db, published, cycle>>

Publish ==
  /\ pc = "publish"
  /\ published' = published \cup Usable(batch)
  /\ pc' = "waiting"
  /\ UNCHANGED <<env, changed, db, cycle, faults>>

(* The process dies and starts again: a new watcher, then a first cycle.   *)
Crash ==
  /\ Fault
  /\ pc' = "load"
  /\ changed' = FALSE
  /\ cursors' = [f \in Files |-> NoCursor]
  /\ EmptyCycle
  /\ UNCHANGED <<env, db, published>>

-----------------------------------------------------------------------------
Init ==
  /\ file = [f \in Files |-> NoFile]
  /\ order = <<>>
  /\ lastId = 0
  /\ chunks = 0
  /\ changed = FALSE
  /\ cursor = [f \in Files |-> NoCursor]
  /\ stored = {}
  /\ published = {}
  /\ pc = "load"
  /\ cursors = [f \in Files |-> NoCursor]
  /\ todo = <<>>
  /\ batch = {}
  /\ updated = [f \in Files |-> NoCursor]
  /\ faults = 0

Sensors(f) ==
  \/ Create(f)
  \/ StartLine(f)
  \/ ContinueLine(f)
  \/ RotateOut(f)
  \/ \E g \in Files : RotateTo(f, g)
  \/ Truncate(f)

ReadOne(f) == SkipFile(f) \/ SkipOversized(f) \/ ConsumeLines(f)

Next ==
  \/ \E f \in Files : Sensors(f) \/ ReadOne(f) \/ ReadFails(f)
  \/ Wake \/ Sweep \/ LoadCursors \/ Walk \/ EndRead
  \/ Commit \/ CommitFails \/ CommitUnacknowledged \/ CycleFails \/ Publish \/ Crash

(* The collector task is one coroutine whose awaits all return: the event  *)
(* loop runs it to its next await.  Sensors and faults owe nothing.        *)
Fairness ==
  /\ WF_vars(Wake \/ Sweep)
  /\ WF_vars(LoadCursors)
  /\ WF_vars(Walk)
  /\ WF_vars(\E f \in Files : ReadOne(f))
  /\ WF_vars(EndRead)
  /\ WF_vars(Commit)
  /\ WF_vars(Publish)

Spec == Init /\ [][Next]_vars /\ Fairness

-----------------------------------------------------------------------------
(* Properties.                                                             *)

(* Every variable keeps its type, and no cursor has an offset into a file  *)
(* whose inode it does not know: _resolve_offset would trust that offset   *)
(* for whatever file is at the path.                                       *)
TypeOK ==
  /\ file \in [Files -> File]
  /\ order \in Seq(Files)
  /\ lastId \in Nat
  /\ chunks \in Nat
  /\ changed \in BOOLEAN
  /\ cursor \in [Files -> Cursor]
  /\ stored \subseteq Events
  /\ published \subseteq Events
  /\ pc \in {"waiting", "load", "walk", "read", "commit", "publish"}
  /\ cursors \in [Files -> Cursor]
  /\ todo \in Seq([key : Files, inode : Nat \ {0}, size : Nat])
  /\ batch \subseteq Events
  /\ updated \in [Files -> Cursor]
  /\ faults \in Nat
  /\ \A f \in Files : cursor[f].off > 0 => cursor[f].inode # 0

(* The lines within the first off chunks that the collector promises to    *)
(* keep are all in events.  Unusable and oversized lines are given up.     *)
Covers(events, data, off) ==
  \A k \in 1 .. off :
    /\ EndsLine(data[k])
    /\ data[k].ev \notin Unusable
    /\ LineLen[data[k].ev] <= MAX_BYTES_PER_FILE
    => data[k].ev \in events

(* A saved offset never runs ahead of the rows: for the very content it    *)
(* was read from, wherever that now is, every line before the offset is in *)
(* the database (offsets and rows share one transaction, half-written      *)
(* lines stay unread, a rotated path starts again from 0).                 *)
CursorVouches ==
  \A f, g \in Files :
    cursor[f].id # 0 /\ cursor[f].id = file[g].id =>
      /\ cursor[f].off <= Len(file[g].data)
      /\ Covers(stored, file[g].data, cursor[f].off)

(* f was never emptied in place; a new incarnation has a new inode.        *)
Intact(f) == file[f].id = file[f].inode

(* What the collector itself can tell about a file suffices: when neither  *)
(* the inode nor the size shows a replacement, _resolve_offset continues   *)
(* after the offset, and nothing before it is missing from the database.   *)
(* Only a log that was emptied in place may have grown past the offset.    *)
NothingSkipped ==
  \A f \in Files :
    /\ Exists(f)
    /\ Intact(f)
    /\ cursor[f].inode = file[f].inode
    /\ cursor[f].off <= Len(file[f].data)
    => Covers(stored, file[f].data, cursor[f].off)

(* A complete line of event e is in a watched file that was not emptied.   *)
Visible(e) ==
  \E f \in {g \in Files : Intact(g)} : \E k \in DOMAIN file[f].data :
    file[f].data[k] = [ev |-> e, pos |-> LineLen[e]]

(* Every complete line is ingested in the end, unless it is rotated out of *)
(* sight or emptied first: across failed transactions, crashes, capped     *)
(* reads and lost notifications, no line stays behind for ever.            *)
EveryLineIngested ==
  \A e \in Events \ Unusable :
    LineLen[e] <= MAX_BYTES_PER_FILE =>
      (Visible(e) ~> (e \in stored \/ ~ Visible(e)))

(* The live feed never shows an event that is not in the database, and the *)
(* database never forgets one.                                             *)
Feed == INSTANCE DurableFeed WITH durable <- stored, live <- published
FeedIsDurable == Feed!Spec
=============================================================================
