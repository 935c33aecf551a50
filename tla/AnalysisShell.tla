---------------------------- MODULE AnalysisShell ----------------------------
(***************************************************************************)
(* The Analysis Lab: sandbox shells, one container each, the reaper that   *)
(* ends them and polls their connections, and the terminals whose commands *)
(* are recorded.                                                           *)
(*                                                                         *)
(*   services/analysis_shell.py       sessions, events, the reaper's work  *)
(*   api/v1/endpoints/analysis_shell.py   terminals, details               *)
(*   main.py                          background_analysis_reaper           *)
(*                                                                         *)
(* Each handler is one transaction, which reads from the snapshot of its   *)
(* first select and is rolled back by an exception.  A session's row is    *)
(* not visible to others before start_session commits.                     *)
(***************************************************************************)
EXTENDS Integers, Sequences, FiniteSets, SequencesExt

CONSTANTS
  Owners,        \* analysts
  Sessions,      \* session ids
  Ptys,          \* terminals open at a time
  Peers,         \* addresses a sandbox may connect to
  Texts,         \* commands
  MaxSessions,   \* MAX_SESSIONS
  MaxCommands,   \* bound on the commands typed
  MaxFaults      \* bound on failing calls and crashes

ASSUME ShellAssumption ==
  /\ {MaxSessions, MaxCommands, MaxFaults} \subseteq Nat
  /\ Peers \cap Texts = {}

VARIABLES
  row,       \* analysis_sessions, as committed
  cont,      \* the session's container
  start,     \* calls of start_session
  stop,      \* calls of stop_session: the row each has read
  reaper,    \* the reaper's transaction
  seen,      \* the reaper's memory of connections
  pty,       \* terminals, and the command each is recording
  events,    \* normalized_events of the shells
  peers,     \* connections of a sandbox
  overdue,   \* sessions past the hard limit
  typed,     \* commands typed, to bound them (history)
  overlaps,  \* pairs of starts that were under way together (history)
  leaked,    \* containers a failure or a crash has left (history)
  faults

history == <<typed, overlaps, leaked>>
vars == <<row, cont, start, stop, reaper, seen, pty, events, peers, overdue, history, faults>>

-----------------------------------------------------------------------------
NoRow == [owner |-> "nobody", status |-> "none", seq |-> 0, commands |-> 0, linked |-> FALSE]
NoStart == [pc |-> "none", owner |-> "nobody", old |-> {}, before |-> NoRow, full |-> FALSE, ok |-> FALSE]
Resting == [pc |-> "rest", loaded |-> [s \in Sessions |-> NoRow], todo |-> {}, fresh |-> FALSE]
Closed == [pc |-> "closed", session |-> "none", before |-> NoRow, text |-> "none"]

Running(o) == {s \in Sessions : row[s].status = "running" /\ row[s].owner = o}
AllRunning == UNION {Running(o) : o \in Owners}

Fault == faults < MaxFaults /\ faults' = faults + 1

Starting == {s \in Sessions : start[s].pc \in {"replace", "create", "commit"}}

(* Rows that start_session has updated and not yet committed.              *)
Locked == UNION {start[s].old : s \in {t \in Sessions : start[t].pc \in {"create", "commit"}}}

(* What MariaDB refuses to write over, as the endpoint notes (error 1020).  *)
Stale(s, before) == row[s] # before

(* stop_and_remove_managed ignores its errors.                             *)
TakeDown(S) ==
  \/ /\ cont' = [s \in Sessions |-> IF s \in S THEN "none" ELSE cont[s]]
     /\ UNCHANGED <<leaked, faults>>
  \/ \E s \in S :
       /\ cont[s] # "none"
       /\ Fault
       /\ cont' = [t \in Sessions |-> IF t \in S \ {s} THEN "none" ELSE cont[t]]
       /\ leaked' = leaked \cup {s}

Stopped(S) == [s \in Sessions |-> IF s \in S THEN [row[s] EXCEPT !.status = "stopped"] ELSE row[s]]

-----------------------------------------------------------------------------
(* start_session.                                                          *)

(* Faulty: one session too many is let in.                                 *)
CheckCrowd(s, o) ==
  /\ start[s].pc = "none"
  /\ start' = [start EXCEPT ![s] =
       [pc |-> "replace", owner |-> o, old |-> Running(o), before |-> row,
        full |-> Cardinality(AllRunning \ Running(o)) > MaxSessions, ok |-> FALSE]]
  /\ overlaps' = overlaps \cup {{s, t} : t \in Starting}
  /\ UNCHANGED <<row, cont, stop, reaper, seen, pty, events, peers, overdue, typed, leaked, faults>>

Check(s, o) ==
  /\ start[s].pc = "none"
  /\ start' = [start EXCEPT ![s] =
       [pc |-> "replace", owner |-> o, old |-> Running(o), before |-> row,
        full |-> Cardinality(AllRunning \ Running(o)) >= MaxSessions, ok |-> FALSE]]
  /\ overlaps' = overlaps \cup {{s, t} : t \in Starting}
  /\ UNCHANGED <<row, cont, stop, reaper, seen, pty, events, peers, overdue, typed, leaked, faults>>

(* The user's sessions are torn down, and the count writes their rows.     *)
(* When one was changed or too many run only the rows are restored.  With  *)
(* Docker away there is neither a container to remove nor a start.         *)
Replace(s) ==
  LET p == start[s]
      refused == p.full \/ \E t \in p.old : Stale(t, p.before[t])
  IN  /\ p.pc = "replace"
      /\ p.old \cap Locked = {}
      /\ \/ /\ TakeDown(p.old)
            /\ start' = [start EXCEPT ![s].pc = IF refused THEN "done" ELSE "create"]
         \/ /\ Fault
            /\ start' = [start EXCEPT ![s].pc = "done"]
            /\ UNCHANGED <<cont, leaked>>
      /\ UNCHANGED <<row, stop, reaper, seen, pty, events, peers, overdue, typed, overlaps>>

(* The container runs within the deadline, later than that, or not at all. *)
Create(s) ==
  /\ start[s].pc = "create"
  /\ \E c \in {"running", "starting", "none"} :
       /\ cont' = [cont EXCEPT ![s] = c]
       /\ start' = [start EXCEPT ![s].pc = "commit", ![s].ok = (c = "running")]
  /\ UNCHANGED <<row, stop, reaper, seen, pty, events, peers, overdue, history, faults>>

CommitStart(s) ==
  LET p == start[s]
  IN  /\ p.pc = "commit"
      /\ start' = [start EXCEPT ![s] = [NoStart EXCEPT !.pc = "done"]]
      /\ \/ /\ row' = [Stopped(p.old) EXCEPT ![s] =
                [NoRow EXCEPT !.owner = p.owner, !.status = IF p.ok THEN "running" ELSE "error"]]
            /\ UNCHANGED <<leaked, faults>>
         \/ /\ Fault
            /\ leaked' = IF cont[s] = "none" THEN leaked ELSE leaked \cup {s}
            /\ UNCHANGED row
      /\ UNCHANGED <<cont, stop, reaper, seen, pty, events, peers, overdue, typed, overlaps>>

(* stop_session: the row is read, and what was written to it while the     *)
(* container went is not overwritten.                                      *)
BeginStop(s) ==
  /\ row[s].status # "none"
  /\ stop[s] = NoRow
  /\ stop' = [stop EXCEPT ![s] = row[s]]
  /\ UNCHANGED <<row, cont, start, reaper, seen, pty, events, peers, overdue, history, faults>>

(* Faulty: the row is stopped, and its container is not looked for.        *)
EndStopKeeping(s) ==
  /\ stop[s] # NoRow
  /\ s \notin Locked
  /\ row' = IF Stale(s, stop[s]) THEN row ELSE Stopped({s})
  /\ stop' = [stop EXCEPT ![s] = NoRow]
  /\ UNCHANGED <<cont, start, reaper, seen, pty, events, peers, overdue, history, faults>>

EndStop(s) ==
  /\ stop[s] # NoRow
  /\ s \notin Locked
  /\ TakeDown({s})
  /\ row' = IF Stale(s, stop[s]) THEN row ELSE Stopped({s})
  /\ stop' = [stop EXCEPT ![s] = NoRow]
  /\ UNCHANGED <<start, reaper, seen, pty, events, peers, overdue, typed, overlaps>>

-----------------------------------------------------------------------------
(* background_analysis_reaper.                                             *)

Listed == [pc |-> "poll", loaded |-> row, todo |-> AllRunning, fresh |-> FALSE]

(* reap_stale finds nothing to reap and does not commit.                   *)
ReapNone ==
  /\ reaper.pc = "rest"
  /\ overdue \cap AllRunning = {}
  /\ reaper' = Listed
  /\ UNCHANGED <<row, cont, start, stop, seen, pty, events, peers, overdue, history, faults>>

(* Sessions past the hard limit are reaped, and idle ones.                 *)
ReapRead ==
  /\ reaper.pc = "rest"
  /\ \E S \in (SUBSET AllRunning) \ {{}} :
       /\ overdue \cap AllRunning \subseteq S
       /\ reaper' = [pc |-> "reap", loaded |-> row, todo |-> S, fresh |-> FALSE]
  /\ UNCHANGED <<row, cont, start, stop, seen, pty, events, peers, overdue, history, faults>>

(* Faulty: after a failed commit the loop is over.                         *)
ReapOnce ==
  /\ reaper.pc = "reap"
  /\ reaper.todo \cap Locked = {}
  /\ TakeDown(reaper.todo)
  /\ IF \E s \in reaper.todo : Stale(s, reaper.loaded[s])
     THEN reaper' = [Resting EXCEPT !.pc = "dead"] /\ UNCHANGED row
     ELSE row' = Stopped(reaper.todo) /\ reaper' = [Resting EXCEPT !.pc = "list"]
  /\ UNCHANGED <<start, stop, seen, pty, events, peers, overdue, typed, overlaps>>

Reap ==
  /\ reaper.pc = "reap"
  /\ reaper.todo \cap Locked = {}
  /\ TakeDown(reaper.todo)
  /\ IF \E s \in reaper.todo : Stale(s, reaper.loaded[s])
     THEN reaper' = Resting /\ UNCHANGED row
     ELSE row' = Stopped(reaper.todo) /\ reaper' = [Resting EXCEPT !.pc = "list"]
  /\ UNCHANGED <<start, stop, seen, pty, events, peers, overdue, typed, overlaps>>

ListRunning ==
  /\ reaper.pc = "list"
  /\ reaper' = Listed
  /\ UNCHANGED <<row, cont, start, stop, seen, pty, events, peers, overdue, history, faults>>

Event(s, seq, what) == [session |-> s, seq |-> seq, what |-> what]

(* poll_connections: what ss shows for the first time is an event.  The    *)
(* row may be older than the transaction once an earlier poll committed.   *)
Poll(s) ==
  LET new == IF cont[s] = "running" THEN peers[s] \ seen[s] ELSE {}
      old == reaper.loaded[s]
      E == {Event(s, old.seq + i, SetToSeq(new)[i]) : i \in 1 .. Cardinality(new)}
      refused == (~ reaper.fresh /\ Stale(s, old)) \/ E \cap events # {}
  IN  /\ reaper.pc = "poll"
      /\ s \in reaper.todo \ Locked
      /\ seen' = [seen EXCEPT ![s] = @ \cup new]
      /\ IF new = {}
         THEN reaper' = [reaper EXCEPT !.todo = @ \ {s}] /\ UNCHANGED <<row, events>>
         ELSE IF refused
         THEN reaper' = Resting /\ UNCHANGED <<row, events>>
         ELSE /\ reaper' = [reaper EXCEPT !.todo = @ \ {s}, !.fresh = TRUE]
              /\ events' = events \cup E
              /\ \E l \in BOOLEAN :
                   row' = [row EXCEPT ![s].seq = old.seq + Cardinality(new), ![s].linked = @ \/ l]
      /\ UNCHANGED <<cont, start, stop, pty, peers, overdue, history, faults>>

Forget ==
  /\ reaper.pc = "poll"
  /\ reaper.todo = {}
  /\ seen' = [s \in Sessions |-> IF reaper.loaded[s].status = "running" THEN seen[s] ELSE {}]
  /\ reaper' = Resting
  /\ UNCHANGED <<row, cont, start, stop, pty, events, peers, overdue, history, faults>>

-----------------------------------------------------------------------------
(* Terminals.                                                              *)

OpenTerminal(p, s) ==
  /\ pty[p].pc = "closed"
  /\ row[s].status = "running"
  /\ cont[s] = "running"
  /\ pty' = [pty EXCEPT ![p] = [Closed EXCEPT !.pc = "open", !.session = s]]
  /\ UNCHANGED <<row, cont, start, stop, reaper, seen, events, peers, overdue, history, faults>>

Close(p) ==
  /\ pty[p].pc = "open"
  /\ pty' = [pty EXCEPT ![p] = Closed]
  /\ UNCHANGED <<row, cont, start, stop, reaper, seen, events, peers, overdue, history, faults>>

(* pump_in: the line goes to the shell, and the row is read.               *)
Type(p) ==
  LET s == pty[p].session
  IN  /\ pty[p].pc = "open"
      /\ cont[s] = "running"
      /\ typed < MaxCommands
      /\ typed' = typed + 1
      /\ \E c \in Texts :
           pty' = [pty EXCEPT ![p] = [pc |-> "record", session |-> s, before |-> row[s], text |-> c]]
      /\ UNCHANGED <<row, cont, start, stop, reaper, seen, events, peers, overdue, overlaps, leaked, faults>>

(* Faulty: what others wrote since the row was read is not looked at.      *)
RecordBlindly(p) ==
  LET s == pty[p].session
      old == pty[p].before
      e == Event(s, old.seq + 1, pty[p].text)
  IN  /\ pty[p].pc = "record"
      /\ s \notin Locked
      /\ IF e \in events
         THEN pty' = [pty EXCEPT ![p] = Closed] /\ UNCHANGED <<row, events>>
         ELSE /\ events' = events \cup {e}
              /\ \E l \in BOOLEAN :
                   row' = [row EXCEPT ![s].seq = old.seq + 1, ![s].commands = old.commands + 1,
                                      ![s].linked = @ \/ l]
              /\ pty' = [pty EXCEPT ![p] = [Closed EXCEPT !.pc = "open", !.session = s]]
      /\ UNCHANGED <<cont, start, stop, reaper, seen, peers, overdue, history, faults>>

(* record_command: an exception closes the terminal.                       *)
RecordCommand(p) ==
  LET s == pty[p].session
      old == pty[p].before
      e == Event(s, old.seq + 1, pty[p].text)
  IN  /\ pty[p].pc = "record"
      /\ s \notin Locked
      /\ IF Stale(s, old) \/ e \in events
         THEN pty' = [pty EXCEPT ![p] = Closed] /\ UNCHANGED <<row, events>>
         ELSE /\ events' = events \cup {e}
              /\ \E l \in BOOLEAN :
                   row' = [row EXCEPT ![s].seq = old.seq + 1, ![s].commands = old.commands + 1,
                                      ![s].linked = @ \/ l]
              /\ pty' = [pty EXCEPT ![p] = [Closed EXCEPT !.pc = "open", !.session = s]]
      /\ UNCHANGED <<cont, start, stop, reaper, seen, peers, overdue, history, faults>>

(* session_detail: the first look after an incident was opened.            *)
Link(s) ==
  /\ s \notin Locked
  /\ ~ row[s].linked
  /\ \E e \in events : e.session = s
  /\ row' = [row EXCEPT ![s].linked = TRUE]
  /\ UNCHANGED <<cont, start, stop, reaper, seen, pty, events, peers, overdue, history, faults>>

-----------------------------------------------------------------------------
(* Sandboxes, time and the backend's process.                              *)

Connect(s, a) ==
  /\ cont[s] = "running"
  /\ a \notin peers[s]
  /\ peers' = [peers EXCEPT ![s] = @ \cup {a}]
  /\ UNCHANGED <<row, cont, start, stop, reaper, seen, pty, events, overdue, history, faults>>

ComeUp(s) ==
  /\ cont[s] = "starting"
  /\ start[s].pc = "done"
  /\ cont' = [cont EXCEPT ![s] = "running"]
  /\ UNCHANGED <<row, start, stop, reaper, seen, pty, events, peers, overdue, history, faults>>

Overstay(s) ==
  /\ start[s].pc = "done"
  /\ s \notin overdue
  /\ overdue' = overdue \cup {s}
  /\ UNCHANGED <<row, cont, start, stop, reaper, seen, pty, events, peers, history, faults>>

Crash ==
  /\ Fault
  /\ leaked' = leaked \cup {s \in Starting : cont[s] # "none"}
  /\ start' = [s \in Sessions |-> IF s \in Starting THEN [NoStart EXCEPT !.pc = "done"] ELSE start[s]]
  /\ stop' = [s \in Sessions |-> NoRow]
  /\ reaper' = Resting
  /\ seen' = [s \in Sessions |-> {}]
  /\ pty' = [p \in Ptys |-> Closed]
  /\ UNCHANGED <<row, cont, events, peers, overdue, typed, overlaps>>

-----------------------------------------------------------------------------
Init ==
  /\ row = [s \in Sessions |-> NoRow]
  /\ cont = [s \in Sessions |-> "none"]
  /\ start = [s \in Sessions |-> NoStart]
  /\ stop = [s \in Sessions |-> NoRow]
  /\ reaper = Resting
  /\ seen = [s \in Sessions |-> {}]
  /\ pty = [p \in Ptys |-> Closed]
  /\ events = {}
  /\ peers = [s \in Sessions |-> {}]
  /\ overdue = {}
  /\ typed = 0
  /\ overlaps = {}
  /\ leaked = {}
  /\ faults = 0

StartSession(s) == Replace(s) \/ Create(s) \/ CommitStart(s)

ReaperStep == ReapNone \/ ReapRead \/ Reap \/ ListRunning \/ Forget \/ \E s \in Sessions : Poll(s)

Next ==
  \/ \E s \in Sessions : StartSession(s) \/ BeginStop(s) \/ EndStop(s) \/ Link(s) \/ ComeUp(s) \/ Overstay(s)
  \/ \E s \in Sessions : \E o \in Owners : Check(s, o)
  \/ \E s \in Sessions : \E a \in Peers : Connect(s, a)
  \/ \E p \in Ptys : Close(p) \/ Type(p) \/ RecordCommand(p) \/ \E s \in Sessions : OpenTerminal(p, s)
  \/ ReaperStep
  \/ Crash

(* The event loop runs what is ready; Docker and the database answer.      *)
Fairness ==
  WF_vars(ReaperStep) /\ \A s \in Sessions : WF_vars(StartSession(s)) /\ WF_vars(EndStop(s))

Spec == Init /\ [][Next]_vars /\ Fairness

-----------------------------------------------------------------------------
(* Properties.                                                             *)

Overlapped(S) == \E s, t \in S : s # t /\ {s, t} \in overlaps

(* An analyst has one session and no more than MAX_SESSIONS run, unless the *)
(* starts of two of them were under way together.                          *)
LimitsHoldInTurn ==
  /\ \A o \in Owners : \A s, t \in Running(o) : s # t => {s, t} \in overlaps
  /\ Cardinality(AllRunning) > MaxSessions => Overlapped(AllRunning)

(* A container without a running session is being started, came up too     *)
(* late for its session, or was left by a failed removal or commit or by a *)
(* crash; stops, replacements and reaps leave none.                        *)
OnlyKnownLeaks ==
  \A s \in Sessions :
    cont[s] # "none" => row[s].status \in {"running", "error"} \/ s \in Starting \cup leaked

(* A session's command count is that of its recorded commands: terminals   *)
(* of one session do not write over each other's.                          *)
CommandsCounted ==
  \A s \in Sessions :
    row[s].commands = Cardinality({e \in events : e.session = s /\ e.what \in Texts})

(* A session past the hard limit does not go on: a reap refused because a  *)
(* terminal or a stop wrote the row meanwhile is done again.               *)
ExpiredIsReaped ==
  \A s \in Sessions : s \in overdue /\ row[s].status = "running" ~> row[s].status # "running"

(* analysis_shell: every outbound connection is captured.  What the reaper  *)
(* has ticked off is recorded.                                             *)
AttemptsRecorded ==
  \A s \in Sessions : \A a \in seen[s] : \E e \in events : e.session = s /\ e.what = a
=============================================================================
