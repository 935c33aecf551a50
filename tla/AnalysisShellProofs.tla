------------------------- MODULE AnalysisShellProofs -------------------------
(***************************************************************************)
(* Proofs about AnalysisShell, for every set of analysts, sessions and     *)
(* terminals, every limit, and any number of failing calls and crashes:    *)
(*                                                                         *)
(*   CountsAreRight    a session's command count is that of its commands   *)
(*   LeaksAreKnown     stops, replacements and reaps leave no container    *)
(*   LimitsHold        one session an analyst, MAX_SESSIONS in all, unless *)
(*                     starts were under way together                      *)
(***************************************************************************)
EXTENDS AnalysisShell, FiniteSetTheorems, TLAPS

(* What is known of every reachable state.                                 *)

Statuses == {"none", "running", "error", "stopped"}
Steps == {"none", "replace", "create", "commit", "done"}

IsRow(r) ==
  /\ DOMAIN r = {"owner", "status", "seq", "commands", "linked"}
  /\ r.status \in Statuses /\ r.commands \in Nat
  /\ r.status = "running" => r.owner \in Owners

IsStart(p) ==
  /\ DOMAIN p = {"pc", "owner", "old", "before", "full", "ok"}
  /\ p.pc \in Steps /\ p.old \in SUBSET Sessions
  /\ p.pc \in {"replace", "create", "commit"} => p.owner \in Owners

(* The type of what the actions read.                                      *)
TypeInv ==
  /\ DOMAIN row = Sessions /\ \A s \in Sessions : IsRow(row[s])
  /\ cont \in [Sessions -> {"none", "starting", "running"}]
  /\ DOMAIN start = Sessions /\ \A s \in Sessions : IsStart(start[s])
  /\ DOMAIN stop = Sessions
  /\ DOMAIN reaper = {"pc", "loaded", "todo", "fresh"} /\ reaper.todo \in SUBSET Sessions
  /\ DOMAIN pty = Ptys
  /\ DOMAIN peers = Sessions /\ \A s \in Sessions : peers[s] \in SUBSET Peers /\ IsFiniteSet(peers[s])

(* A session whose start is over.                                          *)
Begun(s) == s \in Sessions /\ start[s].pc = "done"

(* A session has a row, commands and a stop only when its start is over.   *)
RowsBegun ==
  \A s \in Sessions :
    ~ Begun(s) => row[s].status = "none" /\ row[s].commands = 0 /\ stop[s] = NoRow

(* It has a container only from the moment its start creates one.          *)
Uncreated ==
  \A s \in Sessions : start[s].pc \in {"none", "replace", "create"} => cont[s] = "none"

(* What refers to a session refers to one whose start is over.             *)
RefersToBegun ==
  /\ \A s \in Sessions : \A t \in start[s].old : Begun(t)
  /\ \A s \in reaper.todo : Begun(s)
  /\ \A p \in Ptys : /\ pty[p].pc # "closed" => Begun(pty[p].session)
                     /\ pty[p].pc = "record" => pty[p].text \in Texts
  /\ \A e \in events : Begun(e.session)

InOrder == RowsBegun /\ Uncreated /\ RefersToBegun

Recorded(s) == {e \in events : e.session = s /\ e.what \in Texts}

Counted ==
  /\ IsFiniteSet(events)
  /\ CommandsCounted

(* What a start has taken down stays down until it commits.                *)
Replaced ==
  \A s \in Sessions : start[s].pc \in {"create", "commit"} =>
    \A t \in start[s].old : cont[t] = "none" \/ t \in leaked

LeakInv == Replaced /\ OnlyKnownLeaks

(* Running sessions that a start neither replaces nor ran beside.          *)
Others(s) == {t \in AllRunning \ start[s].old : {s, t} \notin overlaps}

LetIn(s) == start[s].pc # "replace" \/ ~ start[s].full

(* Starts under way know of each other, and a start that is let in found   *)
(* room; this bounds every set of running sessions, so that a session that *)
(* leaves takes nothing away from it.                                      *)
Admitted ==
  /\ IsFiniteSet(AllRunning)
  /\ \A s, t \in Starting : s # t => {s, t} \in overlaps
  /\ \A s \in Starting :
       /\ \A t \in Running(start[s].owner) \ start[s].old : {s, t} \in overlaps
       /\ LetIn(s) => Cardinality(Others(s)) < MaxSessions
  /\ \A o \in Owners : \A s, t \in Running(o) : s # t => {s, t} \in overlaps
  /\ \A T \in SUBSET AllRunning : Cardinality(T) > MaxSessions => Overlapped(T)

ShellInv == TypeInv /\ InOrder /\ Counted /\ LeakInv /\ Admitted
-----------------------------------------------------------------------------
(* What the helpers do.                                                    *)

LEMMA Rested ==
  /\ DOMAIN Resting = {"pc", "loaded", "todo", "fresh"}
  /\ Resting.pc = "rest" /\ Resting.todo = {} /\ ~ Resting.fresh
  BY DEF Resting

LEMMA RunningRows ==
  ASSUME TypeInv
  PROVE  /\ AllRunning = {s \in Sessions : row[s].status = "running"}
         /\ \A o : Running(o) \subseteq AllRunning \/ o \notin Owners
  BY DEF TypeInv, IsRow, AllRunning, Running

LEMMA TakenDown ==
  ASSUME TypeInv, NEW S \in SUBSET Sessions, TakeDown(S)
  PROVE  /\ cont' \in [Sessions -> {"none", "starting", "running"}]
         /\ \A s \in Sessions : cont'[s] # "none" => cont'[s] = cont[s]
         /\ leaked \subseteq leaked'
         /\ \A s \in S : cont'[s] = "none" \/ s \in leaked'
  BY DEF TypeInv, TakeDown

LEMMA StoppedRows ==
  ASSUME TypeInv, NEW S \in SUBSET Sessions
  PROVE  /\ DOMAIN Stopped(S) = Sessions
         /\ \A s \in Sessions :
              /\ IsRow(Stopped(S)[s])
              /\ Stopped(S)[s].owner = row[s].owner /\ Stopped(S)[s].commands = row[s].commands
              /\ Stopped(S)[s].status = IF s \in S THEN "stopped" ELSE row[s].status
  <1> SUFFICES ASSUME NEW s \in Sessions
               PROVE  /\ IsRow(Stopped(S)[s])
                      /\ Stopped(S)[s].owner = row[s].owner
                      /\ Stopped(S)[s].commands = row[s].commands
                      /\ Stopped(S)[s].status = IF s \in S THEN "stopped" ELSE row[s].status
    BY DEF Stopped
  <1>1. IsRow(row[s])
    BY DEF TypeInv
  <1>2. CASE s \in S
    <2>1. Stopped(S)[s] = [row[s] EXCEPT !.status = "stopped"]
      BY <1>2 DEF Stopped
    <2> QED
      BY <1>1, <1>2, <2>1 DEF IsRow, Statuses
  <1>3. CASE s \notin S
    BY <1>1, <1>3 DEF Stopped
  <1> QED
    BY <1>2, <1>3

-----------------------------------------------------------------------------
(* Types.                                                                  *)

LEMMA TypeInit == Init => TypeInv
  <1> SUFFICES ASSUME Init PROVE TypeInv
    OBVIOUS
  <1>1. \A s \in Sessions : IsRow(row[s]) /\ IsStart(start[s])
    BY DEF Init, NoRow, NoStart, IsRow, IsStart, Statuses, Steps
  <1>2. \A s \in Sessions : IsFiniteSet(peers[s])
    BY FS_EmptySet DEF Init
  <1> QED
    BY <1>1, <1>2 DEF Init, TypeInv, Resting

LEMMA TypeStep == TypeInv /\ [Next]_vars => TypeInv'
  <1> SUFFICES ASSUME TypeInv, [Next]_vars PROVE TypeInv'
    OBVIOUS
  <1>1. ASSUME NEW s \in Sessions, NEW o \in Owners, Check(s, o) PROVE TypeInv'
    <2>1. Running(o) \in SUBSET Sessions
      BY DEF Running
    <2>2. \A t \in Sessions : IsStart(start'[t])
      BY <1>1, <2>1 DEF Check, TypeInv, IsStart, Steps
    <2> QED
      BY <1>1, <2>2 DEF Check, TypeInv
  <1>2. ASSUME NEW s \in Sessions, Replace(s) PROVE TypeInv'
    <2>1. start[s].old \in SUBSET Sessions
      BY DEF TypeInv, IsStart
    <2>2. cont' \in [Sessions -> {"none", "starting", "running"}]
      BY <1>2, <2>1, TakenDown DEF Replace, TypeInv
    <2>3. DOMAIN start' = Sessions /\ \A t \in Sessions : IsStart(start'[t])
      BY <1>2 DEF Replace, TypeInv, IsStart, Steps
    <2> QED
      BY <1>2, <2>2, <2>3 DEF Replace, TypeInv
  <1>3. ASSUME NEW s \in Sessions, Create(s) PROVE TypeInv'
    BY <1>3 DEF Create, TypeInv, IsRow, IsStart, Statuses, Steps, history
  <1>4. ASSUME NEW s \in Sessions, CommitStart(s) PROVE TypeInv'
    <2>1. start[s].old \in SUBSET Sessions /\ start[s].pc = "commit" /\ IsStart(start[s])
      BY <1>4 DEF CommitStart, TypeInv, IsStart
    <2> DEFINE r == [NoRow EXCEPT !.owner = start[s].owner,
                                  !.status = IF start[s].ok THEN "running" ELSE "error"]
    <2>2. IsRow(r)
      BY <2>1 DEF IsStart, IsRow, NoRow, Statuses
    <2>3. row' = row \/ row' = [Stopped(start[s].old) EXCEPT ![s] = r]
      BY <1>4 DEF CommitStart
    <2> HIDE DEF r
    <2>4. DOMAIN row' = Sessions /\ \A t \in Sessions : IsRow(row'[t])
      BY <2>1, <2>2, <2>3, StoppedRows DEF TypeInv
    <2>5. IsStart([NoStart EXCEPT !.pc = "done"])
      BY DEF IsStart, NoStart, Steps
    <2>6. DOMAIN start' = Sessions /\ \A t \in Sessions : IsStart(start'[t])
      BY <1>4, <2>5 DEF CommitStart, TypeInv
    <2> QED
      BY <1>4, <2>4, <2>6 DEF CommitStart, TypeInv
  <1>5. ASSUME NEW s \in Sessions, BeginStop(s) PROVE TypeInv'
    BY <1>5 DEF BeginStop, TypeInv, IsRow, IsStart, Statuses, Steps, history
  <1>6. ASSUME NEW s \in Sessions, EndStop(s) PROVE TypeInv'
    <2>1. cont' \in [Sessions -> {"none", "starting", "running"}]
      BY <1>6, TakenDown DEF EndStop
    <2>2. DOMAIN row' = Sessions /\ \A t \in Sessions : IsRow(row'[t])
      BY <1>6, StoppedRows DEF EndStop, TypeInv
    <2> QED
      BY <1>6, <2>1, <2>2 DEF EndStop, TypeInv
  <1>7. ASSUME ReapNone PROVE TypeInv'
    BY <1>7, RunningRows DEF ReapNone, Listed, TypeInv
  <1>8. ASSUME ReapRead PROVE TypeInv'
    BY <1>8, RunningRows DEF ReapRead, TypeInv
  <1>9. ASSUME Reap PROVE TypeInv'
    <2>1. cont' \in [Sessions -> {"none", "starting", "running"}]
      BY <1>9, TakenDown DEF Reap, TypeInv
    <2>2. DOMAIN row' = Sessions /\ \A t \in Sessions : IsRow(row'[t])
      BY <1>9, StoppedRows DEF Reap, TypeInv
    <2>3. DOMAIN reaper' = {"pc", "loaded", "todo", "fresh"} /\ reaper'.todo \in SUBSET Sessions
      BY <1>9 DEF Reap, Resting
    <2> QED
      BY <1>9, <2>1, <2>2, <2>3 DEF Reap, TypeInv
  <1>10. ASSUME ListRunning PROVE TypeInv'
    BY <1>10, RunningRows DEF ListRunning, Listed, TypeInv, history
  <1>11. ASSUME NEW s \in Sessions, Poll(s) PROVE TypeInv'
    <2>1. DOMAIN reaper' = {"pc", "loaded", "todo", "fresh"} /\ reaper'.todo \in SUBSET Sessions
      <3>1. \/ reaper' = Resting
            \/ reaper' = [reaper EXCEPT !.todo = @ \ {s}]
            \/ reaper' = [reaper EXCEPT !.todo = @ \ {s}, !.fresh = TRUE]
        BY <1>11 DEF Poll
      <3>2. DOMAIN reaper = {"pc", "loaded", "todo", "fresh"} /\ reaper.todo \in SUBSET Sessions
        BY DEF TypeInv
      <3>3. DOMAIN reaper' = {"pc", "loaded", "todo", "fresh"}
        BY <3>1, <3>2, Rested
      <3>4. reaper'.todo = {} \/ reaper'.todo = reaper.todo \ {s}
        BY <3>1, <3>2, Rested
      <3> QED
        BY <3>2, <3>3, <3>4
    <2>2. /\ UNCHANGED <<cont, start, stop, pty, peers>>
          /\ \/ row' = row
             \/ \E n, l : row' = [row EXCEPT ![s].seq = n, ![s].linked = l]
      BY <1>11 DEF Poll
    <2>3. DOMAIN row' = Sessions /\ \A t \in Sessions : IsRow(row'[t])
      <3>1. ASSUME NEW n, NEW l, row' = [row EXCEPT ![s].seq = n, ![s].linked = l]
            PROVE  DOMAIN row' = Sessions /\ \A t \in Sessions : IsRow(row'[t])
        BY <3>1 DEF TypeInv, IsRow
      <3> QED
        BY <2>2, <3>1 DEF TypeInv
    <2> QED
      BY <2>1, <2>2, <2>3 DEF TypeInv
  <1>12. ASSUME Forget PROVE TypeInv'
    BY <1>12 DEF Forget, Resting, TypeInv
  <1>13. ASSUME NEW p \in Ptys, NEW s \in Sessions, OpenTerminal(p, s) PROVE TypeInv'
    BY <1>13 DEF OpenTerminal, TypeInv, IsRow, IsStart, Statuses, Steps, history
  <1>14. ASSUME NEW p \in Ptys, Close(p) PROVE TypeInv'
    BY <1>14 DEF Close, TypeInv, IsRow, IsStart, Statuses, Steps, history
  <1>15. ASSUME NEW p \in Ptys, Type(p) PROVE TypeInv'
    BY <1>15 DEF Type, TypeInv, IsRow, IsStart, Statuses, Steps, history
  <1>16. ASSUME NEW p \in Ptys, RecordCommand(p) PROVE TypeInv'
    <2> DEFINE q == pty[p].session
    <2>1. /\ UNCHANGED <<cont, start, stop, reaper, peers>> /\ DOMAIN pty' = Ptys
          /\ \/ row' = row
             \/ /\ row[q] = pty[p].before
                /\ \E n, l :
                     row' = [row EXCEPT ![q].seq = n, ![q].commands = row[q].commands + 1,
                                        ![q].linked = l]
      BY <1>16 DEF RecordCommand, TypeInv, Stale
    <2>2. DOMAIN row' = Sessions /\ \A t \in Sessions : IsRow(row'[t])
      <3> HIDE DEF q
      <3>1. ASSUME NEW n, NEW l,
                   row' = [row EXCEPT ![q].seq = n, ![q].commands = row[q].commands + 1,
                                      ![q].linked = l]
            PROVE  DOMAIN row' = Sessions /\ \A t \in Sessions : IsRow(row'[t])
        BY <3>1 DEF TypeInv, IsRow
      <3> QED
        BY <2>1, <3>1 DEF TypeInv
    <2> QED
      BY <2>1, <2>2 DEF TypeInv
  <1>17. ASSUME NEW s \in Sessions, Link(s) PROVE TypeInv'
    BY <1>17 DEF Link, TypeInv, IsRow, IsStart, Statuses, Steps, history
  <1>18. ASSUME NEW s \in Sessions, NEW a \in Peers, Connect(s, a) PROVE TypeInv'
    <2>1. \A t \in Sessions : peers'[t] \in SUBSET Peers /\ IsFiniteSet(peers'[t])
      <3>1. peers' = [peers EXCEPT ![s] = @ \cup {a}]
        BY <1>18 DEF Connect
      <3>2. IsFiniteSet(peers[s] \cup {a})
        BY FS_AddElement DEF TypeInv
      <3> QED
        BY <3>1, <3>2 DEF TypeInv
    <2> QED
      BY <1>18, <2>1 DEF Connect, TypeInv
  <1>19. ASSUME NEW s \in Sessions, ComeUp(s) PROVE TypeInv'
    BY <1>19 DEF ComeUp, TypeInv, IsRow, IsStart, Statuses, Steps, history
  <1>20. ASSUME NEW s \in Sessions, Overstay(s) PROVE TypeInv'
    BY <1>20 DEF Overstay, TypeInv, IsRow, IsStart, Statuses, Steps, history
  <1>21. ASSUME Crash PROVE TypeInv'
    <2>1. \A t \in Sessions : IsStart(start'[t])
      BY <1>21 DEF Crash, TypeInv, IsStart, NoStart, Steps
    <2> QED
      BY <1>21, <2>1 DEF Crash, TypeInv, Resting
  <1>22. CASE UNCHANGED vars
    BY <1>22 DEF vars, history, TypeInv
  <1> QED
    BY <1>1, <1>2, <1>3, <1>4, <1>5, <1>6, <1>7, <1>8, <1>9, <1>10, <1>11, <1>12, <1>13,
       <1>14, <1>15, <1>16, <1>17, <1>18, <1>19, <1>20, <1>21, <1>22 DEF Next,
       StartSession, ReaperStep
-----------------------------------------------------------------------------
(* The life of a session.                                                  *)

LEMMA RunningBegun ==
  ASSUME TypeInv, InOrder
  PROVE  /\ \A s \in AllRunning : Begun(s) /\ s \in Sessions /\ row[s].status = "running"
         /\ \A o \in Owners : Running(o) \in SUBSET AllRunning
  BY RunningRows DEF InOrder, RowsBegun, Begun

LEMMA OrderInit == Init => InOrder
  <1> SUFFICES ASSUME Init PROVE InOrder
    OBVIOUS
  <1>1. reaper.todo = {}
    BY Rested DEF Init
  <1> QED
    BY <1>1 DEF Init, InOrder, RowsBegun, Uncreated, RefersToBegun, Begun, NoRow, NoStart, Closed

(* A step that lets no session start and writes rows of begun ones only.   *)
LEMMA RowsStayBegun ==
  ASSUME InOrder, UNCHANGED start,
         \A s \in Sessions : Begun(s) \/ (row'[s] = row[s] /\ stop'[s] \in {NoRow, stop[s]}),
         \A s \in Sessions : cont[s] = "none" => cont'[s] = "none"
  PROVE  RowsBegun' /\ Uncreated' /\ \A s : Begun(s)' <=> Begun(s)
  <1>1. \A s : Begun(s)' <=> Begun(s)
    BY DEF Begun
  <1>2. RowsBegun'
    BY <1>1 DEF InOrder, RowsBegun
  <1>3. Uncreated'
    BY DEF InOrder, Uncreated
  <1> QED
    BY <1>1, <1>2, <1>3

LEMMA OrderStep == TypeInv /\ TypeInv' /\ InOrder /\ [Next]_vars => InOrder'
  <1> SUFFICES ASSUME TypeInv, TypeInv', InOrder, [Next]_vars PROVE InOrder'
    OBVIOUS
  <1>1. ASSUME NEW s \in Sessions, NEW o \in Owners, Check(s, o) PROVE InOrder'
    <2>1. Running(o) \in SUBSET AllRunning /\ \A t \in AllRunning : Begun(t)
      BY RunningBegun
    <2>2. /\ \A t \in Sessions \ {s} : start'[t] = start[t]
          /\ start[s].pc = "none" /\ start'[s].pc = "replace" /\ start'[s].old = Running(o)
          /\ UNCHANGED <<row, cont, stop, reaper, pty, events>>
      BY <1>1 DEF Check, TypeInv
    <2>3. \A t : Begun(t)' <=> Begun(t)
      BY <2>2 DEF Begun
    <2>4. \A t \in Sessions : \A u \in start'[t].old : Begun(u)
      BY <2>1, <2>2 DEF InOrder, RefersToBegun
    <2>5. RowsBegun' /\ Uncreated'
      BY <2>2, <2>3 DEF InOrder, RowsBegun, Uncreated
    <2> QED
      BY <2>2, <2>3, <2>4, <2>5 DEF InOrder, RefersToBegun
  <1>2. ASSUME NEW s \in Sessions, Replace(s) PROVE InOrder'
    <2>1. start[s].old \in SUBSET Sessions
      BY DEF TypeInv, IsStart
    <2>2. \A t \in Sessions : cont[t] = "none" => cont'[t] = "none"
      BY <1>2, <2>1, TakenDown DEF Replace
    <2>3. /\ \A t \in Sessions \ {s} : start'[t] = start[t]
          /\ start[s].pc = "replace" /\ start'[s].pc \in {"create", "done"}
          /\ start'[s].old = start[s].old
          /\ UNCHANGED <<row, stop, reaper, pty, events>>
      BY <1>2 DEF Replace, TypeInv, IsStart
    <2>4. \A t : Begun(t) => Begun(t)'
      BY <2>3 DEF Begun
    <2>5. RowsBegun' /\ Uncreated'
      BY <2>2, <2>3, <2>4 DEF InOrder, RowsBegun, Uncreated
    <2>6. \A t \in Sessions : start'[t].old = start[t].old
      BY <2>3
    <2> QED
      BY <2>3, <2>4, <2>5, <2>6 DEF InOrder, RefersToBegun
  <1>3. ASSUME NEW s \in Sessions, Create(s) PROVE InOrder'
    <2>1. /\ \A t \in Sessions \ {s} : start'[t] = start[t] /\ cont'[t] = cont[t]
          /\ start[s].pc = "create" /\ start'[s].pc = "commit" /\ start'[s].old = start[s].old
          /\ UNCHANGED <<row, stop, reaper, pty, events>>
      BY <1>3 DEF Create, TypeInv, IsStart
    <2>2. \A t : Begun(t)' <=> Begun(t)
      BY <2>1 DEF Begun
    <2>3. RowsBegun' /\ Uncreated'
      BY <2>1, <2>2 DEF InOrder, RowsBegun, Uncreated
    <2>4. \A t \in Sessions : start'[t].old = start[t].old
      BY <2>1
    <2> QED
      BY <2>1, <2>2, <2>3, <2>4 DEF InOrder, RefersToBegun
  <1>4. ASSUME NEW s \in Sessions, CommitStart(s) PROVE InOrder'
    <2>1. /\ \A t \in Sessions \ {s} : start'[t] = start[t]
          /\ start[s].pc = "commit" /\ start'[s].pc = "done" /\ start'[s].old = {}
          /\ UNCHANGED <<cont, stop, reaper, pty, events>>
      BY <1>4 DEF CommitStart, TypeInv, NoStart
    <2>2. \A t \in Sessions \ {s} : Begun(t) \/ row'[t] = row[t]
      <3>1. start[s].old \in SUBSET Sessions /\ \A t \in start[s].old : Begun(t)
        BY DEF TypeInv, IsStart, InOrder, RefersToBegun
      <3> QED
        BY <1>4, <3>1 DEF CommitStart, Stopped
    <2>3. \A t : Begun(t) => Begun(t)'
      BY <2>1 DEF Begun
    <2>4. RowsBegun'
      BY <2>1, <2>2, <2>3 DEF InOrder, RowsBegun, Begun
    <2>5. Uncreated'
      BY <2>1 DEF InOrder, Uncreated
    <2>6. \A t \in Sessions : \A u \in start'[t].old : Begun(u)
      BY <2>1 DEF InOrder, RefersToBegun
    <2> QED
      BY <2>1, <2>3, <2>4, <2>5, <2>6 DEF InOrder, RefersToBegun
  <1>5. ASSUME NEW s \in Sessions, BeginStop(s) PROVE InOrder'
    <2>1. Begun(s)
      BY <1>5 DEF BeginStop, InOrder, RowsBegun
    <2>2. RowsBegun' /\ Uncreated' /\ \A t : Begun(t)' <=> Begun(t)
      BY <1>5, <2>1, RowsStayBegun DEF BeginStop, TypeInv
    <2> QED
      BY <1>5, <2>2 DEF BeginStop, InOrder, RefersToBegun
  <1>6. ASSUME NEW s \in Sessions, EndStop(s) PROVE InOrder'
    <2>1. Begun(s)
      BY <1>6 DEF EndStop, InOrder, RowsBegun
    <2>2. \A t \in Sessions : cont[t] = "none" => cont'[t] = "none"
      BY <1>6, TakenDown DEF EndStop
    <2>3. \A t \in Sessions : t # s => row'[t] = row[t] /\ stop'[t] = stop[t]
      BY <1>6 DEF EndStop, Stopped, TypeInv
    <2>4. RowsBegun' /\ Uncreated' /\ \A t : Begun(t)' <=> Begun(t)
      BY <1>6, <2>1, <2>2, <2>3, RowsStayBegun DEF EndStop
    <2> QED
      BY <1>6, <2>4 DEF EndStop, InOrder, RefersToBegun
  <1>7. ASSUME ReapNone PROVE InOrder'
    <2>1. RowsBegun' /\ Uncreated' /\ \A t : Begun(t)' <=> Begun(t)
      BY <1>7, RowsStayBegun DEF ReapNone, Listed
    <2> QED
      BY <1>7, <2>1, RunningBegun DEF ReapNone, InOrder, RefersToBegun, Listed
  <1>8. ASSUME ReapRead PROVE InOrder'
    <2>1. RowsBegun' /\ Uncreated' /\ \A t : Begun(t)' <=> Begun(t)
      BY <1>8, RowsStayBegun DEF ReapRead
    <2> QED
      BY <1>8, <2>1, RunningBegun DEF ReapRead, InOrder, RefersToBegun
  <1>9. ASSUME Reap PROVE InOrder'
    <2>1. \A t \in reaper.todo : Begun(t)
      BY DEF InOrder, RefersToBegun
    <2>2. \A t \in Sessions : cont[t] = "none" => cont'[t] = "none"
      BY <1>9, TakenDown DEF Reap, TypeInv
    <2>3. \A t \in Sessions : Begun(t) \/ row'[t] = row[t]
      BY <1>9, <2>1 DEF Reap, Stopped
    <2>4. RowsBegun' /\ Uncreated' /\ \A t : Begun(t)' <=> Begun(t)
      BY <1>9, <2>2, <2>3, RowsStayBegun DEF Reap
    <2>5. reaper'.todo = {}
      BY <1>9 DEF Reap, Resting
    <2> QED
      BY <1>9, <2>4, <2>5 DEF Reap, InOrder, RefersToBegun
  <1>10. ASSUME ListRunning PROVE InOrder'
    <2>1. RowsBegun' /\ Uncreated' /\ \A t : Begun(t)' <=> Begun(t)
      BY <1>10, RowsStayBegun DEF ListRunning, Listed, history
    <2> QED
      BY <1>10, <2>1, RunningBegun DEF ListRunning, InOrder, RefersToBegun, Listed, history
  <1>11. ASSUME NEW s \in Sessions, Poll(s) PROVE InOrder'
    <2>1. Begun(s) /\ UNCHANGED <<cont, start, stop, pty>>
      BY <1>11 DEF Poll, InOrder, RefersToBegun
    <2>2. \A t \in Sessions : t # s => row'[t] = row[t]
      BY <1>11 DEF Poll, TypeInv
    <2>3. RowsBegun' /\ Uncreated' /\ \A t : Begun(t)' <=> Begun(t)
      BY <2>1, <2>2, RowsStayBegun
    <2>4. reaper'.todo \subseteq reaper.todo
      <3>1. \/ reaper' = Resting
            \/ reaper' = [reaper EXCEPT !.todo = @ \ {s}]
            \/ reaper' = [reaper EXCEPT !.todo = @ \ {s}, !.fresh = TRUE]
        BY <1>11 DEF Poll
      <3>2. "todo" \in DOMAIN reaper
        BY DEF TypeInv
      <3>3. reaper'.todo = {} \/ reaper'.todo = reaper.todo \ {s}
        BY <3>1, <3>2, Rested
      <3> QED
        BY <3>3
    <2>5. \A e \in events' : e \in events \/ e.session = s
      BY <1>11 DEF Poll, Event
    <2> QED
      BY <2>1, <2>3, <2>4, <2>5 DEF InOrder, RefersToBegun
  <1>12. ASSUME Forget PROVE InOrder'
    <2>1. RowsBegun' /\ Uncreated' /\ \A t : Begun(t)' <=> Begun(t)
      BY <1>12, RowsStayBegun DEF Forget
    <2> QED
      BY <1>12, <2>1, Rested DEF Forget, InOrder, RefersToBegun
  <1>13. ASSUME NEW p \in Ptys, NEW s \in Sessions, OpenTerminal(p, s) PROVE InOrder'
    <2>1. RowsBegun' /\ Uncreated' /\ \A t : Begun(t)' <=> Begun(t)
      BY <1>13, RowsStayBegun DEF OpenTerminal
    <2>2. Begun(s)
      BY <1>13 DEF OpenTerminal, InOrder, RowsBegun
    <2>3. \A x \in Ptys : \/ pty'[x] = pty[x]
                         \/ (pty'[x].session = s /\ pty'[x].pc = "open")
      BY <1>13 DEF OpenTerminal, TypeInv, Closed
    <2> QED
      BY <1>13, <2>1, <2>2, <2>3 DEF OpenTerminal, InOrder, RefersToBegun
  <1>14. ASSUME NEW p \in Ptys, Close(p) PROVE InOrder'
    <2>1. RowsBegun' /\ Uncreated' /\ \A t : Begun(t)' <=> Begun(t)
      BY <1>14, RowsStayBegun DEF Close, Closed
    <2> QED
      BY <1>14, <2>1 DEF Close, InOrder, RefersToBegun, Closed
  <1>15. ASSUME NEW p \in Ptys, Type(p) PROVE InOrder'
    <2>1. RowsBegun' /\ Uncreated' /\ \A t : Begun(t)' <=> Begun(t)
      BY <1>15, RowsStayBegun DEF Type
    <2> QED
      BY <1>15, <2>1 DEF Type, InOrder, RefersToBegun
  <1>16. ASSUME NEW p \in Ptys, RecordCommand(p) PROVE InOrder'
    <2> DEFINE q == pty[p].session
    <2>1. Begun(q) /\ UNCHANGED <<cont, start, stop, reaper>>
      BY <1>16 DEF RecordCommand, InOrder, RefersToBegun
    <2>2. \A t \in Sessions : t # q => row'[t] = row[t]
      BY <1>16 DEF RecordCommand, TypeInv
    <2>3. RowsBegun' /\ Uncreated' /\ \A t : Begun(t)' <=> Begun(t)
      BY <2>1, <2>2, RowsStayBegun
    <2>4. \A e \in events' : e \in events \/ e.session = q
      BY <1>16 DEF RecordCommand, Event
    <2>5. ASSUME NEW x \in Ptys
          PROVE  \/ pty'[x] = pty[x]
                 \/ pty'[x].pc = "closed"
                 \/ /\ pty'[x].session = q
                    /\ pty'[x].pc = "open"
      <3>1. \/ pty' = [pty EXCEPT ![p] = Closed]
            \/ pty' = [pty EXCEPT ![p] = [Closed EXCEPT !.pc = "open", !.session = q]]
        BY <1>16 DEF RecordCommand
      <3> DEFINE o == [Closed EXCEPT !.pc = "open", !.session = q]
      <3>2. Closed.pc = "closed" /\ o.pc = "open" /\ o.session = q
        BY DEF Closed
      <3>3. pty' = [pty EXCEPT ![p] = Closed] \/ pty' = [pty EXCEPT ![p] = o]
        BY <3>1
      <3> HIDE DEF q, o
      <3> QED
        BY <3>2, <3>3 DEF TypeInv
    <2> HIDE DEF q
    <2> QED
      BY <2>1, <2>3, <2>4, <2>5 DEF InOrder, RefersToBegun
  <1>17. ASSUME NEW s \in Sessions, Link(s) PROVE InOrder'
    <2>1. Begun(s)
      BY <1>17 DEF Link, InOrder, RefersToBegun
    <2>2. RowsBegun' /\ Uncreated' /\ \A t : Begun(t)' <=> Begun(t)
      BY <1>17, <2>1, RowsStayBegun DEF Link, TypeInv
    <2> QED
      BY <1>17, <2>2 DEF Link, InOrder, RefersToBegun
  <1>18. ASSUME NEW s \in Sessions, NEW a \in Peers, Connect(s, a) PROVE InOrder'
    <2>1. RowsBegun' /\ Uncreated' /\ \A t : Begun(t)' <=> Begun(t)
      BY <1>18, RowsStayBegun DEF Connect, history
    <2> QED
      BY <1>18, <2>1 DEF Connect, InOrder, RefersToBegun, history
  <1>19. ASSUME NEW s \in Sessions, ComeUp(s) PROVE InOrder'
    <2>1. cont' = [cont EXCEPT ![s] = "running"] /\ cont[s] = "starting"
      BY <1>19 DEF ComeUp
    <2>2. RowsBegun' /\ Uncreated' /\ \A t : Begun(t)' <=> Begun(t)
      BY <1>19, <2>1, RowsStayBegun DEF ComeUp, TypeInv
    <2> QED
      BY <1>19, <2>2 DEF ComeUp, InOrder, RefersToBegun
  <1>20. ASSUME NEW s \in Sessions, Overstay(s) PROVE InOrder'
    <2>1. RowsBegun' /\ Uncreated' /\ \A t : Begun(t)' <=> Begun(t)
      BY <1>20, RowsStayBegun DEF Overstay
    <2> QED
      BY <1>20, <2>1 DEF Overstay, InOrder, RefersToBegun
  <1>21. ASSUME Crash PROVE InOrder'
    <2>1. \A t \in Sessions : \/ start'[t] = start[t]
                              \/ start'[t].pc = "done" /\ start'[t].old = {}
      BY <1>21 DEF Crash, NoStart
    <2>2. /\ UNCHANGED <<row, cont, events>> /\ \A t \in Sessions : stop'[t] = NoRow
          /\ reaper'.todo = {} /\ \A p \in Ptys : pty'[p].pc = "closed"
      BY <1>21, Rested DEF Crash, Closed
    <2>3. \A t : Begun(t) => Begun(t)'
      BY <2>1 DEF Begun
    <2>4. RowsBegun' /\ Uncreated'
      BY <2>1, <2>2, <2>3 DEF InOrder, RowsBegun, Uncreated
    <2> QED
      BY <2>1, <2>2, <2>3, <2>4 DEF InOrder, RefersToBegun
  <1>22. CASE UNCHANGED vars
    <2>1. RowsBegun' /\ Uncreated' /\ \A t : Begun(t)' <=> Begun(t)
      BY <1>22, RowsStayBegun DEF vars
    <2> QED
      BY <1>22, <2>1 DEF vars, InOrder, RefersToBegun
  <1> QED
    BY <1>1, <1>2, <1>3, <1>4, <1>5, <1>6, <1>7, <1>8, <1>9, <1>10, <1>11, <1>12, <1>13,
       <1>14, <1>15, <1>16, <1>17, <1>18, <1>19, <1>20, <1>21, <1>22 DEF Next,
       StartSession, ReaperStep

-----------------------------------------------------------------------------
(* The count of the commands.                                              *)

(* A finite set has a sequence of its elements.                            *)
LEMMA SequenceOf ==
  ASSUME NEW S, IsFiniteSet(S)
  PROVE  Cardinality(S) \in Nat /\ \A i \in 1 .. Cardinality(S) : SetToSeq(S)[i] \in S
  <1>1. Cardinality(S) \in Nat /\ \E f : f \in Bijection(1 .. Cardinality(S), S)
    BY FS_CardinalityType DEF ExistsBijection
  <1>2. \E f \in [1 .. Cardinality(S) -> S] : IsInjective(f)
    BY <1>1 DEF Bijection, Injection
  <1>3. SetToSeq(S) \in [1 .. Cardinality(S) -> S]
    BY <1>2 DEF SetToSeq
  <1> QED
    BY <1>1, <1>3

(* A poll records finitely many events, and no command.                    *)
LEMMA PolledEvents ==
  ASSUME TypeInv, IsFiniteSet(events), NEW s \in Sessions, Poll(s)
  PROVE  /\ IsFiniteSet(events') /\ events \subseteq events'
         /\ \A e \in events' : e \in events \/ e.what \in Peers
         /\ \A t \in Sessions : row'[t].commands = row[t].commands
  <1> DEFINE new == IF cont[s] = "running" THEN peers[s] \ seen[s] ELSE {}
             n == Cardinality(new)
             q == SetToSeq(new)
             old == reaper.loaded[s]
             E == {Event(s, old.seq + i, q[i]) : i \in 1 .. n}
             f == [i \in 1 .. n |-> Event(s, old.seq + i, q[i])]
  <1>1. new \in SUBSET Peers /\ IsFiniteSet(new)
    <2>1. peers[s] \in SUBSET Peers /\ IsFiniteSet(peers[s])
      BY DEF TypeInv
    <2>2. new \in SUBSET peers[s]
      OBVIOUS
    <2> HIDE DEF new
    <2> QED
      BY <2>1, <2>2, FS_Subset
  <1>2. n \in Nat /\ \A i \in 1 .. n : q[i] \in new
    <2> HIDE DEF new
    <2> QED
      BY <1>1, SequenceOf
  <1>3. events' = events \/ events' = events \cup E
    BY DEF Poll
  <1>4. \/ row' = row
        \/ \E k, l : row' = [row EXCEPT ![s].seq = k, ![s].linked = l]
    BY DEF Poll
  <1> HIDE DEF new, n, q, old
  <1>5. \A e \in E : e.what \in Peers
    BY <1>1, <1>2 DEF Event
  <1>6. IsFiniteSet(E)
    <2>1. f \in Surjection(1 .. n, E)
      <3>1. f \in [1 .. n -> E]
        OBVIOUS
      <3>2. \A e \in E : \E i \in 1 .. n : f[i] = e
        OBVIOUS
      <3> HIDE DEF f, E
      <3> QED
        BY <3>1, <3>2 DEF Surjection
    <2>2. IsFiniteSet(1 .. n)
      BY <1>2, FS_Interval
    <2> HIDE DEF f, E
    <2> QED
      BY <2>1, <2>2, FS_Surjection
  <1>7. IsFiniteSet(events')
    <2> HIDE DEF E
    <2> QED
      BY <1>3, <1>6, FS_Union
  <1>8. \A t \in Sessions : row'[t].commands = row[t].commands
    <2>1. ASSUME NEW k, NEW l, row' = [row EXCEPT ![s].seq = k, ![s].linked = l]
          PROVE  \A t \in Sessions : row'[t].commands = row[t].commands
      BY <2>1 DEF TypeInv, IsRow
    <2> QED
      BY <1>4, <2>1
  <1> QED
    BY <1>3, <1>5, <1>7, <1>8

(* A step that records no command and writes no count.                     *)
LEMMA CountStays ==
  ASSUME Counted, IsFiniteSet(events'), events \subseteq events',
         \A e \in events' : e \in events \/ e.what \in Peers,
         \A s \in Sessions : row'[s].commands = row[s].commands
  PROVE  Counted'
  <1>1. ASSUME NEW s \in Sessions PROVE row'[s].commands = Cardinality(Recorded(s)')
    <2>1. Recorded(s)' = Recorded(s)
      BY ShellAssumption DEF Recorded
    <2> QED
      BY <2>1 DEF Counted, CommandsCounted, Recorded
  <1> QED
    BY <1>1 DEF Counted, CommandsCounted, Recorded

(* What recording a command does to the rows and the events.               *)
LEMMA RecordedIs ==
  ASSUME NEW p, RecordCommand(p)
  PROVE  \E q, e :
           /\ q = pty[p].session /\ e = Event(q, pty[p].before.seq + 1, pty[p].text)
           /\ \/ UNCHANGED <<row, events>>
              \/ /\ events' = events \cup {e} /\ e \notin events
                 /\ \E n, l : row' = [row EXCEPT ![q].seq = n,
                                                 ![q].commands = row[q].commands + 1,
                                                 ![q].linked = l]
  <1> DEFINE q == pty[p].session
             old == pty[p].before
             e == Event(q, old.seq + 1, pty[p].text)
  <1>1. CASE Stale(q, old) \/ e \in events
    BY <1>1 DEF RecordCommand
  <1>2. CASE ~(Stale(q, old) \/ e \in events)
    <2>1. events' = events \cup {e} /\ e \notin events /\ old = row[q]
      BY <1>2 DEF RecordCommand, Stale
    <2>2. PICK l \in BOOLEAN :
            row' = [row EXCEPT ![q].seq = old.seq + 1, ![q].commands = old.commands + 1,
                               ![q].linked = @ \/ l]
      BY <1>2 DEF RecordCommand
    <2>3. row' = [row EXCEPT ![q].seq = old.seq + 1, ![q].commands = row[q].commands + 1,
                             ![q].linked = row[q].linked \/ l]
      BY <2>1, <2>2
    <2> QED
      BY <2>1, <2>3
  <1> QED
    BY <1>1, <1>2

LEMMA CountInit == Init => Counted
  <1> SUFFICES ASSUME Init PROVE Counted
    OBVIOUS
  <1>1. \A s : Recorded(s) = {}
    BY DEF Init, Recorded
  <1>2. \A s \in Sessions : row[s].commands = 0
    BY DEF Init, NoRow
  <1> QED
    BY <1>1, <1>2, FS_EmptySet DEF Init, Counted, CommandsCounted, Recorded

LEMMA CountStep == TypeInv /\ InOrder /\ Counted /\ [Next]_vars => Counted'
  <1> SUFFICES ASSUME TypeInv, InOrder, Counted, [Next]_vars PROVE Counted'
    OBVIOUS
  <1>1. ASSUME NEW s \in Sessions, NEW o \in Owners, Check(s, o) PROVE Counted'
    BY <1>1, CountStays, FS_Subset DEF Check, Counted
  <1>2. ASSUME NEW s \in Sessions, Replace(s) PROVE Counted'
    BY <1>2, CountStays, FS_Subset DEF Replace, Counted
  <1>3. ASSUME NEW s \in Sessions, Create(s) PROVE Counted'
    BY <1>3, CountStays, FS_Subset DEF Create, Counted
  <1>4. ASSUME NEW s \in Sessions, CommitStart(s) PROVE Counted'
    <2>1. row[s].commands = 0 /\ start[s].old \in SUBSET Sessions
      BY <1>4 DEF CommitStart, InOrder, RowsBegun, Begun, TypeInv, IsStart
    <2> DEFINE r == [NoRow EXCEPT !.owner = start[s].owner,
                                  !.status = IF start[s].ok THEN "running" ELSE "error"]
    <2>2. r.commands = 0
      BY DEF NoRow
    <2>3. row' = row \/ row' = [Stopped(start[s].old) EXCEPT ![s] = r]
      BY <1>4 DEF CommitStart
    <2> HIDE DEF r
    <2>4. \A t \in Sessions : row'[t].commands = row[t].commands
      BY <2>1, <2>2, <2>3, StoppedRows
    <2> QED
      BY <1>4, <2>4, CountStays DEF CommitStart, Counted
  <1>5. ASSUME NEW s \in Sessions, BeginStop(s) PROVE Counted'
    BY <1>5, CountStays, FS_Subset DEF BeginStop, Counted
  <1>6. ASSUME NEW s \in Sessions, EndStop(s) PROVE Counted'
    <2>1. \A t \in Sessions : row'[t].commands = row[t].commands
      BY <1>6, StoppedRows DEF EndStop
    <2> QED
      BY <1>6, <2>1, CountStays DEF EndStop, Counted
  <1>7. ASSUME ReapNone PROVE Counted'
    BY <1>7, CountStays, FS_Subset DEF ReapNone, Counted
  <1>8. ASSUME ReapRead PROVE Counted'
    BY <1>8, CountStays, FS_Subset DEF ReapRead, Counted
  <1>9. ASSUME Reap PROVE Counted'
    <2>1. \A t \in Sessions : row'[t].commands = row[t].commands
      BY <1>9, StoppedRows DEF Reap, TypeInv
    <2> QED
      BY <1>9, <2>1, CountStays DEF Reap, Counted
  <1>10. ASSUME ListRunning PROVE Counted'
    BY <1>10, CountStays, FS_Subset DEF ListRunning, Counted, history
  <1>11. ASSUME NEW s \in Sessions, Poll(s) PROVE Counted'
    <2>1. IsFiniteSet(events)
      BY DEF Counted
    <2> QED
      BY <1>11, <2>1, PolledEvents, CountStays
  <1>12. ASSUME Forget PROVE Counted'
    BY <1>12, CountStays, FS_Subset DEF Forget, Counted
  <1>13. ASSUME NEW p \in Ptys, NEW s \in Sessions, OpenTerminal(p, s) PROVE Counted'
    BY <1>13, CountStays, FS_Subset DEF OpenTerminal, Counted
  <1>14. ASSUME NEW p \in Ptys, Close(p) PROVE Counted'
    BY <1>14, CountStays, FS_Subset DEF Close, Counted
  <1>15. ASSUME NEW p \in Ptys, Type(p) PROVE Counted'
    BY <1>15, CountStays, FS_Subset DEF Type, Counted
  <1>16. ASSUME NEW p \in Ptys, RecordCommand(p) PROVE Counted'
    <2>1. pty[p].session \in Sessions /\ pty[p].text \in Texts
      BY <1>16 DEF RecordCommand, InOrder, RefersToBegun, Begun
    <2>2. PICK q, e :
            /\ q = pty[p].session /\ e = Event(q, pty[p].before.seq + 1, pty[p].text)
            /\ \/ UNCHANGED <<row, events>>
               \/ /\ events' = events \cup {e} /\ e \notin events
                  /\ \E n, l : row' = [row EXCEPT ![q].seq = n,
                                                  ![q].commands = row[q].commands + 1,
                                                  ![q].linked = l]
      BY <1>16, RecordedIs
    <2>3. q \in Sessions /\ e.session = q /\ e.what \in Texts
      BY <2>1, <2>2 DEF Event
    <2>6. CASE UNCHANGED <<row, events>>
      BY <2>6, CountStays DEF Counted
    <2>7. ASSUME events' = events \cup {e}, e \notin events, NEW n, NEW l,
                 row' = [row EXCEPT ![q].seq = n, ![q].commands = row[q].commands + 1,
                                    ![q].linked = l]
          PROVE  Counted'
      <3>1. /\ row'[q].commands = row[q].commands + 1
            /\ \A t \in Sessions \ {q} : row'[t].commands = row[t].commands
        BY <2>3, <2>7 DEF TypeInv, IsRow
      <3>2. /\ Recorded(q)' = Recorded(q) \cup {e} /\ e \notin Recorded(q)
            /\ \A t \in Sessions \ {q} : Recorded(t)' = Recorded(t)
        <4>1. Recorded(q)' = Recorded(q) \cup {e}
          BY <2>3, <2>7 DEF Recorded
        <4>2. e \notin Recorded(q)
          BY <2>7 DEF Recorded
        <4>3. ASSUME NEW t \in Sessions \ {q} PROVE Recorded(t)' = Recorded(t)
          BY <2>3, <2>7 DEF Recorded
        <4> QED
          BY <4>1, <4>2, <4>3
      <3>3. IsFiniteSet(Recorded(q))
        BY FS_Subset DEF Recorded, Counted
      <3>4. Cardinality(Recorded(q)') = Cardinality(Recorded(q)) + 1
        BY <3>2, <3>3, FS_AddElement
      <3>5. \A t \in Sessions : row[t].commands = Cardinality(Recorded(t))
        BY DEF Counted, CommandsCounted, Recorded
      <3>6. ASSUME NEW t \in Sessions PROVE row'[t].commands = Cardinality(Recorded(t)')
        <4>1. CASE t = q
          BY <2>3, <3>1, <3>4, <3>5, <4>1
        <4>2. CASE t # q
          BY <3>1, <3>2, <3>5, <4>2
        <4> QED
          BY <4>1, <4>2
      <3>7. IsFiniteSet(events')
        BY <2>7, FS_AddElement DEF Counted
      <3> QED
        BY <3>6, <3>7 DEF Counted, CommandsCounted, Recorded
    <2> QED
      BY <2>2, <2>6, <2>7
  <1>17. ASSUME NEW s \in Sessions, Link(s) PROVE Counted'
    <2>1. \A t \in Sessions : row'[t].commands = row[t].commands
      BY <1>17 DEF Link, TypeInv, IsRow
    <2> QED
      BY <1>17, <2>1, CountStays DEF Link, Counted
  <1>18. ASSUME NEW s \in Sessions, NEW a \in Peers, Connect(s, a) PROVE Counted'
    BY <1>18, CountStays, FS_Subset DEF Connect, Counted
  <1>19. ASSUME NEW s \in Sessions, ComeUp(s) PROVE Counted'
    BY <1>19, CountStays, FS_Subset DEF ComeUp, Counted
  <1>20. ASSUME NEW s \in Sessions, Overstay(s) PROVE Counted'
    BY <1>20, CountStays, FS_Subset DEF Overstay, Counted
  <1>21. ASSUME Crash PROVE Counted'
    BY <1>21, CountStays, FS_Subset DEF Crash, Counted
  <1>22. CASE UNCHANGED vars
    BY <1>22, CountStays DEF vars, Counted
  <1> QED
    BY <1>1, <1>2, <1>3, <1>4, <1>5, <1>6, <1>7, <1>8, <1>9, <1>10, <1>11, <1>12, <1>13,
       <1>14, <1>15, <1>16, <1>17, <1>18, <1>19, <1>20, <1>21, <1>22 DEF Next,
       StartSession, ReaperStep

-----------------------------------------------------------------------------
(* Containers.                                                             *)

LEMMA LeakInit == Init => LeakInv
  BY DEF Init, LeakInv, Replaced, OnlyKnownLeaks, NoStart

(* A step that starts no container, and takes a session's status only when *)
(* it has taken its container down.                                        *)
LEMMA LeakStays ==
  ASSUME TypeInv, LeakInv, UNCHANGED start, leaked \subseteq leaked',
         \A s \in Sessions : cont'[s] # "none" =>
           cont[s] # "none" /\ (row'[s].status = row[s].status \/ s \in leaked')
  PROVE  LeakInv'
  <1>1. Starting' = Starting
    BY DEF Starting
  <1>2. Replaced'
    <2>1. \A s \in Sessions : start[s].old \in SUBSET Sessions
      BY DEF TypeInv, IsStart
    <2> QED
      BY <2>1 DEF LeakInv, Replaced
  <1>3. OnlyKnownLeaks'
    BY <1>1 DEF LeakInv, OnlyKnownLeaks
  <1> QED
    BY <1>2, <1>3 DEF LeakInv

LEMMA LeakStep == TypeInv /\ InOrder /\ LeakInv /\ [Next]_vars => LeakInv'
  <1> SUFFICES ASSUME TypeInv, InOrder, LeakInv, [Next]_vars PROVE LeakInv'
    OBVIOUS
  <1>1. ASSUME NEW s \in Sessions, NEW o \in Owners, Check(s, o) PROVE LeakInv'
    <2>1. /\ \A t \in Sessions \ {s} : start'[t] = start[t]
          /\ start[s].pc = "none" /\ start'[s].pc = "replace"
          /\ UNCHANGED <<row, cont, leaked>>
      BY <1>1 DEF Check, TypeInv
    <2>2. Starting \subseteq Starting'
      BY <2>1 DEF Starting
    <2> QED
      BY <2>1, <2>2 DEF LeakInv, Replaced, OnlyKnownLeaks
  <1>2. ASSUME NEW s \in Sessions, Replace(s) PROVE LeakInv'
    <2>1. start[s].old \in SUBSET Sessions /\ cont[s] = "none" /\ start[s].pc = "replace"
      BY <1>2 DEF Replace, TypeInv, IsStart, InOrder, Uncreated
    <2>2. /\ leaked \subseteq leaked'
          /\ \A t \in Sessions : cont'[t] # "none" => cont'[t] = cont[t]
          /\ start'[s].pc = "create" =>
               \A t \in start[s].old : cont'[t] = "none" \/ t \in leaked'
      <3>1. \/ TakeDown(start[s].old)
            \/ UNCHANGED <<cont, leaked>> /\ start'[s].pc = "done"
        BY <1>2 DEF Replace, TypeInv, IsStart
      <3>2. CASE TakeDown(start[s].old)
        BY <2>1, <3>2, TakenDown
      <3> QED
        BY <3>1, <3>2
    <2>3. /\ \A t \in Sessions \ {s} : start'[t] = start[t]
          /\ start'[s].pc \in {"create", "done"} /\ start'[s].old = start[s].old
          /\ row' = row
      BY <1>2 DEF Replace, TypeInv, IsStart
    <2>4. Starting \ {s} \subseteq Starting'
      BY <2>3 DEF Starting
    <2>5. Replaced'
      <3>1. \A t \in Sessions : start[t].old \in SUBSET Sessions
        BY DEF TypeInv, IsStart
      <3> QED
        BY <2>1, <2>2, <2>3, <3>1 DEF LeakInv, Replaced
    <2>6. OnlyKnownLeaks'
      BY <2>1, <2>2, <2>3, <2>4 DEF LeakInv, OnlyKnownLeaks
    <2> QED
      BY <2>5, <2>6 DEF LeakInv
  <1>3. ASSUME NEW s \in Sessions, Create(s) PROVE LeakInv'
    <2>1. /\ \A t \in Sessions \ {s} : start'[t] = start[t] /\ cont'[t] = cont[t]
          /\ start[s].pc = "create" /\ start'[s].pc = "commit" /\ start'[s].old = start[s].old
          /\ UNCHANGED <<row, leaked>>
      BY <1>3 DEF Create, TypeInv, IsStart, history
    <2>2. \A t \in Sessions : s \notin start[t].old /\ start[t].old \in SUBSET Sessions
      BY <2>1 DEF InOrder, RefersToBegun, Begun, TypeInv, IsStart
    <2>3. Starting' = Starting
      BY <2>1 DEF Starting
    <2>4. s \in Starting
      BY <2>1 DEF Starting
    <2> QED
      BY <2>1, <2>2, <2>3, <2>4 DEF LeakInv, Replaced, OnlyKnownLeaks
  <1>4. ASSUME NEW s \in Sessions, CommitStart(s) PROVE LeakInv'
    <2>1. /\ start[s].pc = "commit" /\ start[s].old \in SUBSET Sessions /\ cont' = cont
          /\ \A t \in start[s].old : cont[t] = "none" \/ t \in leaked
          /\ leaked \subseteq leaked'
      BY <1>4 DEF CommitStart, TypeInv, IsStart, LeakInv, Replaced
    <2>2. /\ \A t \in Sessions \ {s} : start'[t] = start[t]
          /\ start'[s].pc = "done"
      BY <1>4 DEF CommitStart, TypeInv, NoStart
    <2> DEFINE r == [NoRow EXCEPT !.owner = start[s].owner,
                                  !.status = IF start[s].ok THEN "running" ELSE "error"]
    <2>3. r.status \in {"running", "error"}
      BY DEF NoRow
    <2>4. \/ row' = [Stopped(start[s].old) EXCEPT ![s] = r]
          \/ /\ row' = row
             /\ leaked' = IF cont[s] = "none" THEN leaked ELSE leaked \cup {s}
      BY <1>4 DEF CommitStart
    <2> HIDE DEF r
    <2>5. /\ row'[s].status \in {"running", "error"} \/ cont[s] = "none" \/ s \in leaked'
          /\ \A t \in Sessions \ {s} : row'[t].status = row[t].status \/ t \in start[s].old
      BY <2>1, <2>3, <2>4, StoppedRows DEF TypeInv
    <2>6. Starting \ {s} \subseteq Starting'
      BY <2>2 DEF Starting
    <2>7. Replaced'
      <3>1. \A t \in Sessions : start[t].old \in SUBSET Sessions
        BY DEF TypeInv, IsStart
      <3> QED
        BY <2>1, <2>2, <3>1 DEF LeakInv, Replaced
    <2>8. OnlyKnownLeaks'
      BY <2>1, <2>5, <2>6 DEF LeakInv, OnlyKnownLeaks
    <2> QED
      BY <2>7, <2>8 DEF LeakInv
  <1>5. ASSUME NEW s \in Sessions, BeginStop(s) PROVE LeakInv'
    BY <1>5, LeakStays DEF BeginStop, history
  <1>6. ASSUME NEW s \in Sessions, EndStop(s) PROVE LeakInv'
    <2>1. \A t \in Sessions : row'[t].status = row[t].status \/ t = s
      BY <1>6, StoppedRows DEF EndStop
    <2>2. /\ leaked \subseteq leaked' /\ (cont'[s] = "none" \/ s \in leaked')
          /\ \A t \in Sessions : cont'[t] # "none" => cont'[t] = cont[t]
      BY <1>6, TakenDown DEF EndStop
    <2> QED
      BY <1>6, <2>1, <2>2, LeakStays DEF EndStop
  <1>7. ASSUME ReapNone PROVE LeakInv'
    BY <1>7, LeakStays DEF ReapNone, history
  <1>8. ASSUME ReapRead PROVE LeakInv'
    BY <1>8, LeakStays DEF ReapRead, history
  <1>9. ASSUME Reap PROVE LeakInv'
    <2>1. \A t \in Sessions : row'[t].status = row[t].status \/ t \in reaper.todo
      BY <1>9, StoppedRows DEF Reap, TypeInv
    <2>2. /\ leaked \subseteq leaked' /\ \A t \in reaper.todo : cont'[t] = "none" \/ t \in leaked'
          /\ \A t \in Sessions : cont'[t] # "none" => cont'[t] = cont[t]
      BY <1>9, TakenDown DEF Reap, TypeInv
    <2> QED
      BY <1>9, <2>1, <2>2, LeakStays DEF Reap
  <1>10. ASSUME ListRunning PROVE LeakInv'
    BY <1>10, LeakStays DEF ListRunning, history
  <1>11. ASSUME NEW s \in Sessions, Poll(s) PROVE LeakInv'
    <2>1. \/ row' = row
          \/ \E n, l : row' = [row EXCEPT ![s].seq = n, ![s].linked = l]
      BY <1>11 DEF Poll
    <2>2. ASSUME NEW n, NEW l, row' = [row EXCEPT ![s].seq = n, ![s].linked = l]
          PROVE  \A t \in Sessions : row'[t].status = row[t].status
      BY <2>2 DEF TypeInv, IsRow
    <2>3. UNCHANGED <<cont, start, leaked>>
      BY <1>11 DEF Poll, history
    <2> QED
      BY <2>1, <2>2, <2>3, LeakStays
  <1>12. ASSUME Forget PROVE LeakInv'
    BY <1>12, LeakStays DEF Forget, history
  <1>13. ASSUME NEW p \in Ptys, NEW s \in Sessions, OpenTerminal(p, s) PROVE LeakInv'
    BY <1>13, LeakStays DEF OpenTerminal, history
  <1>14. ASSUME NEW p \in Ptys, Close(p) PROVE LeakInv'
    BY <1>14, LeakStays DEF Close, history
  <1>15. ASSUME NEW p \in Ptys, Type(p) PROVE LeakInv'
    BY <1>15, LeakStays DEF Type, history
  <1>16. ASSUME NEW p \in Ptys, RecordCommand(p) PROVE LeakInv'
    <2>1. PICK q : \/ row' = row
                   \/ \E n, l : row' = [row EXCEPT ![q].seq = n,
                                                   ![q].commands = row[q].commands + 1,
                                                   ![q].linked = l]
      BY <1>16, RecordedIs
    <2>2. ASSUME NEW n, NEW l,
                 row' = [row EXCEPT ![q].seq = n, ![q].commands = row[q].commands + 1,
                                    ![q].linked = l]
          PROVE  \A t \in Sessions : row'[t].status = row[t].status
      BY <2>2 DEF TypeInv, IsRow
    <2>3. UNCHANGED <<cont, start, leaked>>
      BY <1>16 DEF RecordCommand, history
    <2> QED
      BY <2>1, <2>2, <2>3, LeakStays
  <1>17. ASSUME NEW s \in Sessions, Link(s) PROVE LeakInv'
    <2>1. \A t \in Sessions : row'[t].status = row[t].status
      BY <1>17 DEF Link, TypeInv, IsRow
    <2> QED
      BY <1>17, <2>1, LeakStays DEF Link, history
  <1>18. ASSUME NEW s \in Sessions, NEW a \in Peers, Connect(s, a) PROVE LeakInv'
    BY <1>18, LeakStays DEF Connect, history
  <1>19. ASSUME NEW s \in Sessions, ComeUp(s) PROVE LeakInv'
    BY <1>19, LeakStays DEF ComeUp, history, TypeInv
  <1>20. ASSUME NEW s \in Sessions, Overstay(s) PROVE LeakInv'
    BY <1>20, LeakStays DEF Overstay, history
  <1>21. ASSUME Crash PROVE LeakInv'
    <2>1. /\ leaked' = leaked \cup {s \in Starting : cont[s] # "none"}
          /\ \A t \in Sessions : start'[t].pc \notin {"create", "commit"}
          /\ UNCHANGED <<row, cont>>
      BY <1>21 DEF Crash, NoStart, Starting
    <2> QED
      BY <2>1 DEF LeakInv, Replaced, OnlyKnownLeaks
  <1>22. CASE UNCHANGED vars
    BY <1>22, LeakStays DEF vars, history
  <1> QED
    BY <1>1, <1>2, <1>3, <1>4, <1>5, <1>6, <1>7, <1>8, <1>9, <1>10, <1>11, <1>12, <1>13,
       <1>14, <1>15, <1>16, <1>17, <1>18, <1>19, <1>20, <1>21, <1>22 DEF Next,
       StartSession, ReaperStep

-----------------------------------------------------------------------------
(* The limits.                                                             *)

LEMMA AdmitInit == Init => Admitted
  <1> SUFFICES ASSUME Init PROVE Admitted
    OBVIOUS
  <1>1. \A s \in Sessions : row[s].status = "none" /\ start[s].pc = "none"
    BY DEF Init, NoRow, NoStart
  <1>2. AllRunning = {} /\ Starting = {} /\ \A o : Running(o) = {}
    BY <1>1 DEF AllRunning, Running, Starting
  <1>3. \A T \in SUBSET {} : ~ (Cardinality(T) > MaxSessions)
    BY FS_EmptySet, ShellAssumption
  <1> QED
    BY <1>2, <1>3, FS_EmptySet DEF Admitted

LEMMA OthersFinite ==
  ASSUME IsFiniteSet(AllRunning), NEW S \in SUBSET AllRunning
  PROVE  IsFiniteSet(S) /\ Cardinality(S) \in Nat
  BY FS_Subset, FS_CardinalityType

(* A step that lets no session run and no start begin.                     *)
LEMMA AdmitStays ==
  ASSUME TypeInv, Admitted, overlaps' = overlaps,
         \A s \in Sessions : row'[s].status = "running" =>
           row[s].status = "running" /\ row'[s].owner = row[s].owner,
         \A s \in Sessions : s \in Starting' =>
           /\ s \in Starting
           /\ start'[s].owner = start[s].owner /\ start'[s].old = start[s].old
           /\ LetIn(s)' => LetIn(s)
  PROVE  Admitted'
  <1>1. \A o : Running(o)' \subseteq Running(o)
    BY DEF Running
  <1>2. AllRunning' \subseteq AllRunning /\ IsFiniteSet(AllRunning)
    BY <1>1 DEF AllRunning, Admitted
  <1>3. Starting' \subseteq Starting
    BY DEF Starting
  <1>4. ASSUME NEW s \in Starting', LetIn(s)' PROVE Cardinality(Others(s)') < MaxSessions
    <2>1. s \in Sessions
      BY DEF Starting
    <2>2. s \in Starting /\ LetIn(s) /\ start'[s].old = start[s].old
      BY <1>4, <2>1
    <2>3. Others(s)' \subseteq Others(s)
      BY <1>2, <2>2 DEF Others
    <2>4. IsFiniteSet(Others(s)) /\ Others(s) \in SUBSET AllRunning
      BY <1>2, OthersFinite DEF Others
    <2>5. Cardinality(Others(s)') <= Cardinality(Others(s)) /\ Cardinality(Others(s)') \in Nat
      BY <2>3, <2>4, FS_Subset, FS_CardinalityType
    <2>6. Cardinality(Others(s)) < MaxSessions /\ Cardinality(Others(s)) \in Nat
      BY <1>2, <2>2, <2>4, OthersFinite DEF Admitted
    <2>7. MaxSessions \in Nat
      BY ShellAssumption
    <2> DEFINE a == Cardinality(Others(s)')
               b == Cardinality(Others(s))
    <2>8. a <= b /\ a \in Nat /\ b \in Nat /\ b < MaxSessions
      BY <2>5, <2>6
    <2> HIDE DEF a, b
    <2>9. a < MaxSessions
      BY <2>7, <2>8
    <2> QED
      BY <2>9 DEF a
  <1>5. \A s \in Starting' : \A t \in (Running(start[s].owner) \ start[s].old)' : {s, t} \in overlaps
    <2> SUFFICES ASSUME NEW s \in Starting', NEW t \in (Running(start[s].owner) \ start[s].old)'
                 PROVE  {s, t} \in overlaps
      OBVIOUS
    <2>1. s \in Sessions
      BY DEF Starting
    <2>2. s \in Starting /\ start'[s].owner = start[s].owner /\ start'[s].old = start[s].old
      BY <2>1
    <2>3. t \in Running(start[s].owner) \ start[s].old
      BY <2>2 DEF Running
    <2> QED
      BY <2>2, <2>3 DEF Admitted
  <1>6. IsFiniteSet(AllRunning')
    BY <1>2, FS_Subset
  <1>7. \A T \in SUBSET AllRunning' : Cardinality(T) > MaxSessions => Overlapped(T)'
    BY <1>2 DEF Admitted, Overlapped
  <1>8. \A o \in Owners : \A s, t \in Running(o)' : s # t => {s, t} \in overlaps'
    BY <1>1 DEF Admitted
  <1>9. \A s, t \in Starting' : s # t => {s, t} \in overlaps'
    BY <1>3 DEF Admitted
  <1> QED
    BY <1>4, <1>5, <1>6, <1>7, <1>8, <1>9 DEF Admitted

(* A start begins.                                                         *)
LEMMA AdmitCheck ==
  ASSUME TypeInv, Admitted, NEW s \in Sessions, NEW o \in Owners, Check(s, o)
  PROVE  Admitted'
  <1>1. /\ \A t \in Sessions \ {s} : start'[t] = start[t]
        /\ start[s].pc = "none" /\ start'[s].pc = "replace"
        /\ start'[s].owner = o /\ start'[s].old = Running(o)
        /\ start'[s].full = (Cardinality(AllRunning \ Running(o)) >= MaxSessions)
        /\ overlaps' = overlaps \cup {{s, t} : t \in Starting}
        /\ row' = row
    BY DEF Check, TypeInv
  <1>2. /\ AllRunning' = AllRunning /\ \A x : Running(x)' = Running(x)
        /\ s \notin Starting /\ Starting' = Starting \cup {s}
    BY <1>1 DEF AllRunning, Running, Starting
  <1>3. IsFiniteSet(AllRunning) /\ MaxSessions \in Nat
    BY ShellAssumption DEF Admitted
  <1>4. ASSUME NEW t \in Starting', LetIn(t)' PROVE Cardinality(Others(t)') < MaxSessions
    <2>1. CASE t = s
      <3>1. ~ (Cardinality(AllRunning \ Running(o)) >= MaxSessions)
        BY <1>1, <1>4, <2>1 DEF LetIn
      <3>2. Others(t)' \subseteq AllRunning \ Running(o)
        BY <1>1, <1>2, <2>1 DEF Others
      <3>3. /\ Cardinality(Others(t)') <= Cardinality(AllRunning \ Running(o))
            /\ Cardinality(Others(t)') \in Nat /\ Cardinality(AllRunning \ Running(o)) \in Nat
        BY <1>3, <3>2, OthersFinite, FS_Subset, FS_CardinalityType
      <3> DEFINE a == Cardinality(Others(t)')
                 b == Cardinality(AllRunning \ Running(o))
      <3>4. a <= b /\ a \in Nat /\ b \in Nat /\ ~ (b >= MaxSessions)
        BY <3>1, <3>3
      <3> HIDE DEF a, b
      <3>5. a < MaxSessions
        BY <1>3, <3>4
      <3> QED
        BY <3>5 DEF a
    <2>2. CASE t # s
      <3>1. t \in Starting /\ t \in Sessions /\ start'[t] = start[t]
        BY <1>1, <1>2, <2>2 DEF Starting
      <3>2. LetIn(t)
        BY <1>4, <3>1 DEF LetIn
      <3>3. Others(t)' \subseteq Others(t) /\ Others(t) \in SUBSET AllRunning
        BY <1>1, <1>2, <3>1 DEF Others
      <3>4. /\ Cardinality(Others(t)') <= Cardinality(Others(t))
            /\ Cardinality(Others(t)') \in Nat /\ Cardinality(Others(t)) \in Nat
        BY <1>3, <3>3, OthersFinite, FS_Subset, FS_CardinalityType
      <3>5. Cardinality(Others(t)) < MaxSessions
        BY <3>1, <3>2 DEF Admitted
      <3> DEFINE a == Cardinality(Others(t)')
                 b == Cardinality(Others(t))
      <3>6. a <= b /\ a \in Nat /\ b \in Nat /\ b < MaxSessions
        BY <3>4, <3>5
      <3> HIDE DEF a, b
      <3>7. a < MaxSessions
        BY <1>3, <3>6
      <3> QED
        BY <3>7 DEF a
    <2> QED
      BY <2>1, <2>2
  <1>5. \A t \in Starting' : \A x \in (Running(start[t].owner) \ start[t].old)' : {t, x} \in overlaps'
    <2> SUFFICES ASSUME NEW t \in Starting', NEW x \in (Running(start[t].owner) \ start[t].old)'
                 PROVE  {t, x} \in overlaps'
      OBVIOUS
    <2>1. t # s
      BY <1>1, <1>2
    <2>2. t \in Starting /\ t \in Sessions /\ start'[t] = start[t]
      BY <1>1, <1>2, <2>1 DEF Starting
    <2>3. x \in Running(start[t].owner) \ start[t].old
      BY <1>1, <2>2 DEF Running
    <2> QED
      BY <1>1, <2>2, <2>3 DEF Admitted
  <1>6. ASSUME NEW t \in Starting', NEW x \in Starting', t # x PROVE {t, x} \in overlaps'
    <2>1. CASE t # s /\ x # s
      BY <1>1, <1>2, <1>6, <2>1 DEF Admitted
    <2>2. CASE t = s
      BY <1>1, <1>2, <1>6, <2>2
    <2>3. CASE x = s
      <3>1. {t, x} = {s, t}
        BY <2>3
      <3> QED
        BY <1>1, <1>2, <1>6, <2>3, <3>1
    <2> QED
      BY <2>1, <2>2, <2>3
  <1>7. \A T \in SUBSET AllRunning' : Cardinality(T) > MaxSessions => Overlapped(T)'
    BY <1>1, <1>2 DEF Admitted, Overlapped
  <1>8. \A x \in Owners : \A t, u \in Running(x)' : t # u => {t, u} \in overlaps'
    BY <1>1, <1>2 DEF Admitted
  <1> QED
    BY <1>2, <1>3, <1>4, <1>5, <1>6, <1>7, <1>8 DEF Admitted

(* A session that starts to run ran beside every other that its own start  *)
(* did not find, and found room for those that it did.                     *)
LEMMA AdmitRun ==
  ASSUME TypeInv, InOrder, Admitted, NEW s \in Sessions, start[s].pc = "commit",
         NEW r, r.status = "running", r.owner = start[s].owner,
         row' = [Stopped(start[s].old) EXCEPT ![s] = r],
         start' = [start EXCEPT ![s] = [NoStart EXCEPT !.pc = "done"]],
         overlaps' = overlaps
  PROVE  Admitted'
  <1> DEFINE old == start[s].old
  <1>1. /\ s \in Starting /\ LetIn(s) /\ start[s].owner \in Owners /\ old \in SUBSET Sessions
        /\ row[s].status = "none" /\ s \notin old
    BY DEF Starting, LetIn, TypeInv, IsStart, InOrder, RowsBegun, RefersToBegun, Begun
  <1>2. /\ row'[s] = r
        /\ \A t \in Sessions \ {s} :
             /\ row'[t].owner = row[t].owner
             /\ row'[t].status = IF t \in old THEN "stopped" ELSE row[t].status
    BY <1>1, StoppedRows
  <1>3. /\ \A o : Running(o)' \subseteq (Running(o) \ old) \cup {s}
        /\ \A o : s \in Running(o)' => o = start[s].owner
    BY <1>1, <1>2 DEF Running
  <1>4. AllRunning' \subseteq (AllRunning \ old) \cup {s}
    BY <1>3 DEF AllRunning
  <1>5. s \notin Starting' /\ Starting' \subseteq Starting /\ \A t \in Starting' : start'[t] = start[t]
    BY DEF Starting, TypeInv, NoStart
  <1>6. IsFiniteSet(AllRunning) /\ MaxSessions \in Nat
    BY ShellAssumption DEF Admitted
  <1>7. IsFiniteSet(AllRunning')
    <2>1. IsFiniteSet(AllRunning \ old)
      BY <1>6, FS_Subset
    <2>2. IsFiniteSet((AllRunning \ old) \cup {s})
      BY <2>1, FS_AddElement
    <2> QED
      BY <1>4, <2>2, FS_Subset
  <1>8. \A t \in Starting' : {s, t} \in overlaps /\ {t, s} \in overlaps
    BY <1>1, <1>5 DEF Admitted
  <1>9. ASSUME NEW t \in Starting', LetIn(t)' PROVE Cardinality(Others(t)') < MaxSessions
    <2>1. LetIn(t) /\ t \in Starting
      BY <1>5, <1>9 DEF LetIn
    <2>2. Others(t)' \subseteq Others(t) /\ Others(t) \in SUBSET AllRunning
      BY <1>4, <1>5, <1>8 DEF Others
    <2>3. /\ Cardinality(Others(t)') <= Cardinality(Others(t))
          /\ Cardinality(Others(t)') \in Nat /\ Cardinality(Others(t)) \in Nat
      BY <1>6, <2>2, OthersFinite, FS_Subset, FS_CardinalityType
    <2>4. Cardinality(Others(t)) < MaxSessions
      BY <2>1 DEF Admitted
    <2> DEFINE a == Cardinality(Others(t)')
               b == Cardinality(Others(t))
    <2>5. a <= b /\ a \in Nat /\ b \in Nat /\ b < MaxSessions
      BY <2>3, <2>4
    <2> HIDE DEF a, b
    <2>6. a < MaxSessions
      BY <1>6, <2>5
    <2> QED
      BY <2>6 DEF a
  <1>10. \A t \in Starting' : \A x \in (Running(start[t].owner) \ start[t].old)' : {t, x} \in overlaps'
    <2> SUFFICES ASSUME NEW t \in Starting', NEW x \in (Running(start[t].owner) \ start[t].old)'
                 PROVE  {t, x} \in overlaps'
      OBVIOUS
    <2>1. t \in Starting /\ start'[t] = start[t]
      BY <1>5
    <2>2. PICK o : o = start[t].owner
      OBVIOUS
    <2>3. x \in Running(o)' /\ x \notin start[t].old
      BY <2>1, <2>2 DEF Running
    <2>4. x = s \/ x \in Running(o) \ start[t].old
      BY <1>3, <2>3
    <2> QED
      BY <1>8, <2>1, <2>2, <2>4 DEF Admitted
  <1>11. \A t, x \in Starting' : t # x => {t, x} \in overlaps'
    BY <1>5 DEF Admitted
  <1>12. ASSUME NEW o \in Owners, NEW t \in Running(o)', NEW x \in Running(o)', t # x
         PROVE  {t, x} \in overlaps'
    <2>1. \A y \in Running(start[s].owner) \ old : {s, y} \in overlaps
      BY <1>1 DEF Admitted
    <2>2. CASE t # s /\ x # s
      BY <1>3, <1>12, <2>2 DEF Admitted
    <2>3. CASE t = s
      BY <1>3, <1>12, <2>1, <2>3
    <2>4. CASE x = s
      <3>1. {t, x} = {s, t}
        BY <2>4
      <3> QED
        BY <1>3, <1>12, <2>1, <2>4, <3>1
    <2> QED
      BY <2>2, <2>3, <2>4
  <1>13. ASSUME NEW T \in SUBSET AllRunning', Cardinality(T) > MaxSessions PROVE Overlapped(T)'
    <2>1. CASE s \notin T
      <3>1. T \in SUBSET AllRunning
        BY <1>4, <2>1
      <3>2. Overlapped(T)
        BY <1>13, <3>1 DEF Admitted
      <3> QED
        BY <3>2 DEF Overlapped
    <2>2. CASE s \in T /\ \E t \in T \ {s} : {s, t} \in overlaps
      BY <2>2 DEF Overlapped
    <2>3. CASE s \in T /\ \A t \in T \ {s} : {s, t} \notin overlaps
      <3>1. T \ {s} \subseteq Others(s) /\ Others(s) \in SUBSET AllRunning
        BY <1>4, <2>3 DEF Others
      <3>2. /\ Cardinality(T \ {s}) <= Cardinality(Others(s))
            /\ Cardinality(T \ {s}) \in Nat /\ Cardinality(Others(s)) \in Nat
        BY <1>6, <3>1, OthersFinite, FS_Subset, FS_CardinalityType
      <3>3. Cardinality(Others(s)) < MaxSessions
        BY <1>1 DEF Admitted
      <3>4. IsFiniteSet(T) /\ Cardinality(T) \in Nat /\ Cardinality(T \ {s}) = Cardinality(T) - 1
        BY <1>7, <2>3, FS_Subset, FS_CardinalityType, FS_RemoveElement
      <3> DEFINE a == Cardinality(T \ {s})
                 b == Cardinality(Others(s))
                 k == Cardinality(T)
      <3>5. a <= b /\ a \in Nat /\ b \in Nat /\ k \in Nat /\ b < MaxSessions /\ a = k - 1
            /\ k > MaxSessions
        BY <1>13, <3>2, <3>3, <3>4
      <3> HIDE DEF a, b, k
      <3> QED
        BY <1>6, <3>5
    <2> QED
      BY <2>1, <2>2, <2>3
  <1> QED
    BY <1>7, <1>9, <1>10, <1>11, <1>12, <1>13 DEF Admitted

LEMMA AdmitStep == TypeInv /\ InOrder /\ Admitted /\ [Next]_vars => Admitted'
  <1> SUFFICES ASSUME TypeInv, InOrder, Admitted, [Next]_vars PROVE Admitted'
    OBVIOUS
  <1>1. ASSUME NEW s \in Sessions, NEW o \in Owners, Check(s, o) PROVE Admitted'
    BY <1>1, AdmitCheck
  <1>2. ASSUME NEW s \in Sessions, Replace(s) PROVE Admitted'
    <2>1. /\ \A t \in Sessions \ {s} : start'[t] = start[t]
          /\ start[s].pc = "replace" /\ start'[s].old = start[s].old
          /\ start'[s].owner = start[s].owner
          /\ start'[s].pc = "done" \/ (start'[s].pc = "create" /\ ~ start[s].full)
          /\ UNCHANGED <<row, overlaps>>
      BY <1>2 DEF Replace, TypeInv, IsStart
    <2> QED
      BY <2>1, AdmitStays DEF Starting, LetIn
  <1>3. ASSUME NEW s \in Sessions, Create(s) PROVE Admitted'
    <2>1. /\ \A t \in Sessions \ {s} : start'[t] = start[t]
          /\ start[s].pc = "create" /\ start'[s].pc = "commit" /\ start'[s].old = start[s].old
          /\ start'[s].owner = start[s].owner
          /\ UNCHANGED <<row, overlaps>>
      BY <1>3 DEF Create, TypeInv, IsStart, history
    <2> QED
      BY <2>1, AdmitStays DEF Starting, LetIn
  <1>4. ASSUME NEW s \in Sessions, CommitStart(s) PROVE Admitted'
    <2> DEFINE r == [NoRow EXCEPT !.owner = start[s].owner,
                                  !.status = IF start[s].ok THEN "running" ELSE "error"]
    <2>1. /\ r.owner = start[s].owner /\ r.status = IF start[s].ok THEN "running" ELSE "error"
          /\ start[s].old \in SUBSET Sessions
      BY DEF NoRow, TypeInv, IsStart
    <2>2. /\ start[s].pc = "commit" /\ overlaps' = overlaps
          /\ start' = [start EXCEPT ![s] = [NoStart EXCEPT !.pc = "done"]]
          /\ row' = row \/ row' = [Stopped(start[s].old) EXCEPT ![s] = r]
      BY <1>4 DEF CommitStart
    <2> HIDE DEF r
    <2>3. /\ \A t \in Sessions \ {s} : start'[t] = start[t]
          /\ start'[s].pc = "done"
      BY <2>2 DEF TypeInv, NoStart
    <2>4. CASE row' = row
      BY <2>2, <2>3, <2>4, AdmitStays DEF Starting, LetIn
    <2>5. CASE row' = [Stopped(start[s].old) EXCEPT ![s] = r] /\ ~ start[s].ok
      <3>1. \A t \in Sessions : row'[t].status = "running" =>
              row[t].status = "running" /\ row'[t].owner = row[t].owner
        BY <2>1, <2>5, StoppedRows
      <3> QED
        BY <2>2, <2>3, <3>1, AdmitStays DEF Starting, LetIn
    <2>6. CASE row' = [Stopped(start[s].old) EXCEPT ![s] = r] /\ start[s].ok
      BY <2>1, <2>2, <2>6, AdmitRun
    <2> QED
      BY <2>2, <2>4, <2>5, <2>6
  <1>5. ASSUME NEW s \in Sessions, BeginStop(s) PROVE Admitted'
    BY <1>5, AdmitStays DEF BeginStop, history, Starting, LetIn
  <1>6. ASSUME NEW s \in Sessions, EndStop(s) PROVE Admitted'
    <2>1. \A t \in Sessions : /\ row'[t].status \in {row[t].status, "stopped"}
                              /\ row'[t].owner = row[t].owner
      BY <1>6, StoppedRows DEF EndStop
    <2> QED
      BY <1>6, <2>1, AdmitStays DEF EndStop, history, Starting, LetIn
  <1>7. ASSUME ReapNone PROVE Admitted'
    BY <1>7, AdmitStays DEF ReapNone, history, Starting, LetIn
  <1>8. ASSUME ReapRead PROVE Admitted'
    BY <1>8, AdmitStays DEF ReapRead, history, Starting, LetIn
  <1>9. ASSUME Reap PROVE Admitted'
    <2>1. \A t \in Sessions : /\ row'[t].status \in {row[t].status, "stopped"}
                              /\ row'[t].owner = row[t].owner
      BY <1>9, StoppedRows DEF Reap, TypeInv
    <2> QED
      BY <1>9, <2>1, AdmitStays DEF Reap, history, Starting, LetIn
  <1>10. ASSUME ListRunning PROVE Admitted'
    BY <1>10, AdmitStays DEF ListRunning, history, Starting, LetIn
  <1>11. ASSUME NEW s \in Sessions, Poll(s) PROVE Admitted'
    <2>1. \/ row' = row
          \/ \E n, l : row' = [row EXCEPT ![s].seq = n, ![s].linked = l]
      BY <1>11 DEF Poll
    <2>2. ASSUME NEW n, NEW l, row' = [row EXCEPT ![s].seq = n, ![s].linked = l]
          PROVE  \A t \in Sessions : row'[t].status = row[t].status /\ row'[t].owner = row[t].owner
      BY <2>2 DEF TypeInv, IsRow
    <2>3. UNCHANGED <<start, overlaps>>
      BY <1>11 DEF Poll, history
    <2> QED
      BY <2>1, <2>2, <2>3, AdmitStays DEF Starting, LetIn
  <1>12. ASSUME Forget PROVE Admitted'
    BY <1>12, AdmitStays DEF Forget, history, Starting, LetIn
  <1>13. ASSUME NEW p \in Ptys, NEW s \in Sessions, OpenTerminal(p, s) PROVE Admitted'
    BY <1>13, AdmitStays DEF OpenTerminal, history, Starting, LetIn
  <1>14. ASSUME NEW p \in Ptys, Close(p) PROVE Admitted'
    BY <1>14, AdmitStays DEF Close, history, Starting, LetIn
  <1>15. ASSUME NEW p \in Ptys, Type(p) PROVE Admitted'
    BY <1>15, AdmitStays DEF Type, history, Starting, LetIn
  <1>16. ASSUME NEW p \in Ptys, RecordCommand(p) PROVE Admitted'
    <2>1. PICK q : \/ row' = row
                   \/ \E n, l : row' = [row EXCEPT ![q].seq = n,
                                                   ![q].commands = row[q].commands + 1,
                                                   ![q].linked = l]
      BY <1>16, RecordedIs
    <2>2. ASSUME NEW n, NEW l,
                 row' = [row EXCEPT ![q].seq = n, ![q].commands = row[q].commands + 1,
                                    ![q].linked = l]
          PROVE  \A t \in Sessions : row'[t].status = row[t].status /\ row'[t].owner = row[t].owner
      BY <2>2 DEF TypeInv, IsRow
    <2>3. UNCHANGED <<start, overlaps>>
      BY <1>16 DEF RecordCommand, history
    <2> QED
      BY <2>1, <2>2, <2>3, AdmitStays DEF Starting, LetIn
  <1>17. ASSUME NEW s \in Sessions, Link(s) PROVE Admitted'
    <2>1. \A t \in Sessions : /\ row'[t].status \in {row[t].status, "stopped"}
                              /\ row'[t].owner = row[t].owner
      BY <1>17 DEF Link, TypeInv, IsRow
    <2> QED
      BY <1>17, <2>1, AdmitStays DEF Link, history, Starting, LetIn
  <1>18. ASSUME NEW s \in Sessions, NEW a \in Peers, Connect(s, a) PROVE Admitted'
    BY <1>18, AdmitStays DEF Connect, history, Starting, LetIn
  <1>19. ASSUME NEW s \in Sessions, ComeUp(s) PROVE Admitted'
    BY <1>19, AdmitStays DEF ComeUp, history, Starting, LetIn
  <1>20. ASSUME NEW s \in Sessions, Overstay(s) PROVE Admitted'
    BY <1>20, AdmitStays DEF Overstay, history, Starting, LetIn
  <1>21. ASSUME Crash PROVE Admitted'
    <2>1. /\ \A t \in Sessions : start'[t].pc = "done" \/ (start'[t] = start[t] /\ t \notin Starting)
          /\ UNCHANGED <<row, overlaps>>
      BY <1>21 DEF Crash, NoStart
    <2> QED
      BY <2>1, AdmitStays DEF Starting, LetIn
  <1>22. CASE UNCHANGED vars
    BY <1>22, AdmitStays DEF vars, history, Starting, LetIn
  <1> QED
    BY <1>1, <1>2, <1>3, <1>4, <1>5, <1>6, <1>7, <1>8, <1>9, <1>10, <1>11, <1>12, <1>13,
       <1>14, <1>15, <1>16, <1>17, <1>18, <1>19, <1>20, <1>21, <1>22 DEF Next,
       StartSession, ReaperStep

-----------------------------------------------------------------------------
(* The theorems.                                                           *)

LEMMA ShellHolds == Spec => []ShellInv
  <1>1. Init => ShellInv
    BY TypeInit, OrderInit, CountInit, LeakInit, AdmitInit DEF ShellInv
  <1>2. ShellInv /\ [Next]_vars => ShellInv'
    BY TypeStep, OrderStep, CountStep, LeakStep, AdmitStep DEF ShellInv
  <1> QED
    BY <1>1, <1>2, PTL DEF Spec

(* A session's command count is that of its recorded commands, however     *)
(* terminals, polls, stops and reaps of the session overlap, and whatever  *)
(* fails.                                                                  *)
THEOREM CountsAreRight == Spec => []CommandsCounted
  <1>1. ShellInv => CommandsCounted
    BY DEF ShellInv, Counted
  <1> QED
    BY <1>1, ShellHolds, PTL

(* A container without a running session is being started, came up too     *)
(* late, or was left by a failed removal or commit or by a crash.          *)
THEOREM LeaksAreKnown == Spec => []OnlyKnownLeaks
  <1>1. ShellInv => OnlyKnownLeaks
    BY DEF ShellInv, LeakInv
  <1> QED
    BY <1>1, ShellHolds, PTL

(* An analyst has one session, and no more than MAX_SESSIONS run, unless   *)
(* the starts of two that run were under way together.                     *)
THEOREM LimitsHold == Spec => []LimitsHoldInTurn
  <1>1. ShellInv => LimitsHoldInTurn
    BY DEF ShellInv, Admitted, LimitsHoldInTurn
  <1> QED
    BY <1>1, ShellHolds, PTL
=============================================================================
