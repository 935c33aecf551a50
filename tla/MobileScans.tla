---------------------------- MODULE MobileScans -----------------------------
(***************************************************************************)
(* The MobSF service (backend/mobsf_service): a threaded Flask application *)
(* that starts the MobSF container when a request first needs it, passes   *)
(* uploads and scans on to it, and keeps the reports in SQLite.            *)
(*                                                                         *)
(* Two requests may start the container at once; anybody may stop or       *)
(* remove it, and what was uploaded to it goes with it.                    *)
(***************************************************************************)
EXTENDS Naturals, Folds

CONSTANTS
  Apps,             \* scan hashes
  MobsfRequests,    \* requests served at a time
  MobsfPorts,       \* MOBSF_PORT_RANGE_START..END: consecutive numbers
  Severities,       \* the severity words MobSF gives its findings
  Reports,          \* what a scan may find: a count for every severity word
  MaxTroubles       \* bound on restarts, removals and lost answers

VARIABLES
  engine,      \* the container: its state and port, the apps it knows, what it found in them
  url,         \* _STATE: where the container was last found
  saved,       \* the table: uploaded, and the saved report with its score
  request,     \* the requests being served
  leftovers,   \* temporary files of UPLOAD_DIR that nothing will remove
  troubles,
  scanned      \* history: what engines found, in any container

mobsfVars == <<engine, url, saved, request, leftovers, troubles, scanned>>

NoReport == [x \in {} |-> 0]
Unasked == [what |-> "none", app |-> "none", at |-> "idle", door |-> 0, got |-> NoReport]
NoUrl == 0
NoEngine == [state |-> "absent", port |-> 0, known |-> {}, found |-> [a \in Apps |-> NoReport]]
NotScanned == [uploaded |-> FALSE, report |-> NoReport, score |-> 0]

(* flatten_findings: words other than these three count by what they       *)
(* contain, so MobSF's "warning" and "info" are LOW.                       *)
Level(word) == CASE word \in {"HIGH", "CRITICAL"} -> "HIGH"
                 [] word = "MEDIUM"               -> "MEDIUM"
                 [] OTHER                         -> "LOW"

Weight(level) == CASE level = "HIGH" -> 10 [] level = "MEDIUM" -> 5 [] level = "LOW" -> 2

(* calculate_score                                                         *)
MobsfScore(report) ==
  LET points == MapThenFoldSet(+, 0, LAMBDA w : Weight(Level(w)) * report[w],
                               LAMBDA S : CHOOSE w \in S : TRUE, DOMAIN report)
  IN  IF points > 100 THEN 100 ELSE points

(* find_free_port: the first that nothing listens on.                      *)
FreePort == CHOOSE p \in MobsfPorts :
              /\ ~(engine.state = "running" /\ engine.port = p)
              /\ \A q \in MobsfPorts : q < p => engine.state = "running" /\ engine.port = q

EngineAnswers(door) == engine.state = "running" /\ engine.port = door

GoTo(q, step) == request' = [request EXCEPT ![q].at = step]
Answered(q) == request' = [request EXCEPT ![q] = Unasked]
Trouble == troubles < MaxTroubles /\ troubles' = troubles + 1

-----------------------------------------------------------------------------
(* ensure_mobsf_running, called by mobsf_post and /status.                 *)

(* /upload-apk saves a temporary file first; /start-scan and /report need  *)
(* the context of an upload.  The cached address is used unchecked.        *)
Ask(q, what, a) ==
  /\ request[q] = Unasked
  /\ what \in {"scan", "report"} => saved[a].uploaded
  /\ request' = [request EXCEPT ![q] = [what |-> what, app |-> a, door |-> url,
                                        at |-> IF url # NoUrl THEN "post" ELSE "look",
                                        got |-> NoReport]]
  /\ UNCHANGED <<engine, url, saved, leftovers, troubles, scanned>>

(* container_exists                                                        *)
Look(q) ==
  /\ request[q].at = "look"
  /\ GoTo(q, IF engine.state = "absent" THEN "run" ELSE "start")
  /\ UNCHANGED <<engine, url, saved, leftovers, troubles, scanned>>

(* An upload that raises leaves its temporary file.                        *)
FailRequest(q) ==
  /\ leftovers' = IF request[q].what = "upload" THEN leftovers \cup {request[q].app}
                                                ELSE leftovers
  /\ Answered(q)

(* docker start, when it is not running, and docker port.                  *)
StartEngine(q) ==
  /\ request[q].at = "start"
  /\ IF engine.state = "absent"
     THEN FailRequest(q) /\ UNCHANGED engine
     ELSE /\ engine' = [engine EXCEPT !.state = "running"]
          /\ request' = [request EXCEPT ![q].at = "wait", ![q].door = engine.port]
          /\ UNCHANGED leftovers
  /\ UNCHANGED <<url, saved, troubles, scanned>>

(* docker pull and docker run --name, which fails when another request     *)
(* created the container meanwhile.                                        *)
Run(q) ==
  /\ request[q].at = "run"
  /\ IF engine.state # "absent"
     THEN FailRequest(q) /\ UNCHANGED engine
     ELSE /\ engine' = [NoEngine EXCEPT !.state = "running", !.port = FreePort]
          /\ request' = [request EXCEPT ![q].at = "wait", ![q].door = FreePort]
          /\ UNCHANGED leftovers
  /\ UNCHANGED <<url, saved, troubles, scanned>>

(* wait_for_mobsf, and the address is cached for good.                     *)
AwaitEngine(q) ==
  /\ request[q].at = "wait"
  /\ \/ /\ EngineAnswers(request[q].door)
        /\ url' = request[q].door
        /\ GoTo(q, "post")
        /\ UNCHANGED <<leftovers, troubles>>
     \/ /\ Trouble
        /\ FailRequest(q)
        /\ UNCHANGED url
  /\ UNCHANGED <<engine, saved, scanned>>

-----------------------------------------------------------------------------
(* The three calls to the engine, and what follows them.                   *)

(* POST /api/v1/upload                                                     *)
PostUpload(q) ==
  LET a == request[q].app IN
  /\ engine' = [engine EXCEPT !.known = @ \cup {a}]
  /\ GoTo(q, "save")
  /\ UNCHANGED <<scanned>>

(* POST /api/v1/scan: refused for what was not uploaded to this container. *)
PostScan(q) ==
  LET a == request[q].app IN
  \/ /\ a \notin engine.known
     /\ Answered(q)
     /\ UNCHANGED <<engine, scanned>>
  \/ /\ a \in engine.known
     /\ \E r \in Reports :
          /\ engine' = [engine EXCEPT !.found[a] = r]
          /\ scanned' = scanned \cup {<<a, r>>}
     /\ Answered(q)

(* Faulty: the answer for a report that is not there passes for an empty   *)
(* one.                                                                    *)
PostReportEmpty(q) ==
  LET found == engine.found[request[q].app] IN
  /\ request' = [request EXCEPT ![q].at = "save",
                                ![q].got = IF found = NoReport THEN [w \in Severities |-> 0]
                                           ELSE found]
  /\ UNCHANGED <<engine, scanned>>

(* POST /api/v1/report_json: 202 for a report that is not there.           *)
PostReport(q) ==
  LET a == request[q].app IN
  /\ IF engine.found[a] = NoReport
     THEN Answered(q)
     ELSE request' = [request EXCEPT ![q].at = "save", ![q].got = engine.found[a]]
  /\ UNCHANGED <<engine, scanned>>

(* mobsf_post: no engine at the address is an error, and an answer may     *)
(* come after the time-out.                                                *)
Post(q) ==
  /\ request[q].at = "post"
  /\ IF EngineAnswers(request[q].door)
     THEN /\ \/ request[q].what = "status" /\ Answered(q) /\ UNCHANGED <<engine, scanned>>
             \/ request[q].what = "upload" /\ PostUpload(q)
             \/ request[q].what = "scan" /\ PostScan(q)
             \/ request[q].what = "report" /\ PostReport(q)
          /\ UNCHANGED leftovers
     ELSE FailRequest(q) /\ UNCHANGED <<engine, scanned>>
  /\ UNCHANGED <<url, saved, troubles>>

AnswerLost(q) ==
  /\ request[q].at = "post"
  /\ EngineAnswers(request[q].door)
  /\ Trouble
  /\ FailRequest(q)
  /\ \/ request[q].what = "upload" /\ engine' = [engine EXCEPT !.known = @ \cup {request[q].app}]
        /\ UNCHANGED scanned
     \/ /\ request[q].what = "scan"
        /\ request[q].app \in engine.known
        /\ \E r \in Reports :
             /\ engine' = [engine EXCEPT !.found[request[q].app] = r]
             /\ scanned' = scanned \cup {<<request[q].app, r>>}
  /\ UNCHANGED <<url, saved>>

(* An upload again keeps the report of the one before.                     *)
save_upload_context(a) == [saved EXCEPT ![a].uploaded = TRUE]

save_report(a, r) == [saved EXCEPT ![a].report = r, ![a].score = MobsfScore(r)]

Save(q) ==
  /\ request[q].at = "save"
  /\ saved' = IF request[q].what = "upload"
              THEN save_upload_context(request[q].app)
              ELSE save_report(request[q].app, request[q].got)
  /\ Answered(q)
  /\ UNCHANGED <<engine, url, leftovers, troubles, scanned>>

(* list_history                                                            *)
list_history == {a \in Apps : saved[a].report # NoReport}

-----------------------------------------------------------------------------
(* The container is stopped or removed, by hand or with its host.          *)
StopEngine ==
  /\ Trouble
  /\ engine.state = "running"
  /\ engine' = [engine EXCEPT !.state = "stopped"]
  /\ UNCHANGED <<url, saved, request, leftovers, scanned>>

RemoveEngine ==
  /\ Trouble
  /\ engine.state # "absent"
  /\ engine' = NoEngine
  /\ UNCHANGED <<url, saved, request, leftovers, scanned>>

(* The service restarts and finds its table; files in use stay behind.     *)
MobsfRestart ==
  /\ Trouble
  /\ url' = NoUrl
  /\ request' = [q \in MobsfRequests |-> Unasked]
  /\ leftovers' = leftovers \cup {request[q].app : q \in
                    {q \in MobsfRequests : request[q].what = "upload" /\ request[q].at # "save"}}
  /\ UNCHANGED <<engine, saved, scanned>>

MobsfInit ==
  /\ engine = NoEngine
  /\ url = NoUrl
  /\ saved = [a \in Apps |-> NotScanned]
  /\ request = [q \in MobsfRequests |-> Unasked]
  /\ leftovers = {}
  /\ troubles = 0
  /\ scanned = {}

Serve(q) ==
  \/ \E a \in Apps : \E what \in {"upload", "scan", "report", "status"} : Ask(q, what, a)
  \/ Look(q) \/ StartEngine(q) \/ Run(q) \/ AwaitEngine(q) \/ Post(q) \/ AnswerLost(q) \/ Save(q)

MobsfNext ==
  \/ \E q \in MobsfRequests : Serve(q)
  \/ StopEngine \/ RemoveEngine \/ MobsfRestart

MobsfSpec == MobsfInit /\ [][MobsfNext]_mobsfVars

-----------------------------------------------------------------------------
(* What the history shows of an app is what some scan of it found, and     *)
(* only another scan's findings ever take its place: not an upload of the  *)
(* same app again, nor a container that lost the app, nor an error answer  *)
(* of the engine read as an empty report.                                  *)
HistoryIsOfScans ==
  [][\A a \in Apps : saved'[a].report = saved[a].report \/ <<a, saved'[a].report>> \in scanned]_mobsfVars
=============================================================================
