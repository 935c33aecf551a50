----------------------------- MODULE MCServices -----------------------------
(***************************************************************************)
(* The modules of the platform's services that share nothing with each     *)
(* other, for TLC: a behaviour is one of one service, chosen at the start, *)
(* so that a run checks them all.                                          *)
(*                                                                         *)
(* AnalysisShell has other values here than in its own runs: two analysts  *)
(* at the limit of sessions, and no terminals.                             *)
(***************************************************************************)
EXTENDS Accounts, IncidentDesk, SessionIntake, AnalysisShell, PlatformReset, S3Pipeline,
  SampleAnalysis, DetectionValidation, CloudLabs, MobileScans, Normalizer, RuleBook,
  SensorMonitor, TLC

VARIABLE
  service    \* the one that runs

-----------------------------------------------------------------------------
(* Findings for every verdict and for each level of risk.                  *)
Finding(clam, malicious, worst, rest, locked) ==
  [clam |-> clam, known |-> malicious > 0, malicious |-> malicious, suspicious |-> 0,
   rules |-> worst, rest |-> rest, locked |-> locked]

SampleCases ==
  {Finding("found", 0, "NONE", 0, FALSE), Finding("none", 3, "HIGH", 0, FALSE),
   Finding("none", 1, "NONE", 0, FALSE), Finding("clean", 0, "NONE", 0, TRUE),
   Finding("clean", 0, "CRITICAL", 55, FALSE), Finding("none", 0, "MEDIUM", 30, FALSE)}

(* One report with a finding of each severity, and one with ten critical.  *)
SeverityWords == {"CRITICAL", "MEDIUM", "warning"}

ScanReports ==
  {[w \in SeverityWords |-> 1], [w \in SeverityWords |-> IF w = "CRITICAL" THEN 10 ELSE 0]}

(* Lines as the sensors write them: what each parser knows, with fields    *)
(* missing, spelt otherwise, or holding a placeholder.                     *)
SensorLines == {
  [eventid |-> "cowrie.login.success", src_ip |-> "198.51.100.7", timestamp |-> "t"],
  [eventid |-> "cowrie.session.file_download", src_ip |-> "198.51.100.7", dst_port |-> "x"],
  [eventid |-> "cowrie.command.input", srcIP |-> "198.51.100.7", input |-> "id",
   timestamp |-> "junk"],
  ("sensor" :> "dionaea") @@ ("src_ip" :> "0.0.0.0") @@ ("[remote]" :> "198.51.100.7")
    @@ ("[port]" :> "445"),
  ("connection.type" :> "accept") @@ ("src_ip" :> "0.0.0.0") @@ ("remote.host" :> "198.51.100.7"),
  ("connection.type" :> "accept") @@ ("remote.host" :> "127.0.0.1"),
  ("source-ip" :> "198.51.100.7") @@ ("category" :> "http") @@ ("type" :> "request"),
  ("source-ip" :> "198.51.100.7") @@ ("category" :> "heartbeat"),
  [srcIP |-> "198.51.100.7", type |-> "probe"],
  [attacker |-> "198.51.100.7", type |-> "probe", timestamp |-> "junk"]}

WordsOfTypes ==
  [t \in {"accept", "http", "request", "probe", "event"} |-> {}]
    @@ ("cowrie.login.success" :> {"cowrie", "login.success", "login"})
    @@ ("cowrie.session.file_download" :> {"cowrie", "file_download", "session"})
    @@ ("cowrie.command.input" :> {"cowrie"})
    @@ ("cowrie.session.connect" :> {"cowrie", "session", "connect"})
    @@ ("dionaea" :> {"dionaea"})
    @@ ("dionaea.connection" :> {"dionaea", "connection", "connect"})
    @@ ("dionaea.connection.accept" :> {"dionaea", "connection", "connect"})
    @@ ("honeytrap.http.request" :> {"honeytrap"})
    @@ ("heartbeat" :> {"heartbeat"})

-----------------------------------------------------------------------------
ServicesInit ==
  /\ service \in {"accounts", "desk", "intake", "reset", "s3", "samples", "validation",
                "clouds", "mobsf", "normalizer", "rules", "monitor", "shell"}
  /\ AccountsInit
  /\ DeskInit
  /\ IntakeInit
  /\ ResetInit
  /\ S3Init
  /\ SampleInit
  /\ ValidationInit
  /\ CloudInit
  /\ MobsfInit
  /\ NormalizerInit
  /\ RuleInit
  /\ MonitorInit
  /\ Init
  /\ service # "accounts" => DOMAIN users = {Root} /\ tokens = [l \in {} |-> NoLink]
  /\ service # "desk" => stored = {}
  /\ service # "monitor" => container["COWRIE"] = Absent

(* The others do nothing.                                                  *)
Only(s) ==
  /\ service = s /\ UNCHANGED service
  /\ s # "accounts" => UNCHANGED accountsVars
  /\ s # "desk" => UNCHANGED deskVars
  /\ s # "intake" => UNCHANGED intakeVars
  /\ s # "reset" => UNCHANGED resetVars
  /\ s # "s3" => UNCHANGED s3Vars
  /\ s # "samples" => UNCHANGED sampleVars
  /\ s # "validation" => UNCHANGED validationVars
  /\ s # "clouds" => UNCHANGED cloudVars
  /\ s # "mobsf" => UNCHANGED mobsfVars
  /\ s # "normalizer" => UNCHANGED normalizerVars
  /\ s # "rules" => UNCHANGED ruleVars
  /\ s # "monitor" => UNCHANGED monitorVars
  /\ s # "shell" => UNCHANGED vars

AccountsStep == Only("accounts") /\ AccountsNext

DeskStep == Only("desk") /\ DeskNext

IntakeStep == Only("intake") /\ IntakeNext

ResetStep == Only("reset") /\ ResetNext

S3Step == Only("s3") /\ S3Next

SampleStep == Only("samples") /\ SampleNext

ValidationStep == Only("validation") /\ ValidationNext

CloudStep == Only("clouds") /\ CloudNext

MobsfStep == Only("mobsf") /\ MobsfNext

NormalizerStep == Only("normalizer") /\ NormalizerNext

RuleStep == Only("rules") /\ RuleNext

MonitorStep == Only("monitor") /\ MonitorNext

ShellStep == Only("shell") /\ Next

ServicesNext ==
  \/ AccountsStep \/ DeskStep \/ IntakeStep \/ ResetStep
  \/ S3Step \/ SampleStep \/ ValidationStep \/ CloudStep
  \/ MobsfStep \/ NormalizerStep \/ RuleStep \/ MonitorStep
  \/ ShellStep

ServicesSpec ==
  ServicesInit
  /\ [][ServicesNext]_<<service, accountsVars, deskVars, intakeVars, resetVars,
                        s3Vars, sampleVars, validationVars, cloudVars, mobsfVars,
                        normalizerVars, ruleVars, monitorVars, vars>>
=============================================================================
