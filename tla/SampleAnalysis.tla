--------------------------- MODULE SampleAnalysis ---------------------------
(***************************************************************************)
(* The malware pipeline (endpoints/malware.py, sandbox_engine.py,          *)
(* yara_scanner.py, av_scanner.py) and the evidence filed with incidents   *)
(* (services/evidence_service.py, endpoints/evidence.py).                  *)
(*                                                                         *)
(* Reports and histories are JSON files that are read and written whole.   *)
(* The pipeline and its writes hold the event loop, so nothing but the end *)
(* of the process falls between them; a file whose write it cuts reads as  *)
(* empty.  The run of the pipeline tells one report of a sample from       *)
(* another (analyzed_at, from_cache); reports and list entries are in the  *)
(* order of their runs.                                                    *)
(***************************************************************************)
EXTENDS Naturals, FiniteSets

CONSTANTS
  Samples,    \* SHA-256 hashes of what is uploaded
  Papers,     \* texts and files analysts attach
  Long,       \* the papers that are texts of more than 8000 characters
  TextPapers, \* the papers that are texts
  Cases,      \* findings that uploads may meet
  ReportCap,  \* reports kept
  HistoryCap, \* MAX_HISTORY
  MaxRuns,    \* bound on the runs of the pipeline
  MaxCrashes  \* bound on the ends of the process

ASSUME SampleAssumption == ReportCap \in Nat \ {0} /\ HistoryCap \in Nat \ {0}

VARIABLES
  quarantine, \* samples in the quarantine directory
  reports,    \* full_reports.json
  listed,     \* malware_analysis_history.json
  scans,      \* apk_analysis_history.json
  upload,     \* the upload in the pipeline
  disk,       \* attachments in the evidence directory
  evidence,   \* committed rows of Evidence
  filing,     \* evidence that the transactions of Filers are about to file
  runs,       \* runs so far
  crashes,    \* crashes so far
  torn,       \* history: files cut by a crash
  evicted,    \* history: samples whose report was pushed out
  unlisted    \* history: samples whose upload ended between report and listing

sampleFiles == <<quarantine, reports, listed, scans>>
filed == <<disk, evidence, filing>>
past == <<torn, evicted, unlisted>>
sampleVars == <<sampleFiles, upload, filed, runs, crashes, past>>

Filers == {"cycle", "analyst"}

Greatest(S) == CHOOSE n \in S : \A m \in S : m <= n

-----------------------------------------------------------------------------
(* What the engines find.                                                  *)

(* What CAPE, the APK engine and the secrets add to the score, together.   *)
(* CAPE may be out of reach, and is not asked twice for the same hash.     *)
Rest == {0, 30, 55, 80}

(* An archive that none of the known passwords opens.                      *)
Sealed == BOOLEAN

(* clamd: found, clean or no answer.  VirusTotal: engines that call it     *)
(* malicious or suspicious, if the hash is known.  rules: the worst        *)
(* severity of YARA's matches.                                             *)
Findings ==
  [clam : {"found", "clean", "none"}, known : BOOLEAN, malicious : Nat, suspicious : Nat,
   rules : {"NONE", "MEDIUM", "HIGH", "CRITICAL"}, rest : Rest, locked : Sealed]

Malicious(f) == IF f.known THEN f.malicious ELSE 0
Flagged(f) == IF f.known THEN f.malicious + f.suspicious ELSE 0

Verdict(f) ==
  LET scanned == IF f.clam = "found" \/ Malicious(f) >= 3 THEN "MALICIOUS"
                 ELSE IF Flagged(f) > 0 THEN "SUSPICIOUS"
                 ELSE IF f.clam = "clean" \/ f.known THEN "CLEAN" ELSE "UNKNOWN"
  IN  IF f.locked /\ scanned \in {"CLEAN", "UNKNOWN"} THEN "SUSPICIOUS" ELSE scanned

VendorScore(f) ==
  Greatest({0} \cup {s.score : s \in {t \in {[least |-> 10, score |-> 90],
                                             [least |-> 3, score |-> 75]} : Malicious(f) >= t.least}}
               \cup (IF Flagged(f) > 0 THEN {45} ELSE {}))

RuleScore(f) == [NONE |-> 0, MEDIUM |-> 45, HIGH |-> 70, CRITICAL |-> 90][f.rules]

SampleScore(f) == Greatest({f.rest, RuleScore(f), VendorScore(f),
                      IF f.clam = "found" THEN 95 ELSE 0, IF f.locked THEN 50 ELSE 0})

RiskLevel(n) == IF n >= 80 THEN "CRITICAL" ELSE IF n >= 55 THEN "HIGH"
                ELSE IF n >= 30 THEN "MEDIUM" ELSE "LOW"

-----------------------------------------------------------------------------
(* The files.                                                              *)

ReportOf(s) == {r \in reports : r.sample = s}

(* A dict and a list keep the order in which their entries came, which is  *)
(* that of their runs; one more than the cap, and the oldest goes.         *)
Oldest(S) == {x \in S : \A y \in S : x.run <= y.run}
Trimmed(S, cap) == IF Cardinality(S) > cap THEN S \ Oldest(S) ELSE S

Others(S, s) == {x \in S : x.sample # s}

(* Faulty: a full history keeps what it has.                               *)
append_history_while_room(h, x) ==
  IF Cardinality(h) < HistoryCap THEN Others(h, x.sample) \cup {x} ELSE h

(* An entry replaces its sample's older one.                               *)
append_history(h, x) == Trimmed(Others(h, x.sample) \cup {x}, HistoryCap)

PipelineIdle == upload.phase = "none"
NoUpload == [phase |-> "none"]

-----------------------------------------------------------------------------
(* Uploads.                                                                *)

(* Faulty: a sample that has a report is analysed again.                   *)
UploadAgain(s) ==
  /\ PipelineIdle /\ runs < MaxRuns /\ runs' = runs + 1
  /\ quarantine' = quarantine \cup {s}
  /\ upload' = [phase |-> "pipeline", sample |-> s]
  /\ UNCHANGED <<reports, listed, scans, filed, crashes, past>>

(* The sample is moved to the quarantine under its hash; one that has a    *)
(* report is not analysed again.  One that is too large, empty or of a     *)
(* type that is not allowed leaves nothing.                                *)
UploadSample(s) ==
  /\ PipelineIdle
  /\ quarantine' = quarantine \cup {s}
  /\ IF ReportOf(s) # {} THEN UNCHANGED <<upload, runs>>
     ELSE /\ runs < MaxRuns /\ runs' = runs + 1
          /\ upload' = [phase |-> "pipeline", sample |-> s]
  /\ UNCHANGED <<reports, listed, scans, filed, crashes, past>>

Assessments ==
  {[verdict |-> Verdict(f), risk |-> RiskLevel(SampleScore(f))] : f \in Cases \cap Findings}

(* _store_full_report                                                      *)
Store ==
  LET s == upload.sample
      all == Others(reports, s) \cup {[sample |-> s, run |-> runs]}
  IN  /\ upload.phase = "pipeline"
      /\ \E a \in Assessments :
           upload' = [phase |-> "stored", sample |-> s, verdict |-> a.verdict, risk |-> a.risk]
      /\ reports' = Trimmed(all, ReportCap)
      /\ evicted' = evicted \cup {r.sample : r \in all \ Trimmed(all, ReportCap)}
      /\ UNCHANGED <<quarantine, listed, scans, filed, runs, crashes, torn, unlisted>>

ListSample ==
  /\ upload.phase = "stored"
  /\ listed' = append_history(listed, [sample |-> upload.sample, run |-> runs])
  /\ upload' = NoUpload
  /\ UNCHANGED <<quarantine, reports, scans, filed, runs, crashes, past>>

(* analyze_apk: the sample is kept, and listed when MobSF scanned it; which *)
(* of the older ones a full list drops is left open.                       *)
ScanApk(s) ==
  /\ PipelineIdle
  /\ quarantine' = quarantine \cup {s}
  /\ \/ UNCHANGED scans
     \/ \E all \in SUBSET (scans \cup {s}) :
          /\ s \in all
          /\ all = scans \cup {s} \/ Cardinality(all) = HistoryCap
          /\ Cardinality(all) <= HistoryCap
          /\ scans' = all
  /\ UNCHANGED <<reports, listed, upload, filed, runs, crashes, past>>

-----------------------------------------------------------------------------
(* Evidence.                                                               *)

(* A detection cycle reads the report of a hash it met, then asks for each *)
(* item whether the incident has it.                                       *)
BeginFiling(s) ==
  /\ PipelineIdle /\ filing["cycle"] = {} /\ ReportOf(s) # {}
  /\ filing' = [filing EXCEPT !["cycle"] = {[kind |-> kind, of |-> s, hash |-> r.run] :
                  kind \in {"sample", "section"}, r \in ReportOf(s)}]
  /\ UNCHANGED <<sampleFiles, upload, disk, evidence, runs, crashes, past>>

(* add_evidence: an attachment is written to the disk before its row is    *)
(* committed; of a text the first 8000 characters are kept, and the hash   *)
(* is that of all of it.                                                   *)
BeginPaper(p) ==
  /\ PipelineIdle /\ filing["analyst"] = {} /\ \A e \in evidence : e.of # p
  /\ disk' = IF p \in TextPapers THEN disk ELSE disk \cup {p}
  /\ filing' = [filing EXCEPT !["analyst"] =
                  {[kind |-> IF p \in TextPapers THEN "text" ELSE "attachment", of |-> p, hash |-> 0]}]
  /\ UNCHANGED <<sampleFiles, upload, evidence, runs, crashes, past>>

HasEvidence(item) == \E e \in evidence : e.kind = item.kind /\ e.of = item.of

CommitEvidence(f) ==
  /\ PipelineIdle /\ filing[f] # {}
  /\ evidence' = evidence \cup {item \in filing[f] : ~ HasEvidence(item)}
  /\ filing' = [filing EXCEPT ![f] = {}]
  /\ UNCHANGED <<sampleFiles, upload, disk, runs, crashes, past>>

Abort(f) ==
  /\ PipelineIdle /\ filing[f] # {}
  /\ filing' = [filing EXCEPT ![f] = {}]
  /\ UNCHANGED <<sampleFiles, upload, disk, evidence, runs, crashes, past>>

(* verify_evidence; of the sample's own item nothing is recomputed, and it *)
(* can be downloaded while the sample is in the quarantine.                *)
Verified(e) ==
  CASE e.kind = "section" -> \E r \in ReportOf(e.of) : r.run = e.hash
    [] e.kind = "text" -> e.of \notin Long
    [] e.kind = "attachment" -> e.of \in disk
    [] e.kind = "sample" -> e.of \in quarantine

-----------------------------------------------------------------------------
(* The process ends; it may be writing the file its upload is at.          *)
EndProcess ==
  /\ crashes < MaxCrashes /\ crashes' = crashes + 1
  /\ ~ PipelineIdle \/ \E f \in Filers : filing[f] # {}
  /\ \E cut \in {"none"} \cup (CASE upload.phase = "pipeline" -> {"reports"}
                                 [] upload.phase = "stored" -> {"listed"}
                                 [] OTHER -> {}) :
       /\ reports' = IF cut = "reports" THEN {} ELSE reports
       /\ listed' = IF cut = "listed" THEN {} ELSE listed
       /\ torn' = torn \cup ({cut} \ {"none"})
  /\ unlisted' = IF upload.phase = "stored" THEN unlisted \cup {upload.sample} ELSE unlisted
  /\ upload' = NoUpload /\ filing' = [f \in Filers |-> {}]
  /\ UNCHANGED <<quarantine, scans, disk, evidence, runs, evicted>>

SampleInit ==
  /\ quarantine = {} /\ reports = {} /\ listed = {} /\ scans = {}
  /\ upload = NoUpload /\ disk = {} /\ evidence = {} /\ filing = [f \in Filers |-> {}]
  /\ runs = 0 /\ crashes = 0 /\ torn = {} /\ evicted = {} /\ unlisted = {}

SampleNext ==
  \/ \E s \in Samples : UploadSample(s) \/ ScanApk(s) \/ BeginFiling(s)
  \/ Store \/ ListSample
  \/ \E p \in Papers : BeginPaper(p)
  \/ \E f \in Filers : CommitEvidence(f) \/ Abort(f)
  \/ EndProcess

SampleSpec == SampleInit /\ [][SampleNext]_sampleVars

-----------------------------------------------------------------------------
(* Properties.                                                             *)

(* The list of analyses and the reports are two files.  A listed sample    *)
(* has its report, which is pushed out later than its listing, unless a    *)
(* crash cut the reports or as many uploads as the caps lie apart ended    *)
(* between the two writes; and a report is listed, unless newer ones       *)
(* pushed it out of a full list, a crash cut the list, or its own upload   *)
(* ended between the two writes.                                           *)
ListedAndStored ==
  /\ "reports" \notin torn /\ Cardinality(unlisted) < ReportCap - HistoryCap =>
       \A x \in listed : ReportOf(x.sample) # {}
  /\ \A r \in reports :
       \/ \E x \in listed : x.sample = r.sample
       \/ Cardinality(listed) = HistoryCap /\ \E q \in reports : q.run > r.run
       \/ "listed" \in torn
       \/ r.sample \in unlisted
       \/ upload.phase = "stored" /\ upload.sample = r.sample

(* Verdict and risk are computed apart, from the same findings; no sample  *)
(* called malicious is rated below HIGH, no suspicious one below MEDIUM.   *)
VerdictAndRisk ==
  upload.phase = "stored" =>
    /\ upload.verdict = "MALICIOUS" => upload.risk \in {"HIGH", "CRITICAL"}
    /\ upload.verdict = "SUSPICIOUS" => upload.risk # "LOW"

(* What the upload of a sample answers and leaves fits together.           *)
AnalysesHold == ListedAndStored /\ VerdictAndRisk

(* Evidence filed with an incident verifies, and a filed sample can be     *)
(* downloaded; only a text longer than what is kept never does, and the    *)
(* sections of a report that was cut by a crash or pushed out.             *)
EvidenceVerifies ==
  \A e \in evidence :
    \/ Verified(e)
    \/ e.kind = "text" /\ e.of \in Long
    \/ e.kind = "section" /\ ("reports" \in torn \/ e.of \in evicted)

=============================================================================
