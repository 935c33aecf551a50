------------------------------ MODULE RuleBook ------------------------------
(***************************************************************************)
(* The detection rules (services/detection_rules.py): a directory of YAML  *)
(* files, parsed when a detection cycle asks for the rules and kept until  *)
(* the newest time of a file changes.                                      *)
(*                                                                         *)
(* Files are written, removed and put back with the times they had while   *)
(* the engine runs, also while it reads them one after another; no two     *)
(* writes have the same time.                                              *)
(***************************************************************************)
EXTENDS Naturals

CONSTANTS
  RuleFiles, \* names of files
  MaxWrites  \* bound on writes: a file's time is the number of its write

VARIABLES
  files,    \* the directory: by name, the time and content of the file
  there,    \* whether the directory exists
  kept,     \* _CACHE: the newest time, and the rules
  inForce,  \* the rules of the last cycle
  loading,  \* the reading under way: its time, the files to read, the rules so far,
            \* and whether a file was removed or put back meanwhile
  writes,
  disturbed \* history: a file was removed or put back since the kept rules began to be read

ruleVars == <<files, there, kept, inForce, loading, writes, disturbed>>

(* What a file may hold: a rule of either type, with what its document     *)
(* leaves out; or something that is not a rule, or does not parse.         *)
Documents == {[rule |-> TRUE, type |-> "threshold", severity |-> "CRITICAL", threshold |-> 5],
              [rule |-> TRUE, type |-> "sequence", severity |-> "urgent", threshold |-> 0],
              [rule |-> FALSE, type |-> "none", severity |-> "none", threshold |-> 0]}

NoFile == [time |-> 0, doc |-> "none"]
Files == {f \in RuleFiles : files[f] # NoFile}

_VALID_SEVERITY == {"LOW", "MEDIUM", "HIGH", "CRITICAL"}

(* _parse_rule: a severity that is not one is MEDIUM; 1 event is enough    *)
(* where no threshold is given, and sequences do not use one.              *)
Parsed(f) ==
  LET doc == files[f].doc IN
  [id        |-> <<f, files[f].time>>,
   type      |-> doc.type,
   severity  |-> IF doc.severity \in _VALID_SEVERITY THEN doc.severity ELSE "MEDIUM",
   threshold |-> IF doc.threshold = 0 THEN 1 ELSE doc.threshold]

(* What reading the directory gives.                                       *)
Directory == {Parsed(f) : f \in {g \in Files : files[g].doc.rule}}

NewestTime ==
  IF Files = {} THEN 0
  ELSE CHOOSE t \in {files[f].time : f \in Files} : \A f \in Files : files[f].time <= t

-----------------------------------------------------------------------------
(* load_rules: no directory, no rules, and the cache stays.                *)
NotReading == [time |-> 0, todo |-> {}, rules |-> {}, on |-> FALSE,
               stirred |-> FALSE]

CacheHolds == kept.time = NewestTime /\ kept.rules # {}

(* With force, by POST /detections/reload, the cache is not asked.  An     *)
(* empty cache is read anew every time.                                    *)
LoadRules(force) ==
  /\ ~loading.on
  /\ \/ /\ ~there
        /\ inForce' = {}
        /\ UNCHANGED loading
     \/ /\ there /\ ~force /\ CacheHolds
        /\ inForce' = kept.rules
        /\ UNCHANGED loading
     \/ /\ there /\ (force \/ ~CacheHolds)
        /\ loading' = [time |-> NewestTime, todo |-> Files, rules |-> {}, on |-> TRUE,
                       stirred |-> FALSE]
        /\ UNCHANGED inForce
  /\ UNCHANGED <<files, there, kept, writes, disturbed>>

(* One file is parsed.  One that holds no rule with an id, that does not   *)
(* parse or that is gone is passed over.                                   *)
ReadFile(f) ==
  /\ f \in loading.todo
  /\ loading' = [loading EXCEPT !.todo = @ \ {f},
                   !.rules = @ \cup {Parsed(g) : g \in {h \in {f} \cap Files : files[h].doc.rule}}]
  /\ UNCHANGED <<files, there, kept, inForce, writes, disturbed>>

(* Faulty: the time is asked for again when the files have been read.      *)
TimeAfterwards == NewestTime

(* The time that was asked for before the first file was read.             *)
TimeKept == loading.time

Finish ==
  /\ loading.on
  /\ loading.todo = {}
  /\ kept' = [time |-> TimeKept, rules |-> loading.rules]
  /\ inForce' = loading.rules
  /\ loading' = NotReading
  /\ disturbed' = loading.stirred
  /\ UNCHANGED <<files, there, writes>>

(* Somebody writes a rule.                                                 *)
WriteRule(f, doc) ==
  /\ there
  /\ writes < MaxWrites
  /\ writes' = writes + 1
  /\ files' = [files EXCEPT ![f] = [time |-> writes + 1, doc |-> doc]]
  /\ UNCHANGED <<there, kept, inForce, loading, disturbed>>

RemoveRule(f) ==
  /\ there
  /\ files[f] # NoFile
  /\ files' = [files EXCEPT ![f] = NoFile]
  /\ disturbed' = TRUE
  /\ loading' = [loading EXCEPT !.stirred = loading.on]
  /\ UNCHANGED <<there, kept, inForce, writes>>

(* A file comes with the time it had elsewhere.                            *)
PutBack(f, t, doc) ==
  /\ there
  /\ t <= writes
  /\ \A g \in Files : files[g].time # t
  /\ files' = [files EXCEPT ![f] = [time |-> t, doc |-> doc]]
  /\ disturbed' = TRUE
  /\ loading' = [loading EXCEPT !.stirred = loading.on]
  /\ UNCHANGED <<there, kept, inForce, writes>>

(* The volume with the directory goes and comes back.                      *)
Mount ==
  /\ ~loading.on
  /\ there' = ~there
  /\ UNCHANGED <<files, kept, inForce, loading, writes, disturbed>>

RuleInit ==
  /\ files = [f \in RuleFiles |-> NoFile]
  /\ there = TRUE
  /\ kept = [time |-> 0, rules |-> {}]
  /\ inForce = {}
  /\ loading = NotReading
  /\ writes = 0
  /\ disturbed = FALSE

RuleNext ==
  \/ \E force \in BOOLEAN : LoadRules(force)
  \/ \E f \in RuleFiles : ReadFile(f)
  \/ Finish \/ Mount
  \/ \E f \in RuleFiles :
       \/ RemoveRule(f)
       \/ \E doc \in Documents : WriteRule(f, doc) \/ \E t \in 1..MaxWrites : PutBack(f, t, doc)

RuleSpec == RuleInit /\ [][RuleNext]_ruleVars

-----------------------------------------------------------------------------
(* When the kept rules would be used as they are, they are what is in the  *)
(* directory, however many writes came between two cycles or while the     *)
(* files were read, and whatever was passed over as malformed before it    *)
(* was mended.  Only when a file was removed, or came with an older time,  *)
(* since the reading began may they differ.                                *)
KeptIsCurrent == CacheHolds /\ ~disturbed => kept.rules = Directory
=============================================================================
