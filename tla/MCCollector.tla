---------------------------- MODULE MCCollector ----------------------------
(* Instances of Collector for TLC: one chunk for a short line, two for a   *)
(* line that can be caught half written, three for one above the read cap. *)
EXTENDS Collector

CONSTANTS short, long, huge, noise

MCLineLen ==
  [e \in Events |-> CASE e \in {short, noise} -> 1
                     [] e = long -> 2
                     [] e = huge -> 3]
=============================================================================
