----------------------------- MODULE Normalizer -----------------------------
(***************************************************************************)
(* services/telemetry/normalize.py: one raw event of a sensor's log        *)
(* becomes one row, or none, whichever sensor wrote it; and the collector  *)
(* that reads a log's lines, some of them again after a crash.             *)
(*                                                                         *)
(* A raw event is a function from the names of the fields it has to their  *)
(* values, strings; "remote.host" is the field host nested under remote.   *)
(* "[remote]" what a bracketed string in its type says.  What words a type *)
(* contains is given by Words.                                             *)
(***************************************************************************)
EXTENDS Naturals, Sequences

CONSTANTS
  Lines,        \* the raw events
  Words,        \* for every type of event, the words that it contains
  DropLoopback, \* TELEMETRY_DROP_LOOPBACK
  LastClock     \* bound on the clock

VARIABLES
  clock,     \* utcnow
  normalized \* normalized_events: by event_id, what was stored of it

normalizerVars == <<clock, normalized>>

-----------------------------------------------------------------------------
(* Look-ups.                                                               *)

Nothing == "None"
Truthy == {Nothing, ""}

(* _first, and _nested for the dotted names                                *)
First(event, names) ==
  LET present == {i \in DOMAIN names : names[i] \in DOMAIN event /\ event[names[i]] \notin Truthy}
  IN  IF present = {} THEN Nothing
      ELSE event[names[CHOOSE i \in present : \A j \in present : i <= j]]

(* _clean_ip, which comes after the choice: a placeholder in the first     *)
(* spelling hides an address in the second.                                *)
CleanIp(ip) == IF ip \in {"", "0.0.0.0", "::", "None", "null"} THEN Nothing ELSE ip

(* _clean_port: not a number, or out of range                              *)
CleanPort(port) == IF port \in {"", "None", "0", "70000", "x"} THEN Nothing ELSE port

Has(type, word) == word \in Words[type]

SensorNames == <<"cowrie", "dionaea", "honeytrap">>

(* detect_sensor                                                           *)
NamedIn(event, names) ==
  {i \in DOMAIN SensorNames : LET v == First(event, names)
                          IN  v # Nothing /\ Has(v, SensorNames[i])}

DetectSensor(event) ==
  LET declared == NamedIn(event, <<"sensor", "system", "sensor_name", "honeypot">>)
      typed == NamedIn(event, <<"eventid", "event", "type">>)
      first(S) == SensorNames[CHOOSE i \in S : \A j \in S : i <= j]
  IN  IF declared # {} THEN first(declared)
      ELSE IF typed # {} THEN first(typed)
      ELSE IF {"source-ip", "destination-ip"} \cap DOMAIN event # {} THEN "honeytrap"
      ELSE IF {"connection.type", "connection.protocol", "connection.remote.host"}
                \cap DOMAIN event # {} THEN "dionaea"
      ELSE "unknown"

-----------------------------------------------------------------------------
(* The four parsers: where each looks for a field, in this order.          *)

(* parse_cowrie                                                            *)
CowrieFields == [
  type    |-> <<"eventid", "event">>,
  source  |-> <<"src_ip", "peerIP", "srcIP">>,
  port    |-> <<"dst_port", "hostPort">>,
  command |-> <<"input", "command">>,
  hint    |-> <<"protocol">>]

(* parse_dionaea: three generations of its output                          *)
DionaeaFields == [
  type    |-> <<"eventid", "event", "connection_type">>,
  source  |-> <<"src_ip", "peerIP", "remote_host", "remote_ip", "connection.remote.host",
                "remote.host", "source.host", "src.host">>,
  port    |-> <<"dst_port", "hostPort", "local_port", "connection.local.port",
                "local.port", "destination.port", "dst.port">>,
  command |-> <<>>,
  hint    |-> <<"connection_protocol", "protocol", "connection.protocol",
                "connection.transport">>]

(* parse_honeytrap: hyphens, or nested in older builds                     *)
HoneytrapFields == [
  type    |-> <<"type", "eventid", "category", "event">>,
  source  |-> <<"source-ip", "source_ip", "src_ip", "source.host", "src.host", "origin.host",
                "peer.host">>,
  port    |-> <<"destination-port", "destination_port", "dst_port", "destination.port",
                "dst.port", "local.port">>,
  command |-> <<"command", "payload-command">>,
  hint    |-> <<"protocol", "transport", "category">>]

(* parse_generic: most of what the others know, not Cowrie's srcIP         *)
GenericFields == [
  type    |-> <<"eventid", "event", "type">>,
  source  |-> <<"src_ip", "source_ip", "source-ip", "peerIP", "remote_host", "remote_ip",
                "attacker", "client_ip", "ip", "source.host", "src.host", "origin.host",
                "peer.host", "remote.host">>,
  port    |-> <<"dst_port", "destination_port", "destination-port", "hostPort", "port",
                "destination.port", "dst.port", "local.port">>,
  command |-> <<"command", "input">>,
  hint    |-> <<"protocol", "transport">>]

(* PARSERS                                                                 *)
Spellings == [cowrie |-> CowrieFields, dionaea |-> DionaeaFields, honeytrap |-> HoneytrapFields,
              unknown |-> GenericFields]

DefaultType == [cowrie |-> "cowrie.session.connect", dionaea |-> "dionaea.connection",
                honeytrap |-> "honeytrap.connection", unknown |-> "event"]

EventType(sensor, event) ==
  LET named == First(event, Spellings[sensor].type)
      both == First(event, <<"category">>) # Nothing /\ First(event, <<"type">>) # Nothing
  IN  IF sensor = "honeytrap" /\ both
      THEN "honeytrap." \o event["category"] \o "." \o event["type"]
      ELSE IF named # Nothing THEN named
      ELSE IF sensor = "dionaea" /\ First(event, <<"connection.type">>) # Nothing
      THEN "dionaea.connection." \o event["connection.type"]
      ELSE DefaultType[sensor]

(* Dionaea's bracketed string, "[local:port->remote:port]", is the last     *)
(* resort for the address and the port.                                    *)
Bracketed(sensor, event, own, part) ==
  IF sensor = "dionaea" /\ own = Nothing THEN First(event, <<part>>) ELSE own

SourceAddress(sensor, event) ==
  CleanIp(Bracketed(sensor, event, CleanIp(First(event, Spellings[sensor].source)), "[remote]"))

Port(sensor, event) ==
  CleanPort(Bracketed(sensor, event, CleanPort(First(event, Spellings[sensor].port)), "[port]"))

AuthResult(sensor, type) ==
  IF sensor # "cowrie" THEN Nothing
  ELSE IF Has(type, "login.success") THEN "SUCCESS"
  ELSE IF Has(type, "login.failed") THEN "FAILURE"
  ELSE Nothing

-----------------------------------------------------------------------------
(* What is derived.                                                        *)

DEFAULT_SENSOR_PORTS == [cowrie |-> "2222", dionaea |-> "445", honeytrap |-> "8022",
                         unknown |-> Nothing]

PORT_PROTOCOL(port) ==
  CASE port \in {"22", "2222", "2223", "8022"} -> "ssh"
    [] port \in {"23", "8023"}                 -> "telnet"
    [] port \in {"80", "8080"}                 -> "http"
    [] port = "445"                            -> "smb"
    [] OTHER                                   -> Nothing

(* derive_protocol: a transport gives way to what the port is known for.   *)
Protocol(port, hint) ==
  LET known == PORT_PROTOCOL(port) IN
  IF hint \notin {Nothing, "tcp", "udp", "unknown"} THEN hint
  ELSE IF known # Nothing THEN known
  ELSE IF hint = Nothing THEN "tcp" ELSE hint

(* derive_severity: the first that matches                                 *)
Severity(type, auth, command) ==
  IF \E w \in {"file_download", "file_upload", "download"} : Has(type, w) THEN "CRITICAL"
  ELSE IF command # Nothing \/ auth = "SUCCESS" THEN "HIGH"
  ELSE IF auth = "FAILURE" THEN "MEDIUM"
  ELSE IF \E w \in {"login", "auth", "credential"} : Has(type, w) THEN "MEDIUM"
  ELSE IF \E w \in {"connect", "session", "connection"} : Has(type, w) THEN "LOW"
  ELSE "INFO"

(* parse_timestamp: the moment, or now for none and for what cannot be read *)
Stamp(event) ==
  LET text == First(event, <<"timestamp", "time", "date", "@timestamp">>)
  IN  IF text \in {Nothing, "junk"} THEN clock ELSE 0

(* Faulty: the id covers the moment that the row is given.                 *)
StampedEventId(event) == <<event, Stamp(event)>>

(* compute_event_id: a digest of the raw event and of nothing else         *)
EventId(event) == <<event, 0>>

(* normalize: no row for a heartbeat, nor without a source address         *)
Kept(event) ==
  LET sensor == DetectSensor(event)
      ip == SourceAddress(sensor, event)
  IN  /\ ~Has(EventType(sensor, event), "heartbeat")
      /\ ip # Nothing
      /\ ~(DropLoopback /\ ip \in {"127.0.0.1", "::1", "localhost"})

Normalize(event) ==
  LET sensor == DetectSensor(event)
      type == EventType(sensor, event)
      own == Port(sensor, event)
      port == IF own = Nothing THEN DEFAULT_SENSOR_PORTS[sensor] ELSE own
      command == First(event, Spellings[sensor].command)
  IN  [sensor   |-> sensor,
       source   |-> SourceAddress(sensor, event),
       protocol |-> Protocol(port, First(event, Spellings[sensor].hint)),
       severity |-> Severity(type, AuthResult(sensor, type), command),
       at       |-> Stamp(event)]

-----------------------------------------------------------------------------
(* The collector reads a line, for the first time or again: INSERT IGNORE. *)
ReadLine(event) ==
  /\ Kept(event)
  /\ normalized' = IF EventId(event) \in DOMAIN normalized THEN normalized
                   ELSE [id \in DOMAIN normalized \cup {EventId(event)} |->
                           IF id = EventId(event) THEN Normalize(event) ELSE normalized[id]]
  /\ UNCHANGED clock

ClockTick ==
  /\ clock < LastClock
  /\ clock' = clock + 1
  /\ UNCHANGED normalized

NormalizerInit == clock = 0 /\ normalized = [id \in {} |-> 0]

NormalizerNext == ClockTick \/ \E event \in Lines : ReadLine(event)

NormalizerSpec == NormalizerInit /\ [][NormalizerNext]_normalizerVars

-----------------------------------------------------------------------------
(* However often and however late a line is read again, it has one row:    *)
(* also a line whose time is missing or unreadable, which is stored with   *)
(* the time of its first reading.                                          *)
OneRowPerLine == \A i, j \in DOMAIN normalized : i[1] = j[1] => i = j
=============================================================================
