------------------------------ MODULE EventBus ------------------------------
(***************************************************************************)
(* Live delivery: the in-process event bus and the server-sent event       *)
(* streams that drain it.                                                  *)
(*                                                                         *)
(*   services/event_bus.py             publish, open, close                *)
(*   api/v1/endpoints/live.py          the generator behind /live/stream   *)
(*                                                                         *)
(* A message is its position in log, the history of what was published.    *)
(***************************************************************************)
EXTENDS Integers, Sequences, FiniteSets, SequencesExt, FiniteSetsExt

CONSTANTS
  Streams,                \* connections, each used once
  Channels,               \* "event", "detection", "metrics"
  SUBSCRIBER_QUEUE_SIZE,
  MaxPublished            \* bound on the messages published

ASSUME StreamsAssumption == IsFiniteSet(Streams)

ASSUME SizesAssumption ==
  /\ SUBSCRIBER_QUEUE_SIZE \in Nat \ {0}
  /\ MaxPublished \in Nat

VARIABLES
  log,        \* channel of every message published so far (history)
  published,  \* EventBus._published
  dropped,    \* EventBus._dropped
  wants,      \* EventBus._subscribers: the channels, {} when not registered
  queue,      \* the subscriber's queue; what close leaves in it is garbage
  pc,         \* where the stream's generator is
  holding,    \* message taken from the queue and not yet sent, 0 if none
  connected,  \* the client is still there
  received,   \* messages sent to the client (history)
  offered     \* messages published for the stream while registered (history)

bus == <<log, published, dropped>>
client == <<connected, received, offered>>
vars == <<bus, wants, queue, pc, holding, client>>

-----------------------------------------------------------------------------
Registered(s) == wants[s] # {}

(* Faulty: a full queue keeps what it has.                                 *)
EnqueueDropNewest(q, m) ==
  IF Len(q) < SUBSCRIBER_QUEUE_SIZE THEN Append(q, m) ELSE q

(* put_nowait, and on QueueFull the oldest message makes room.             *)
Enqueue(q, m) ==
  IF Len(q) < SUBSCRIBER_QUEUE_SIZE THEN Append(q, m) ELSE Append(Tail(q), m)

Overflowing(ch) ==
  {s \in Streams : ch \in wants[s] /\ Len(queue[s]) >= SUBSCRIBER_QUEUE_SIZE}

(* Synchronous: no stream runs in the middle of it.                        *)
Publish(ch) ==
  /\ Len(log) < MaxPublished
  /\ log' = Append(log, ch)
  /\ published' = [published EXCEPT ![ch] = @ + 1]
  /\ queue' = [s \in Streams |->
                 IF ch \in wants[s] THEN Enqueue(queue[s], Len(log')) ELSE queue[s]]
  /\ dropped' = dropped + Cardinality(Overflowing(ch))
  /\ offered' = [s \in Streams |-> offered[s] + (IF ch \in wants[s] THEN 1 ELSE 0)]
  /\ UNCHANGED <<wants, pc, holding, connected, received>>

(* open(): /live/stream takes every channel, subscribe() only "event".     *)
Open(s) ==
  /\ pc[s] = "new"
  /\ \E chans \in {Channels} \cup {{ch} : ch \in Channels} :
       wants' = [wants EXCEPT ![s] = chans]
  /\ pc' = [pc EXCEPT ![s] = "check"]
  /\ UNCHANGED <<bus, queue, holding, client>>

Take(s) ==
  /\ queue[s] # <<>>
  /\ holding' = [holding EXCEPT ![s] = Head(queue[s])]
  /\ queue' = [queue EXCEPT ![s] = Tail(@)]
  /\ pc' = [pc EXCEPT ![s] = "send"]
  /\ UNCHANGED <<bus, wants, client>>

(* request.is_disconnected() says no; get() finds a message, or waits.     *)
Get(s) ==
  /\ pc[s] = "check"
  /\ connected[s]
  /\ Take(s)

Park(s) ==
  /\ pc[s] = "check"
  /\ connected[s]
  /\ queue[s] = <<>>
  /\ pc' = [pc EXCEPT ![s] = "parked"]
  /\ UNCHANGED <<bus, wants, queue, holding, client>>

Resume(s) ==
  /\ pc[s] = "parked"
  /\ Take(s)

(* Faulty: a read of the queue that is cancelled takes its message along.  *)
HeartbeatLosesMessage(s) ==
  /\ pc[s] = "parked"
  /\ pc' = [pc EXCEPT ![s] = "check"]
  /\ queue' = [queue EXCEPT ![s] = IF @ = <<>> THEN @ ELSE Tail(@)]
  /\ UNCHANGED <<bus, wants, holding, client>>

(* Faulty: a read of the queue that is cancelled puts its message back.    *)
HeartbeatRequeues(s) ==
  /\ pc[s] = "parked"
  /\ pc' = [pc EXCEPT ![s] = "check"]
  /\ queue' = [queue EXCEPT ![s] = IF @ = <<>> THEN @ ELSE Append(Tail(@), Head(@))]
  /\ UNCHANGED <<bus, wants, holding, client>>

(* Faulty: the wait has no timeout.                                        *)
NoHeartbeat(s) == FALSE /\ UNCHANGED vars

(* wait_for times out.  A message that comes at that moment stays queued.  *)
Heartbeat(s) ==
  /\ pc[s] = "parked"
  /\ pc' = [pc EXCEPT ![s] = "check"]
  /\ UNCHANGED <<bus, wants, queue, holding, client>>

Send(s) ==
  /\ pc[s] = "send"
  /\ received' = [received EXCEPT ![s] = Append(@, holding[s])]
  /\ holding' = [holding EXCEPT ![s] = 0]
  /\ pc' = [pc EXCEPT ![s] = "check"]
  /\ UNCHANGED <<bus, wants, queue, connected, offered>>

(* The finally clause.                                                     *)
Unregister(s) ==
  /\ wants' = [wants EXCEPT ![s] = {}]
  /\ pc' = [pc EXCEPT ![s] = "closed"]
  /\ UNCHANGED <<bus, queue, holding, client>>

Close(s) ==
  /\ pc[s] = "check"
  /\ ~ connected[s]
  /\ Unregister(s)

(* The server cancels the generator of a client that has gone.             *)
Cancel(s) ==
  /\ pc[s] \in {"parked", "send"}
  /\ ~ connected[s]
  /\ Unregister(s)

(* The client goes away: a closed tab, a lost link.                        *)
Disconnect(s) ==
  /\ pc[s] \notin {"new", "closed"}
  /\ connected[s]
  /\ connected' = [connected EXCEPT ![s] = FALSE]
  /\ UNCHANGED <<bus, wants, queue, pc, holding, received, offered>>

-----------------------------------------------------------------------------
Init ==
  /\ log = <<>>
  /\ published = [ch \in Channels |-> 0]
  /\ dropped = 0
  /\ wants = [s \in Streams |-> {}]
  /\ queue = [s \in Streams |-> <<>>]
  /\ pc = [s \in Streams |-> "new"]
  /\ holding = [s \in Streams |-> 0]
  /\ connected = [s \in Streams |-> TRUE]
  /\ received = [s \in Streams |-> <<>>]
  /\ offered = [s \in Streams |-> 0]

Generator(s) ==
  \/ Get(s) \/ Park(s) \/ Resume(s) \/ Heartbeat(s) \/ Send(s) \/ Close(s)

Next ==
  \/ \E ch \in Channels : Publish(ch)
  \/ \E s \in Streams : Open(s) \/ Generator(s) \/ Cancel(s) \/ Disconnect(s)

(* A generator's awaits return: get() within the heartbeat interval, the   *)
(* send when the client takes it or is gone.                               *)
Fairness == \A s \in Streams : WF_vars(Generator(s))

Spec == Init /\ [][Next]_vars /\ Fairness

-----------------------------------------------------------------------------
(* Properties.                                                             *)

(* Every variable keeps its type, and no queue outgrows its capacity.      *)
TypeOK ==
  /\ log \in Seq(Channels)
  /\ published \in [Channels -> Nat]
  /\ dropped \in Nat
  /\ wants \in [Streams -> SUBSET Channels]
  /\ queue \in [Streams -> Seq(Nat \ {0})]
  /\ pc \in [Streams -> {"new", "check", "parked", "send", "closed"}]
  /\ holding \in [Streams -> Nat]
  /\ connected \in [Streams -> BOOLEAN]
  /\ received \in [Streams -> Seq(Nat)]
  /\ offered \in [Streams -> Nat]
  /\ \A s \in Streams : Len(queue[s]) <= SUBSCRIBER_QUEUE_SIZE

(* A live view shows recent activity: whatever a slow client has lost is   *)
(* older than everything still in its queue, so that from the head of the  *)
(* queue on it misses no message of its channels.                          *)
NewestKept ==
  \A s \in Streams : Registered(s) /\ queue[s] # <<>> =>
    \A n \in Head(queue[s]) .. Len(log) :
      log[n] \in wants[s] => \E i \in DOMAIN queue[s] : queue[s][i] = n

(* The messages of a stream, sent, in hand and queued.                     *)
Held(s) ==
  received[s] \o (IF holding[s] = 0 THEN <<>> ELSE <<holding[s]>>) \o queue[s]

(* A client sees messages in the order they were published and none twice, *)
(* whatever overflows and times out meanwhile.                             *)
InOrder ==
  \A s \in Streams : \A i, j \in DOMAIN Held(s) : i < j => Held(s)[i] < Held(s)[j]

(* dropped_to_slow_clients accounts for every message that was published   *)
(* for a stream and neither sent nor left with it: none vanishes silently, *)
(* a heartbeat racing a message included.                                  *)
Accounted ==
  dropped = MapThenSumSet(LAMBDA s : offered[s] - Len(Held(s)), Streams)

(* A closed tab leaves no dead subscriber: the heartbeat brings a parked   *)
(* generator back to its check, even when nothing is published any more.   *)
DeadStreamsLeave ==
  \A s \in Streams : (~ connected[s] /\ Registered(s)) ~> ~ Registered(s)
=============================================================================
