---------------------------- MODULE DurableFeed ----------------------------
(***************************************************************************)
(* What the ingestion pipeline promises its readers: events become durable *)
(* and stay so, and the live feed only carries durable events.             *)
(***************************************************************************)
CONSTANT Events

VARIABLES
  durable,  \* events in the database
  live      \* events the live feed has carried

Store ==
  \E new \in SUBSET Events :
    /\ durable' = durable \cup new
    /\ UNCHANGED live

Deliver ==
  \E new \in SUBSET durable :
    /\ live' = live \cup new
    /\ UNCHANGED durable

Init == durable = {} /\ live = {}

Next == Store \/ Deliver

Spec == Init /\ [][Next]_<<durable, live>>
=============================================================================
