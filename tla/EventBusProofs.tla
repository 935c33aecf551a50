--------------------------- MODULE EventBusProofs ---------------------------
(* Theorems about live delivery, for every number of streams and channels  *)
(* and every queue size.                                                   *)
EXTENDS EventBus, FiniteSetTheorems, SequenceTheorems, WellFoundedInduction, TLAPS

Msg == Nat \ {0}

LEMMA EnqueueType ==
  ASSUME NEW q \in Seq(Msg), NEW m \in Msg, Len(q) <= SUBSCRIBER_QUEUE_SIZE
  PROVE  /\ Enqueue(q, m) \in Seq(Msg)
         /\ Len(Enqueue(q, m)) <= SUBSCRIBER_QUEUE_SIZE
  <1>0. SUBSCRIBER_QUEUE_SIZE \in Nat \ {0} /\ Len(q) \in Nat
    BY SizesAssumption
  <1>1. CASE Len(q) < SUBSCRIBER_QUEUE_SIZE
    BY <1>0, <1>1, AppendProperties DEF Enqueue
  <1>2. CASE ~ (Len(q) < SUBSCRIBER_QUEUE_SIZE)
    <2>1. q # <<>>
      BY <1>0, <1>2
    <2>2. Tail(q) \in Seq(Msg) /\ Len(Tail(q)) = Len(q) - 1
      BY <2>1, HeadTailProperties
    <2>3. Append(Tail(q), m) \in Seq(Msg) /\ Len(Append(Tail(q), m)) = Len(q)
      BY <1>0, <2>2, AppendProperties
    <2> QED
      BY <1>2, <2>3 DEF Enqueue
  <1> QED
    BY <1>1, <1>2

LEMMA OverflowingSize ==
  ASSUME NEW ch \in Channels
  PROVE  Cardinality(Overflowing(ch)) \in Nat
  <1>1. Overflowing(ch) \subseteq Streams
    BY DEF Overflowing
  <1> QED
    BY <1>1, StreamsAssumption, FS_Subset, FS_CardinalityType

LEMMA InitType == Init => TypeOK
  <1> SUFFICES ASSUME Init PROVE TypeOK
    OBVIOUS
  <1> USE DEF Init
  <1>1. log \in Seq(Channels)
    BY EmptySeq
  <1>2. queue \in [Streams -> Seq(Nat \ {0})] /\ received \in [Streams -> Seq(Nat)]
    BY EmptySeq
  <1>3. \A s \in Streams : Len(queue[s]) <= SUBSCRIBER_QUEUE_SIZE
    BY SizesAssumption
  <1> QED
    BY <1>1, <1>2, <1>3 DEF TypeOK

LEMMA StepType == TypeOK /\ [Next]_vars => TypeOK'
  <1> SUFFICES ASSUME TypeOK, [Next]_vars PROVE TypeOK'
    OBVIOUS
  <1> USE DEF TypeOK
  <1>1. ASSUME NEW ch \in Channels, Publish(ch) PROVE TypeOK'
    <2>1. /\ log' \in Seq(Channels)
          /\ Len(log') = Len(log) + 1
      BY <1>1, AppendProperties DEF Publish
    <2>2. Len(log') \in Msg
      BY <2>1 DEF Msg
    <2>3. published' \in [Channels -> Nat]
      BY <1>1 DEF Publish
    <2>4. dropped' \in Nat
      BY <1>1, OverflowingSize DEF Publish
    <2>5. \A s \in Streams : Enqueue(queue[s], Len(log')) \in Seq(Msg)
                            /\ Len(Enqueue(queue[s], Len(log'))) <= SUBSCRIBER_QUEUE_SIZE
      BY <2>2, EnqueueType DEF Msg
    <2>6. /\ queue' \in [Streams -> Seq(Nat \ {0})]
          /\ \A s \in Streams : Len(queue'[s]) <= SUBSCRIBER_QUEUE_SIZE
      BY <1>1, <2>5 DEF Publish, Msg
    <2>7. offered' \in [Streams -> Nat]
      BY <1>1 DEF Publish
    <2> QED
      BY <1>1, <2>1, <2>3, <2>4, <2>6, <2>7 DEF Publish
  <1>2. ASSUME NEW s \in Streams, Open(s) PROVE TypeOK'
    BY <1>2 DEF Open, bus, client
  <1>3. ASSUME NEW s \in Streams, Get(s) \/ Resume(s) PROVE TypeOK'
    <2>1. Take(s)
      BY <1>3 DEF Get, Resume
    <2>2. /\ Head(queue[s]) \in Msg
          /\ Tail(queue[s]) \in Seq(Msg)
          /\ Len(Tail(queue[s])) = Len(queue[s]) - 1
      BY <2>1, HeadTailProperties DEF Take, Msg
    <2>3. Len(queue[s]) - 1 <= SUBSCRIBER_QUEUE_SIZE
      BY SizesAssumption
    <2> QED
      BY <2>1, <2>2, <2>3 DEF Take, bus, client, Msg
  <1>4. ASSUME NEW s \in Streams, Park(s) \/ Heartbeat(s) PROVE TypeOK'
    BY <1>4 DEF Park, Heartbeat, bus, client
  <1>5. ASSUME NEW s \in Streams, Send(s) PROVE TypeOK'
    <2>1. Append(received[s], holding[s]) \in Seq(Nat)
      BY AppendProperties
    <2> QED
      BY <1>5, <2>1 DEF Send, bus
  <1>6. ASSUME NEW s \in Streams, Close(s) \/ Cancel(s) PROVE TypeOK'
    BY <1>6 DEF Close, Cancel, Unregister, bus, client
  <1>7. ASSUME NEW s \in Streams, Disconnect(s) PROVE TypeOK'
    BY <1>7 DEF Disconnect, bus
  <1>8. CASE UNCHANGED vars
    BY <1>8 DEF vars, bus, client
  <1> QED
    BY <1>1, <1>2, <1>3, <1>4, <1>5, <1>6, <1>7, <1>8 DEF Next, Generator

(* Every variable keeps its type and no queue outgrows its capacity, for   *)
(* any number of publishers' bursts and slow clients.                      *)
THEOREM BusTypeCorrect == Spec => []TypeOK
  BY InitType, StepType, PTL DEF Spec

-----------------------------------------------------------------------------
(* The order of what a stream holds.                                       *)

Increasing(q) == \A i, j \in 1 .. Len(q) : i < j => q[i] < q[j]
UpTo(q, n) == \A i \in 1 .. Len(q) : q[i] <= n

LEMMA IncreasingAppend ==
  ASSUME NEW q \in Seq(Nat), Increasing(q), NEW n \in Nat, UpTo(q, n)
  PROVE  Increasing(Append(q, n + 1)) /\ UpTo(Append(q, n + 1), n + 1)
  <1>1. /\ Len(q) \in Nat
        /\ Len(Append(q, n + 1)) = Len(q) + 1
        /\ \A i \in 1 .. Len(q) : Append(q, n + 1)[i] = q[i] /\ q[i] \in Nat
        /\ Append(q, n + 1)[Len(q) + 1] = n + 1
    BY AppendProperties
  <1> DEFINE a == Append(q, n + 1)
             l == Len(q)
  <1> HIDE DEF a, l
  <1>2. /\ l \in Nat /\ Len(a) = l + 1
        /\ \A i \in 1 .. l : a[i] = q[i] /\ q[i] \in Nat
        /\ a[l + 1] = n + 1
    BY <1>1 DEF a, l
  <1>3. /\ \A i, j \in 1 .. l : i < j => q[i] < q[j]
        /\ \A i \in 1 .. l : q[i] <= n
    BY DEF Increasing, UpTo, l
  <1>4. Increasing(a) /\ UpTo(a, n + 1)
    BY <1>2, <1>3 DEF Increasing, UpTo
  <1> QED
    BY <1>4 DEF a

(* Leaving out one element.                                                *)
LEMMA IncreasingWithout ==
  ASSUME NEW q \in Seq(Nat), Increasing(q), NEW n \in Nat, UpTo(q, n),
         NEW r \in Seq(Nat), NEW p \in 1 .. Len(q), Len(r) = Len(q) - 1,
         \A i \in 1 .. Len(r) : r[i] = IF i < p THEN q[i] ELSE q[i + 1]
  PROVE  Increasing(r) /\ UpTo(r, n)
  <1> DEFINE l == Len(q)
             k == Len(r)
  <1>1. /\ l \in Nat /\ p \in 1 .. l /\ k = l - 1
        /\ \A i \in 1 .. k : r[i] = IF i < p THEN q[i] ELSE q[i + 1]
        /\ \A i, j \in 1 .. l : i < j => q[i] < q[j]
        /\ \A i \in 1 .. l : q[i] <= n
    BY DEF Increasing, UpTo
  <1> HIDE DEF l, k
  <1>4. ASSUME NEW i \in 1 .. k
        PROVE  \E a \in 1 .. l : r[i] = q[a] /\ a = IF i < p THEN i ELSE i + 1
    <2>1. CASE i < p
      BY <1>1, <2>1
    <2>2. CASE ~ (i < p)
      BY <1>1, <2>2
    <2> QED
      BY <2>1, <2>2
  <1>2. ASSUME NEW i \in 1 .. k, NEW j \in 1 .. k, i < j
        PROVE  r[i] < r[j]
    <2>1. PICK a \in 1 .. l : r[i] = q[a] /\ a = IF i < p THEN i ELSE i + 1
      BY <1>4
    <2>2. PICK b \in 1 .. l : r[j] = q[b] /\ b = IF j < p THEN j ELSE j + 1
      BY <1>4
    <2>3. a < b
      BY <1>1, <1>2, <2>1, <2>2
    <2> QED
      BY <1>1, <2>1, <2>2, <2>3
  <1>3. ASSUME NEW i \in 1 .. k
        PROVE  r[i] <= n
    BY <1>1, <1>4
  <1> QED
    BY <1>2, <1>3 DEF Increasing, UpTo, k

InHand(s) == IF holding[s] = 0 THEN <<>> ELSE <<holding[s]>>

(* What a stream has had, in two parts: what it took and what is queued.   *)
Taken(s) == received[s] \o InHand(s)

OrderInv ==
  \A s \in Streams :
    /\ Increasing(Taken(s) \o queue[s])
    /\ UpTo(Taken(s) \o queue[s], Len(log))
    /\ pc[s] \in {"check", "parked"} => holding[s] = 0
    /\ pc[s] = "send" => holding[s] # 0
    /\ pc[s] = "new" => wants[s] = {} /\ queue[s] = <<>> /\ holding[s] = 0

LEMMA TakenType ==
  ASSUME TypeOK, NEW s \in Streams
  PROVE  /\ InHand(s) \in Seq(Nat)
         /\ Taken(s) \in Seq(Nat)
         /\ queue[s] \in Seq(Nat)
         /\ Taken(s) \o queue[s] \in Seq(Nat)
         /\ Held(s) = Taken(s) \o queue[s]
         /\ Len(Taken(s) \o queue[s]) = Len(Taken(s)) + Len(queue[s])
  <1>1. received[s] \in Seq(Nat) /\ holding[s] \in Nat /\ queue[s] \in Seq(Nat \ {0})
    BY DEF TypeOK
  <1>2. queue[s] \in Seq(Nat)
    BY <1>1
  <1>3. InHand(s) \in Seq(Nat)
    BY <1>1, EmptySeq DEF InHand
  <1>4. Taken(s) \in Seq(Nat)
    BY <1>1, <1>3, ConcatProperties DEF Taken
  <1>5. Taken(s) \o queue[s] \in Seq(Nat) /\ Len(Taken(s) \o queue[s]) = Len(Taken(s)) + Len(queue[s])
    BY <1>2, <1>4, ConcatProperties
  <1> QED
    BY <1>2, <1>3, <1>4, <1>5 DEF Held, Taken, InHand

LEMMA AppendAfter ==
  ASSUME NEW S, NEW t \in Seq(S), NEW q \in Seq(S), NEW x \in S
  PROVE  t \o Append(q, x) = Append(t \o q, x)
  BY AppendIsConcat, ConcatAssociative, ConcatProperties

(* A full queue loses its head, and only that.                             *)
LEMMA EnqueueOrder ==
  ASSUME NEW t \in Seq(Nat), NEW q \in Seq(Nat), NEW n \in Nat,
         Increasing(t \o q), UpTo(t \o q, n)
  PROVE  Increasing(t \o Enqueue(q, n + 1)) /\ UpTo(t \o Enqueue(q, n + 1), n + 1)
  <1>1. t \o Append(q, n + 1) = Append(t \o q, n + 1)
    BY AppendAfter
  <1>2. CASE Len(q) < SUBSCRIBER_QUEUE_SIZE
    <2>1. t \o q \in Seq(Nat)
      BY ConcatProperties
    <2> QED
      BY <1>1, <1>2, <2>1, IncreasingAppend DEF Enqueue
  <1>3. CASE ~ (Len(q) < SUBSCRIBER_QUEUE_SIZE)
    <2>1. q # <<>>
      BY <1>3, SizesAssumption
    <2>2. /\ Tail(q) \in Seq(Nat) /\ Len(Tail(q)) = Len(q) - 1
          /\ \A i \in 1 .. Len(Tail(q)) : Tail(q)[i] = q[i + 1]
      BY <2>1, HeadTailProperties
    <2> DEFINE r == Tail(q)
    <2>3. /\ t \o q \in Seq(Nat) /\ Len(t \o q) = Len(t) + Len(q)
          /\ \A i \in 1 .. Len(t) + Len(q) : (t \o q)[i] = IF i <= Len(t) THEN t[i] ELSE q[i - Len(t)]
      BY ConcatProperties
    <2>4. /\ t \o r \in Seq(Nat) /\ Len(t \o r) = Len(t) + Len(r)
          /\ \A i \in 1 .. Len(t) + Len(r) : (t \o r)[i] = IF i <= Len(t) THEN t[i] ELSE r[i - Len(t)]
      BY <2>2, ConcatProperties
    <2> DEFINE l == Len(t)
               k == Len(q)
               p == l + 1
    <2>5. l \in Nat /\ k \in Nat /\ k > 0
      BY <2>1
    <2> HIDE DEF r
    <2>6. ASSUME NEW i \in 1 .. (l + k - 1)
          PROVE  (t \o r)[i] = IF i < p THEN (t \o q)[i] ELSE (t \o q)[i + 1]
      <3>1. Len(r) = k - 1 /\ \A j \in 1 .. k - 1 : r[j] = q[j + 1]
        BY <2>2 DEF r
      <3> HIDE DEF l, k
      <3>2. \A j \in 1 .. l + k : (t \o q)[j] = IF j <= l THEN t[j] ELSE q[j - l]
        BY <2>3 DEF l, k
      <3>3. \A j \in 1 .. l + k - 1 : (t \o r)[j] = IF j <= l THEN t[j] ELSE r[j - l]
        BY <2>4, <2>5, <3>1 DEF l
      <3>4. CASE i <= l
        <4>1. i \in 1 .. l + k /\ i \in 1 .. l + k - 1 /\ i < p
          BY <2>5, <3>4
        <4> QED
          BY <3>2, <3>3, <3>4, <4>1
      <3>5. CASE ~ (i <= l)
        <4>1. i - l \in 1 .. k - 1 /\ i + 1 \in 1 .. l + k /\ ~ (i + 1 <= l) /\ ~ (i < p)
          BY <2>5, <3>5
        <4>2. r[i - l] = q[(i + 1) - l]
          BY <2>5, <3>1, <4>1
        <4> QED
          BY <3>2, <3>3, <3>5, <4>1, <4>2
      <3> QED
        BY <3>4, <3>5
    <2>7. Len(t \o r) = Len(t \o q) - 1 /\ p \in 1 .. Len(t \o q)
      BY <2>2, <2>3, <2>4, <2>5 DEF r
    <2>8. Len(t \o r) = l + k - 1
      BY <2>3, <2>7
    <2>9. Increasing(t \o r) /\ UpTo(t \o r, n)
      <3>1. t \o q \in Seq(Nat) /\ t \o r \in Seq(Nat)
        BY <2>3, <2>4
      <3>2. \A i \in 1 .. Len(t \o r) :
              (t \o r)[i] = IF i < p THEN (t \o q)[i] ELSE (t \o q)[i + 1]
        BY <2>6, <2>8
      <3> DEFINE old == t \o q
                 new == t \o r
      <3> HIDE DEF old, new, p
      <3> QED
        BY <2>7, <3>1, <3>2, IncreasingWithout DEF old, new
    <2>10. t \o Append(r, n + 1) = Append(t \o r, n + 1)
      <3>1. r \in Seq(Nat) /\ n + 1 \in Nat
        BY <2>2 DEF r
      <3> QED
        BY <3>1, AppendAfter
    <2>11. Increasing(Append(t \o r, n + 1)) /\ UpTo(Append(t \o r, n + 1), n + 1)
      BY <2>4, <2>9, IncreasingAppend
    <2> QED
      BY <1>3, <2>10, <2>11 DEF Enqueue, r
  <1> QED
    BY <1>2, <1>3

LEMMA InitOrder == Init => OrderInv
  <1> SUFFICES ASSUME Init, NEW s \in Streams
               PROVE  /\ Increasing(Taken(s) \o queue[s])
                      /\ UpTo(Taken(s) \o queue[s], Len(log))
                      /\ pc[s] = "new" /\ wants[s] = {} /\ queue[s] = <<>> /\ holding[s] = 0
    BY DEF OrderInv
  <1>1. /\ pc[s] = "new" /\ wants[s] = {} /\ queue[s] = <<>> /\ holding[s] = 0
        /\ received[s] = <<>>
    BY DEF Init
  <1>2. Taken(s) \o queue[s] = <<>>
    BY <1>1 DEF Taken, InHand
  <1> QED
    BY <1>1, <1>2 DEF Increasing, UpTo

LEMMA ConcatHeadTail ==
  ASSUME NEW S, NEW r \in Seq(S), NEW q \in Seq(S), q # <<>>
  PROVE  (r \o <<Head(q)>>) \o Tail(q) = r \o q
  <1>1. Head(q) \in S /\ Tail(q) \in Seq(S)
    BY HeadTailProperties
  <1> DEFINE h == <<Head(q)>>
             t == Tail(q)
  <1>2. h \in Seq(S) /\ t \in Seq(S) /\ h \o t = q
    BY <1>1
  <1> HIDE DEF h, t
  <1>3. \A a, b, c \in Seq(S) : (a \o b) \o c = a \o (b \o c)
    BY ConcatAssociative, SMTT(30)
  <1>4. (r \o h) \o t = r \o (h \o t)
    BY <1>2, <1>3
  <1> QED
    BY <1>2, <1>4 DEF h, t

(* Taking a message and sending it only move it along.                     *)
LEMMA TakeMoves ==
  ASSUME TypeOK, OrderInv, NEW s \in Streams, Get(s) \/ Resume(s)
  PROVE  /\ (Taken(s) \o queue[s])' = Taken(s) \o queue[s]
         /\ holding'[s] # 0
  <1> DEFINE q == queue[s]
             r == received[s]
  <1>1. Take(s) /\ holding[s] = 0
    BY DEF Get, Resume, OrderInv
  <1>2. q \in Seq(Nat \ {0}) /\ q # <<>> /\ r \in Seq(Nat)
    BY <1>1 DEF Take, TypeOK
  <1>3. /\ holding'[s] = Head(q) /\ queue'[s] = Tail(q) /\ received'[s] = r
    BY <1>1 DEF Take, TypeOK, client
  <1>4. /\ Head(q) \in Nat \ {0}
        /\ Tail(q) \in Seq(Nat \ {0})
    BY <1>2, HeadTailProperties
  <1>5. Taken(s) = r \o <<>> /\ r \o <<>> = r
    BY <1>1, <1>2, ConcatEmptySeq DEF Taken, InHand
  <1>6. Taken(s)' = r \o <<Head(q)>>
    BY <1>3, <1>4 DEF Taken, InHand
  <1>7. q \in Seq(Nat)
    BY <1>2
  <1>8. (r \o <<Head(q)>>) \o Tail(q) = r \o q
    BY <1>2, <1>7, ConcatHeadTail
  <1>9. (Taken(s) \o queue[s])' = (r \o <<Head(q)>>) \o Tail(q)
    BY <1>3, <1>6
  <1> QED
    BY <1>3, <1>4, <1>5, <1>8, <1>9

LEMMA SendMoves ==
  ASSUME TypeOK, OrderInv, NEW s \in Streams, Send(s)
  PROVE  (Taken(s) \o queue[s])' = Taken(s) \o queue[s]
  <1>1. /\ holding[s] # 0 /\ holding[s] \in Nat /\ received[s] \in Seq(Nat)
        /\ holding'[s] = 0
        /\ received'[s] = Append(received[s], holding[s])
        /\ queue' = queue
    BY DEF Send, OrderInv, TypeOK
  <1>2. Taken(s) = received[s] \o <<holding[s]>>
    BY <1>1 DEF Taken, InHand
  <1>3. /\ Append(received[s], holding[s]) \in Seq(Nat)
        /\ Append(received[s], holding[s]) = received[s] \o <<holding[s]>>
    BY <1>1, AppendProperties, AppendIsConcat
  <1>4. Taken(s)' = Append(received[s], holding[s]) \o <<>>
    BY <1>1 DEF Taken, InHand
  <1>5. Taken(s)' = Taken(s)
    BY <1>2, <1>3, <1>4, ConcatEmptySeq
  <1> QED
    BY <1>1, <1>5

LEMMA UpToMore ==
  ASSUME NEW q \in Seq(Nat), NEW n \in Nat, UpTo(q, n)
  PROVE  UpTo(q, n + 1)
  <1>1. \A i \in 1 .. Len(q) : q[i] \in Nat /\ q[i] <= n
    BY DEF UpTo
  <1> QED
    BY <1>1 DEF UpTo

(* A step that leaves what s holds alone, and its generator consistent.    *)
OrderAt(s) ==
  /\ Increasing(Taken(s) \o queue[s])
  /\ UpTo(Taken(s) \o queue[s], Len(log))
  /\ pc[s] \in {"check", "parked"} => holding[s] = 0
  /\ pc[s] = "send" => holding[s] # 0
  /\ pc[s] = "new" => wants[s] = {} /\ queue[s] = <<>> /\ holding[s] = 0

LEMMA PublishOrder ==
  ASSUME TypeOK, OrderInv, NEW ch \in Channels, Publish(ch), NEW s \in Streams
  PROVE  OrderAt(s)'
  <1>1. OrderAt(s) /\ Len(log) \in Nat /\ Len(log') = Len(log) + 1
    BY AppendProperties DEF OrderInv, OrderAt, Publish, TypeOK
  <1>2. Taken(s)' = Taken(s) /\ pc' = pc /\ holding' = holding /\ wants' = wants
    BY DEF Publish, Taken, InHand
  <1>3. CASE ch \in wants[s]
    <2>1. queue'[s] = Enqueue(queue[s], Len(log) + 1)
      BY <1>1, <1>3 DEF Publish
    <2>2. Taken(s) \in Seq(Nat) /\ queue[s] \in Seq(Nat)
      BY TakenType
    <2>3. /\ Increasing(Taken(s) \o Enqueue(queue[s], Len(log) + 1))
          /\ UpTo(Taken(s) \o Enqueue(queue[s], Len(log) + 1), Len(log) + 1)
      BY <1>1, <2>2, EnqueueOrder DEF OrderAt
    <2> QED
      BY <1>1, <1>2, <1>3, <2>1, <2>3 DEF OrderAt
  <1>4. CASE ch \notin wants[s]
    <2>1. queue'[s] = queue[s]
      BY <1>4 DEF Publish
    <2>2. UpTo(Taken(s) \o queue[s], Len(log) + 1)
      BY <1>1, TakenType, UpToMore DEF OrderAt
    <2> QED
      BY <1>1, <1>2, <2>1, <2>2 DEF OrderAt
  <1> QED
    BY <1>3, <1>4

LEMMA StreamOrder ==
  ASSUME TypeOK, OrderInv, NEW s \in Streams,
         Open(s) \/ Generator(s) \/ Cancel(s) \/ Disconnect(s)
  PROVE  OrderAt(s)'
  <1>1. OrderAt(s)
    BY DEF OrderInv, OrderAt
  <1>2. CASE Get(s) \/ Resume(s)
    <2>1. /\ (Taken(s) \o queue[s])' = Taken(s) \o queue[s]
          /\ holding'[s] # 0
      BY <1>2, TakeMoves
    <2>2. pc'[s] = "send" /\ log' = log
      BY <1>2 DEF Get, Resume, Take, bus, TypeOK
    <2> QED
      BY <1>1, <2>1, <2>2 DEF OrderAt
  <1>3. CASE Send(s)
    <2>1. (Taken(s) \o queue[s])' = Taken(s) \o queue[s]
      BY <1>3, SendMoves
    <2>2. pc'[s] = "check" /\ log' = log /\ holding'[s] = 0
      BY <1>3 DEF Send, bus, TypeOK
    <2> QED
      BY <1>1, <2>1, <2>2 DEF OrderAt
  <1>4. CASE Park(s) \/ Heartbeat(s) \/ Open(s) \/ Close(s) \/ Cancel(s) \/ Disconnect(s)
    <2>1. UNCHANGED <<log, queue, holding, received>>
      BY <1>4 DEF Park, Heartbeat, Open, Close, Cancel, Unregister, Disconnect, bus, client
    <2>2. (Taken(s) \o queue[s])' = Taken(s) \o queue[s]
      BY <2>1 DEF Taken, InHand
    <2>3. /\ pc'[s] \in {"check", "parked"} => holding[s] = 0
          /\ pc'[s] = "send" => holding[s] # 0
          /\ pc'[s] # "new"
      BY <1>1, <1>4 DEF Park, Heartbeat, Open, Close, Cancel, Unregister, Disconnect, OrderAt, TypeOK
    <2> QED
      BY <1>1, <2>1, <2>2, <2>3 DEF OrderAt
  <1> QED
    BY <1>2, <1>3, <1>4 DEF Generator

LEMMA OtherStream ==
  ASSUME TypeOK, OrderInv, NEW s \in Streams, NEW t \in Streams, s # t,
         Open(s) \/ Generator(s) \/ Cancel(s) \/ Disconnect(s)
  PROVE  OrderAt(t)'
  <1>1. /\ queue'[t] = queue[t] /\ holding'[t] = holding[t] /\ received'[t] = received[t]
        /\ pc'[t] = pc[t] /\ wants'[t] = wants[t] /\ log' = log
    <2>1. CASE Get(s) \/ Resume(s) \/ Send(s)
      BY <2>1 DEF Get, Resume, Take, Send, bus, client, TypeOK
    <2>2. CASE Park(s) \/ Heartbeat(s) \/ Open(s) \/ Close(s) \/ Cancel(s) \/ Disconnect(s)
      BY <2>2 DEF Park, Heartbeat, Open, Close, Cancel, Unregister, Disconnect, bus, client, TypeOK
    <2> QED
      BY <2>1, <2>2 DEF Generator
  <1>2. (Taken(t) \o queue[t])' = Taken(t) \o queue[t]
    BY <1>1 DEF Taken, InHand
  <1> QED
    BY <1>1, <1>2 DEF OrderInv, OrderAt

LEMMA StepOrder == TypeOK /\ OrderInv /\ [Next]_vars => OrderInv'
  <1> SUFFICES ASSUME TypeOK, OrderInv, [Next]_vars, NEW t \in Streams
               PROVE  OrderAt(t)'
    BY DEF OrderInv, OrderAt
  <1>1. ASSUME NEW ch \in Channels, Publish(ch) PROVE OrderAt(t)'
    BY <1>1, PublishOrder
  <1>2. ASSUME NEW s \in Streams, Open(s) \/ Generator(s) \/ Cancel(s) \/ Disconnect(s)
        PROVE  OrderAt(t)'
    BY <1>2, StreamOrder, OtherStream
  <1>3. CASE UNCHANGED vars
    BY <1>3 DEF vars, bus, client, OrderInv, OrderAt, Taken, InHand
  <1> QED
    BY <1>1, <1>2, <1>3 DEF Next

LEMMA OrderInvariant == Spec => []OrderInv
  BY InitOrder, StepOrder, BusTypeCorrect, PTL DEF Spec

(* Every client sees messages in the order they were published and none    *)
(* twice, however often its queue overflows or its wait times out.         *)
THEOREM DeliveryInOrder == Spec => []InOrder
  <1>1. TypeOK /\ OrderInv => InOrder
    <2> SUFFICES ASSUME TypeOK, OrderInv, NEW s \in Streams,
                        NEW i \in DOMAIN Held(s), NEW j \in DOMAIN Held(s), i < j
                 PROVE  Held(s)[i] < Held(s)[j]
      BY DEF InOrder
    <2>1. Held(s) = Taken(s) \o queue[s] /\ Held(s) \in Seq(Nat)
      BY TakenType
    <2>2. Increasing(Held(s))
      BY <2>1 DEF OrderInv
    <2>3. DOMAIN Held(s) = 1 .. Len(Held(s))
      BY <2>1
    <2> QED
      BY <2>2, <2>3 DEF Increasing
  <1> QED
    BY <1>1, OrderInvariant, BusTypeCorrect, PTL

-----------------------------------------------------------------------------
(* What a slow client loses is older than all it keeps.                    *)

Newest(q, chans, channel, n) ==
  q # <<>> => \A m \in q[1] .. n :
    channel[m] \in chans => \E i \in 1 .. Len(q) : q[i] = m

NewestInv ==
  \A s \in Streams : Registered(s) => Newest(queue[s], wants[s], log, Len(log))

LEMMA QueueOrder ==
  ASSUME NEW t \in Seq(Nat), NEW q \in Seq(Nat), NEW n \in Nat,
         Increasing(t \o q), UpTo(t \o q, n)
  PROVE  Increasing(q) /\ UpTo(q, n)
  <1> DEFINE l == Len(t)
             k == Len(q)
             a == t \o q
  <1>1. /\ l \in Nat /\ k \in Nat /\ Len(a) = l + k
        /\ \A i \in 1 .. l + k : a[i] = IF i <= l THEN t[i] ELSE q[i - l]
    BY ConcatProperties
  <1>2. /\ \A i, j \in 1 .. Len(a) : i < j => a[i] < a[j]
        /\ \A i \in 1 .. Len(a) : a[i] <= n
    BY DEF Increasing, UpTo
  <1> HIDE DEF l, k, a
  <1>3. \A i \in 1 .. k : i + l \in 1 .. Len(a) /\ a[i + l] = q[i]
    BY <1>1
  <1>4. ASSUME NEW i \in 1 .. k, NEW j \in 1 .. k, i < j
        PROVE  q[i] < q[j]
    <2>1. i + l < j + l
      BY <1>1, <1>4
    <2> QED
      BY <1>2, <1>3, <2>1
  <1>5. ASSUME NEW i \in 1 .. k
        PROVE  q[i] <= n
    BY <1>2, <1>3
  <1> QED
    BY <1>4, <1>5 DEF Increasing, UpTo, k

LEMMA EnqueueNewest ==
  ASSUME NEW q \in Seq(Msg), NEW chans, NEW channel \in Seq(Channels), NEW ch \in Channels,
         NEW next \in Seq(Channels), next = Append(channel, ch),
         Increasing(q), UpTo(q, Len(channel)),
         Newest(q, chans, channel, Len(channel))
  PROVE  Newest(Enqueue(q, Len(channel) + 1), chans, next, Len(channel) + 1)
  <1> DEFINE n == Len(channel)
             k == Len(q)
             e == Enqueue(q, n + 1)
  <1>1. /\ n \in Nat
        /\ \A m \in 1 .. n : next[m] = channel[m]
    BY AppendProperties
  <1>2. /\ k \in Nat
        /\ \A i \in 1 .. k : q[i] \in Nat \ {0} /\ q[i] <= n
        /\ \A i, j \in 1 .. k : i < j => q[i] < q[j]
    BY DEF Increasing, UpTo, Msg
  <1>3. k > 0 => \A m \in q[1] .. n : channel[m] \in chans => \E i \in 1 .. k : q[i] = m
    BY DEF Newest
  <1>4. n + 1 \in Msg
    BY <1>1 DEF Msg
  (* e is the tail of q from some element on, and then the new message.    *)
  <1>5. \E d \in {0, 1} :
          /\ d <= k
          /\ Len(e) = k - d + 1
          /\ \A i \in 1 .. k - d : e[i] = q[i + d]
          /\ e[k - d + 1] = n + 1
    <2>1. CASE k < SUBSCRIBER_QUEUE_SIZE
      <3>1. /\ Len(e) = k + 1 /\ e[k + 1] = n + 1
            /\ \A i \in 1 .. k : e[i] = q[i]
        BY <1>4, <2>1, AppendProperties DEF Enqueue
      <3> HIDE DEF e, k
      <3> QED
        BY <1>2, <3>1
    <2>2. CASE ~ (k < SUBSCRIBER_QUEUE_SIZE)
      <3>1. q # <<>> /\ k >= 1
        BY <1>2, <2>2, SizesAssumption
      <3>2. /\ Tail(q) \in Seq(Msg) /\ Len(Tail(q)) = k - 1
            /\ \A i \in 1 .. k - 1 : Tail(q)[i] = q[i + 1]
        BY <3>1, HeadTailProperties
      <3>3. e = Append(Tail(q), n + 1)
        BY <2>2 DEF Enqueue
      <3>4. /\ Len(e) = k /\ e[k] = n + 1
            /\ \A i \in 1 .. k - 1 : e[i] = Tail(q)[i]
        <4>1. /\ Len(e) = Len(Tail(q)) + 1 /\ e[Len(Tail(q)) + 1] = n + 1
              /\ \A i \in 1 .. Len(Tail(q)) : e[i] = Tail(q)[i]
          BY <1>4, <3>2, <3>3, AppendProperties, SMTT(30)
        <4> HIDE DEF e, k
        <4> QED
          BY <1>2, <3>2, <4>1
      <3> HIDE DEF e, k
      <3>5. /\ Len(e) = k - 1 + 1 /\ e[k - 1 + 1] = n + 1
            /\ \A i \in 1 .. k - 1 : e[i] = q[i + 1]
        BY <1>2, <3>2, <3>4
      <3> QED
        BY <3>1, <3>5
    <2> QED
      BY <2>1, <2>2
  <1> HIDE DEF n, k, e
  <1>6. PICK d \in {0, 1} :
          /\ d <= k
          /\ Len(e) = k - d + 1
          /\ \A i \in 1 .. k - d : e[i] = q[i + d]
          /\ e[k - d + 1] = n + 1
    BY <1>5
  <1>7. ASSUME NEW m \in e[1] .. n + 1, next[m] \in chans
        PROVE  \E i \in 1 .. Len(e) : e[i] = m
    <2>1. CASE m = n + 1
      BY <1>2, <1>6, <2>1
    <2>2. CASE m # n + 1
      <3>1. e[1] # n + 1
        BY <1>1, <2>2
      <3>2. k - d >= 1 /\ e[1] = q[1 + d]
        BY <1>2, <1>6, <3>1
      <3>3. /\ q[1 + d] \in Nat \ {0} /\ q[1] \in Nat \ {0} /\ q[1] <= q[1 + d] /\ k > 0
        BY <1>2, <3>2
      <3>4. m \in q[1] .. n /\ m \in 1 .. n
        BY <1>1, <2>2, <3>2, <3>3
      <3>5. PICK i \in 1 .. k : q[i] = m
        BY <1>1, <1>3, <1>7, <3>3, <3>4
      <3>6. i >= 1 + d
        <4> SUFFICES ASSUME i < 1 + d PROVE FALSE
          BY <1>2
        <4>1. 1 + d \in 1 .. k
          BY <1>2, <3>2
        <4>2. q[i] < q[1 + d] /\ q[i] \in Nat
          BY <1>2, <4>1
        <4>3. q[1 + d] <= m /\ m \in Nat
          BY <1>1, <3>2, <3>3
        <4> QED
          BY <3>3, <3>5, <4>2, <4>3
      <3>7. i - d \in 1 .. k - d /\ i - d \in 1 .. Len(e)
        BY <1>2, <1>6, <3>6
      <3>8. e[i - d] = m
        BY <1>2, <1>6, <3>5, <3>7
      <3> QED
        BY <3>7, <3>8
    <2> QED
      BY <2>1, <2>2
  <1> QED
    BY <1>7 DEF Newest, e, n

LEMMA TailNewest ==
  ASSUME NEW q \in Seq(Msg), q # <<>>, NEW chans, NEW channel, NEW n \in Nat,
         Increasing(q), Newest(q, chans, channel, n)
  PROVE  Newest(Tail(q), chans, channel, n)
  <1> DEFINE k == Len(q)
             t == Tail(q)
  <1>1. /\ k \in Nat /\ k > 0 /\ Len(t) = k - 1
        /\ \A i \in 1 .. k - 1 : t[i] = q[i + 1]
    BY HeadTailProperties
  <1>2. /\ \A i \in 1 .. k : q[i] \in Nat \ {0}
        /\ \A i, j \in 1 .. k : i < j => q[i] < q[j]
    BY DEF Increasing, Msg
  <1>3. \A m \in q[1] .. n : channel[m] \in chans => \E i \in 1 .. k : q[i] = m
    BY DEF Newest
  <1>4. t # <<>> => k - 1 > 0
    BY <1>1, HeadTailProperties, EmptySeq
  <1> HIDE DEF k, t
  <1>5. ASSUME t # <<>>, NEW m \in t[1] .. n, channel[m] \in chans
        PROVE  \E i \in 1 .. Len(t) : t[i] = m
    <2>1. t[1] = q[2] /\ q[1] < q[2] /\ q[1] \in Nat /\ q[2] \in Nat
      BY <1>1, <1>2, <1>4, <1>5
    <2>2. PICK i \in 1 .. k : q[i] = m
      BY <1>3, <1>5, <2>1
    <2>3. i # 1
      BY <2>1, <2>2
    <2>4. i - 1 \in 1 .. k - 1
      BY <1>1, <2>3
    <2>5. t[i - 1] = m
      BY <1>1, <2>2, <2>4
    <2> QED
      BY <1>1, <2>4, <2>5
  <1> QED
    BY <1>5 DEF Newest, t

LEMMA InitNewest == Init => NewestInv
  BY DEF Init, NewestInv, Registered

LEMMA StepNewest == TypeOK /\ OrderInv /\ NewestInv /\ [Next]_vars => NewestInv'
  <1> SUFFICES ASSUME TypeOK, OrderInv, NewestInv, [Next]_vars,
                      NEW t \in Streams, wants'[t] # {}
               PROVE  Newest(queue'[t], wants'[t], log', Len(log'))
    BY DEF NewestInv, Registered, Newest
  <1>1. /\ queue[t] \in Seq(Msg) /\ log \in Seq(Channels) /\ Len(log) \in Nat
        /\ wants[t] # {} => Newest(queue[t], wants[t], log, Len(log))
    BY DEF TypeOK, Msg, NewestInv, Registered
  <1>2. Increasing(queue[t]) /\ UpTo(queue[t], Len(log))
    <2>1. Taken(t) \in Seq(Nat) /\ queue[t] \in Seq(Nat)
      BY TakenType
    <2> QED
      BY <1>1, <2>1, QueueOrder DEF OrderInv
  <1>3. ASSUME NEW ch \in Channels, Publish(ch)
        PROVE  Newest(queue'[t], wants'[t], log', Len(log'))
    <2>1. /\ log' = Append(log, ch) /\ log' \in Seq(Channels) /\ Len(log') = Len(log) + 1
          /\ \A m \in 1 .. Len(log) : log'[m] = log[m]
          /\ log'[Len(log) + 1] = ch
      BY <1>1, <1>3, AppendProperties DEF Publish
    <2>2. wants' = wants
      BY <1>3 DEF Publish
    <2>3. CASE ch \in wants[t]
      <3>1. queue'[t] = Enqueue(queue[t], Len(log) + 1)
        BY <1>3, <2>1, <2>3 DEF Publish
      <3>2. Newest(Enqueue(queue[t], Len(log) + 1), wants[t], log', Len(log) + 1)
        BY <1>1, <1>2, <2>1, <2>2, EnqueueNewest
      <3> QED
        BY <2>1, <2>2, <3>1, <3>2
    <2>4. CASE ch \notin wants[t]
      <3>1. queue'[t] = queue[t]
        BY <1>3, <2>4 DEF Publish
      <3>2. ASSUME queue[t] # <<>>, NEW m \in queue[t][1] .. Len(log) + 1, log'[m] \in wants[t]
            PROVE  \E i \in 1 .. Len(queue[t]) : queue[t][i] = m
        <4>1. queue[t][1] \in Nat \ {0}
          BY <1>1, <3>2 DEF Msg
        <4>2. m # Len(log) + 1
          BY <2>1, <2>4, <3>2
        <4>3. m \in queue[t][1] .. Len(log) /\ m \in 1 .. Len(log)
          BY <1>1, <4>1, <4>2
        <4> QED
          BY <1>1, <2>1, <2>2, <3>2, <4>3 DEF Newest
      <3> QED
        BY <2>1, <2>2, <3>1, <3>2 DEF Newest
    <2> QED
      BY <2>3, <2>4
  <1>4. ASSUME NEW s \in Streams, Get(s) \/ Resume(s)
        PROVE  Newest(queue'[t], wants'[t], log', Len(log'))
    <2>1. /\ Take(s) /\ log' = log /\ wants' = wants
          /\ queue' = [queue EXCEPT ![s] = Tail(@)] /\ queue[s] # <<>>
      BY <1>4 DEF Get, Resume, Take, bus
    <2>2. CASE t = s
      <3>1. queue'[t] = Tail(queue[t]) /\ queue[t] # <<>>
        BY <2>1, <2>2 DEF TypeOK
      <3> QED
        BY <1>1, <1>2, <2>1, <3>1, TailNewest
    <2>3. CASE t # s
      BY <1>1, <2>1, <2>3 DEF TypeOK
    <2> QED
      BY <2>2, <2>3
  <1>5. ASSUME NEW s \in Streams, Open(s)
        PROVE  Newest(queue'[t], wants'[t], log', Len(log'))
    <2>1. queue' = queue /\ log' = log
      BY <1>5 DEF Open, bus
    <2>2. CASE t = s
      BY <1>5, <2>1, <2>2 DEF Open, OrderInv, Newest
    <2>3. CASE t # s
      <3>1. wants'[t] = wants[t]
        BY <1>5, <2>3 DEF Open, TypeOK
      <3> QED
        BY <1>1, <2>1, <3>1
    <2> QED
      BY <2>2, <2>3
  <1>6. ASSUME NEW s \in Streams,
               Park(s) \/ Heartbeat(s) \/ Send(s) \/ Close(s) \/ Cancel(s) \/ Disconnect(s)
        PROVE  Newest(queue'[t], wants'[t], log', Len(log'))
    <2>1. queue' = queue /\ log' = log /\ wants'[t] \in {wants[t], {}}
      BY <1>6 DEF Park, Heartbeat, Send, Close, Cancel, Unregister, Disconnect, bus, TypeOK
    <2> QED
      BY <1>1, <2>1
  <1>7. CASE UNCHANGED vars
    BY <1>1, <1>7 DEF vars, bus
  <1> QED
    BY <1>3, <1>4, <1>5, <1>6, <1>7 DEF Next, Generator

(* Dropping the oldest keeps a live view recent: from the head of a        *)
(* client's queue on, no message of its channels is missing, whatever the  *)
(* bursts and however slow the client.                                     *)
THEOREM RecentActivity == Spec => []NewestKept
  <1>1. TypeOK /\ NewestInv => NewestKept
    <2> SUFFICES ASSUME TypeOK, NewestInv, NEW s \in Streams, Registered(s), queue[s] # <<>>,
                        NEW n \in Head(queue[s]) .. Len(log), log[n] \in wants[s]
                 PROVE  \E i \in DOMAIN queue[s] : queue[s][i] = n
      BY DEF NewestKept
    <2>1. Head(queue[s]) = queue[s][1] /\ DOMAIN queue[s] = 1 .. Len(queue[s])
      BY DEF TypeOK
    <2> QED
      BY <2>1 DEF NewestInv, Newest
  <1>2. Spec => []NewestInv
    BY InitNewest, StepNewest, BusTypeCorrect, OrderInvariant, PTL DEF Spec
  <1> QED
    BY <1>1, <1>2, BusTypeCorrect, PTL

-----------------------------------------------------------------------------
(* What the counter of dropped messages adds up to.                        *)

Least(s) == CHOOSE x \in s : TRUE

(* F adds up w over every part of S, an element at a time.                 *)
AddsUp(F, w, S) ==
  F = [s \in SUBSET S |-> IF s = {} THEN 0 ELSE w[Least(s)] + F[s \ {Least(s)}]]

LEMMA LeastNat ==
  ASSUME NEW T \in SUBSET Nat, T # {}
  PROVE  \E x \in T : \A y \in T : x <= y
  <1>1. PICK x \in T : \A y \in T : ~ (<<y, x>> \in OpToRel(<, Nat))
    BY NatLessThanWellFounded, WFMin
  <1>2. ASSUME NEW y \in T PROVE x <= y
    <2>1. y \in Nat /\ x \in Nat /\ ~ (y < x)
      BY <1>1 DEF OpToRel
    <2> QED
      BY <2>1
  <1> QED
    BY <1>2

LEMMA LeastOut ==
  ASSUME NEW s, IsFiniteSet(s), s # {}
  PROVE  /\ Least(s) \in s /\ IsFiniteSet(s \ {Least(s)})
         /\ Cardinality(s) \in Nat /\ Cardinality(s \ {Least(s)}) = Cardinality(s) - 1
         /\ Cardinality(s \ {Least(s)}) \in Nat
  <1>1. Least(s) \in s
    BY DEF Least
  <1> QED
    BY <1>1, FS_RemoveElement, FS_CardinalityType

(* A sum over a finite set is defined: for the parts of at most n elements *)
(* by those of fewer.                                                      *)
LEMMA SumExists ==
  ASSUME NEW S, IsFiniteSet(S), NEW w
  PROVE  \E F : AddsUp(F, w, S)
  <1> DEFINE Parts(n) == {s \in SUBSET S : Cardinality(s) <= n}
             Eq(F, D) == F = [s \in D |-> IF s = {} THEN 0
                                          ELSE w[Least(s)] + F[s \ {Least(s)}]]
             P(n) == \E F : Eq(F, Parts(n))
             T == {n \in Nat : ~ P(n)}
  <1>1. \A s \in SUBSET S : /\ IsFiniteSet(s) /\ Cardinality(s) \in Nat
                            /\ Cardinality(s) <= Cardinality(S)
                            /\ Cardinality(s) = 0 <=> s = {}
    BY FS_Subset, FS_CardinalityType, FS_EmptySet
  <1>2. P(0)
    <2>1. Eq([s \in Parts(0) |-> 0], Parts(0))
      <3>1. \A s \in Parts(0) : s = {}
        BY <1>1
      <3> QED
        BY <3>1
    <2> QED
      BY <2>1
  <1>3. ASSUME NEW n \in Nat, P(n) PROVE P(n + 1)
    <2>1. PICK F : Eq(F, Parts(n))
      BY <1>3
    <2>2. PICK G : G = [s \in Parts(n + 1) |-> IF s = {} THEN 0
                                               ELSE w[Least(s)] + F[s \ {Least(s)}]]
      OBVIOUS
    <2>3. ASSUME NEW s \in Parts(n + 1), s # {}
          PROVE  s \ {Least(s)} \in Parts(n)
      <3>1. IsFiniteSet(s) /\ Cardinality(s) <= n + 1
        BY <1>1
      <3>2. /\ Cardinality(s) \in Nat /\ Cardinality(s \ {Least(s)}) = Cardinality(s) - 1
        BY <2>3, <3>1, LeastOut
      <3> QED
        BY <3>1, <3>2
    <2>4. ASSUME NEW s \in Parts(n) PROVE G[s] = F[s]
      <3>1. s \in Parts(n + 1)
        BY <1>1
      <3> HIDE DEF Parts
      <3> QED
        BY <2>1, <2>2, <3>1
    <2>5. Eq(G, Parts(n + 1))
      <3> HIDE DEF Parts
      <3> QED
        BY <2>2, <2>3, <2>4
    <2> QED
      BY <2>5
  <1> HIDE DEF P
  <1>4. T = {}
    <2> SUFFICES ASSUME T # {} PROVE FALSE
      OBVIOUS
    <2>1. PICK m \in T : \A y \in T : m <= y
      BY LeastNat
    <2>2. m \in Nat /\ m # 0 /\ ~ P(m)
      BY <1>2
    <2>3. m - 1 \in Nat /\ ~ (m <= m - 1) /\ (m - 1) + 1 = m
      BY <2>2
    <2>4. P(m - 1)
      BY <2>1, <2>3
    <2> QED
      BY <1>3, <2>2, <2>3, <2>4
  <1>5. P(Cardinality(S))
    BY <1>1, <1>4
  <1>6. Parts(Cardinality(S)) = SUBSET S
    BY <1>1
  <1> QED
    BY <1>5, <1>6 DEF P, AddsUp

(* One more for every element of O.                                        *)
LEMMA SumMore ==
  ASSUME NEW S, IsFiniteSet(S), NEW O \in SUBSET S, NEW v, NEW w,
         \A x \in S : w[x] \in Int /\ v[x] = w[x] + (IF x \in O THEN 1 ELSE 0),
         NEW F, AddsUp(F, w, S), NEW G, AddsUp(G, v, S)
  PROVE  F[S] \in Int /\ G[S] = F[S] + Cardinality(O)
  <1> DEFINE Q(s) == F[s] \in Int /\ G[s] = F[s] + Cardinality(O \cap s)
             T == {n \in Nat : \E s \in SUBSET S : Cardinality(s) = n /\ ~ Q(s)}
  <1>1. \A s \in SUBSET S : IsFiniteSet(s) /\ Cardinality(s) \in Nat
    BY FS_Subset, FS_CardinalityType
  <1>2. T = {}
    <2> SUFFICES ASSUME T # {} PROVE FALSE
      OBVIOUS
    <2>1. PICK n \in T : \A y \in T : n <= y
      BY LeastNat
    <2>2. PICK s \in SUBSET S : Cardinality(s) = n /\ ~ Q(s)
      OBVIOUS
    <2>3. s # {}
      <3>1. F[{}] = 0 /\ G[{}] = 0
        BY DEF AddsUp
      <3>2. Cardinality(O \cap {}) = 0
        BY FS_EmptySet
      <3> QED
        BY <2>2, <3>1, <3>2
    <2>4. PICK x, r : x = Least(s) /\ r = s \ {x}
      OBVIOUS
    <2>5. /\ x \in s /\ r \in SUBSET S /\ n \in Nat
          /\ Cardinality(r) \in Nat /\ Cardinality(r) = n - 1
      BY <1>1, <2>2, <2>3, <2>4, LeastOut
    <2>6. Q(r)
      <3>1. ~ (n <= Cardinality(r))
        BY <2>5
      <3>2. Cardinality(r) \notin T
        BY <2>1, <3>1
      <3> QED
        BY <2>5, <3>2
    <2>7. F[s] = w[x] + F[r] /\ G[s] = v[x] + G[r]
      BY <2>3, <2>4 DEF AddsUp
    <2>8. Cardinality(O \cap s) = Cardinality(O \cap r) + (IF x \in O THEN 1 ELSE 0)
      <3>1. IsFiniteSet(O \cap r) /\ Cardinality(O \cap r) \in Nat
        BY <1>1, <2>5
      <3>2. CASE x \in O
        <4>1. O \cap s = (O \cap r) \cup {x} /\ x \notin O \cap r
          BY <2>4, <2>5, <3>2
        <4> QED
          BY <3>1, <3>2, <4>1, FS_AddElement
      <3>3. CASE x \notin O
        <4>1. O \cap s = O \cap r
          BY <2>4, <3>3
        <4> QED
          BY <3>1, <3>3, <4>1
      <3> QED
        BY <3>2, <3>3
    <2>9. Cardinality(O \cap r) \in Nat
      BY <1>1, <2>5
    <2>10. w[x] \in Int /\ v[x] = w[x] + (IF x \in O THEN 1 ELSE 0)
      BY <2>5
    <2>11. Q(s)
      <3> DEFINE c == Cardinality(O \cap r)
                 d == Cardinality(O \cap s)
      <3>1. c \in Nat /\ d = c + (IF x \in O THEN 1 ELSE 0)
        BY <2>8, <2>9
      <3>2. F[r] \in Int /\ G[r] = F[r] + c
        BY <2>6
      <3> HIDE DEF c, d
      <3>3. F[s] \in Int /\ G[s] = F[s] + d
        BY <2>7, <2>10, <3>1, <3>2
      <3> QED
        BY <3>3 DEF d
    <2> QED
      BY <2>2, <2>11
  <1>3. Q(S)
    BY <1>1, <1>2
  <1>4. O \cap S = O
    OBVIOUS
  <1> QED
    BY <1>3, <1>4

(* Nothing adds up to nothing.                                             *)
LEMMA SumOfNothing ==
  ASSUME NEW S, IsFiniteSet(S), NEW w, \A x \in S : w[x] = 0, NEW F, AddsUp(F, w, S)
  PROVE  F[S] = 0
  <1> DEFINE T == {n \in Nat : \E s \in SUBSET S : Cardinality(s) = n /\ F[s] # 0}
  <1>1. \A s \in SUBSET S : IsFiniteSet(s) /\ Cardinality(s) \in Nat
    BY FS_Subset, FS_CardinalityType
  <1>2. T = {}
    <2> SUFFICES ASSUME T # {} PROVE FALSE
      OBVIOUS
    <2>1. PICK n \in T : \A y \in T : n <= y
      BY LeastNat
    <2>2. PICK s \in SUBSET S : Cardinality(s) = n /\ F[s] # 0
      OBVIOUS
    <2>3. s # {}
      BY <2>2 DEF AddsUp
    <2>4. PICK x, r : x = Least(s) /\ r = s \ {x}
      OBVIOUS
    <2>5. /\ x \in s /\ r \in SUBSET S /\ n \in Nat
          /\ Cardinality(r) \in Nat /\ Cardinality(r) = n - 1
      BY <1>1, <2>2, <2>3, <2>4, LeastOut
    <2>6. ~ (n <= Cardinality(r))
      BY <2>5
    <2>7. Cardinality(r) \notin T
      BY <2>1, <2>6
    <2>8. F[r] = 0
      BY <2>5, <2>7
    <2>9. F[s] = w[x] + F[r] /\ w[x] = 0
      BY <2>3, <2>4, <2>5 DEF AddsUp
    <2> QED
      BY <2>2, <2>8, <2>9
  <1> QED
    BY <1>1, <1>2

(* What a stream lost: offered to it, and neither sent nor with it.        *)
Lost == [s \in Streams |-> offered[s] - Len(Held(s))]

SumsUp ==
  \E F : /\ AddsUp(F, Lost, Streams)
         /\ MapThenSumSet(LAMBDA s : offered[s] - Len(Held(s)), Streams) = F[Streams]

LEMMA SumOfLost == SumsUp
  <1> DEFINE Eq(G) == G = [s \in SUBSET Streams |->
                 IF s = {} THEN 0
                 ELSE (offered[Least(s)] - Len(Held(Least(s)))) + G[s \ {Least(s)}]]
             C == CHOOSE G : Eq(G)
  <1>1. MapThenSumSet(LAMBDA s : offered[s] - Len(Held(s)), Streams) = C[Streams]
    BY DEF MapThenSumSet, MapThenFoldSet, Least
  <1>2. \A s \in SUBSET Streams : s # {} => Least(s) \in s
    BY DEF Least
  <1>3. ASSUME NEW G PROVE Eq(G) <=> AddsUp(G, Lost, Streams)
    <2>1. \A s \in SUBSET Streams : s # {} =>
            Lost[Least(s)] = offered[Least(s)] - Len(Held(Least(s)))
      BY <1>2 DEF Lost
    <2> QED
      BY <2>1 DEF AddsUp
  <1>4. \E F : Eq(F)
    <2>1. PICK F : AddsUp(F, Lost, Streams)
      BY SumExists, StreamsAssumption
    <2> HIDE DEF Eq
    <2> QED
      BY <1>3, <2>1
  <1> HIDE DEF Eq
  <1>5. AddsUp(C, Lost, Streams)
    BY <1>3, <1>4
  <1> QED
    BY <1>1, <1>5 DEF SumsUp

LEMMA SumOfLostNext == SumsUp'
  BY SumOfLost, PTL

(* A step adds to the counter what the streams lose by it.                 *)
LEMMA LossCounted ==
  ASSUME TypeOK, Accounted, NEW O \in SUBSET Streams, dropped' = dropped + Cardinality(O),
         \A s \in Streams : Lost[s] \in Int /\ Lost'[s] = Lost[s] + (IF s \in O THEN 1 ELSE 0)
  PROVE  Accounted'
  <1>1. PICK F, w : /\ w = Lost /\ AddsUp(F, w, Streams)
                    /\ MapThenSumSet(LAMBDA s : offered[s] - Len(Held(s)), Streams) = F[Streams]
    BY SumOfLost DEF SumsUp
  <1>2. PICK G, v : /\ v = Lost' /\ AddsUp(G, v, Streams)
                    /\ MapThenSumSet(LAMBDA s : offered[s] - Len(Held(s)), Streams)' = G[Streams]
    BY SumOfLostNext DEF SumsUp, AddsUp
  <1>3. \A s \in Streams : w[s] \in Int /\ v[s] = w[s] + (IF s \in O THEN 1 ELSE 0)
    BY <1>1, <1>2
  <1>4. F[Streams] \in Int /\ G[Streams] = F[Streams] + Cardinality(O)
    <2>1. AddsUp(F, w, Streams) /\ AddsUp(G, v, Streams) /\ IsFiniteSet(Streams)
      BY <1>1, <1>2, StreamsAssumption
    <2> QED
      BY <1>3, <2>1, SumMore
  <1>5. dropped = F[Streams]
    BY <1>1 DEF Accounted
  <1>6. dropped' = G[Streams]
    BY <1>4, <1>5
  <1> QED
    BY <1>2, <1>6 DEF Accounted

(* Every other step leaves what the streams hold.                          *)
LEMMA HeldStays ==
  ASSUME TypeOK, OrderInv, NEW s \in Streams, NEW t \in Streams,
         Open(s) \/ Generator(s) \/ Cancel(s) \/ Disconnect(s)
  PROVE  (Taken(t) \o queue[t])' = Taken(t) \o queue[t]
  <1>2. CASE Get(s) \/ Resume(s)
    <2>1. CASE t = s
      BY <1>2, <2>1, TakeMoves
    <2>2. CASE t # s
      <3>1. /\ queue'[t] = queue[t] /\ holding'[t] = holding[t] /\ received'[t] = received[t]
        BY <1>2, <2>2 DEF Get, Resume, Take, client, TypeOK
      <3> QED
        BY <3>1 DEF Taken, InHand
    <2> QED
      BY <2>1, <2>2
  <1>3. CASE Send(s)
    <2>1. CASE t = s
      BY <1>3, <2>1, SendMoves
    <2>2. CASE t # s
      <3>1. /\ queue'[t] = queue[t] /\ holding'[t] = holding[t] /\ received'[t] = received[t]
        BY <1>3, <2>2 DEF Send, TypeOK
      <3> QED
        BY <3>1 DEF Taken, InHand
    <2> QED
      BY <2>1, <2>2
  <1>4. CASE Park(s) \/ Heartbeat(s) \/ Open(s) \/ Close(s) \/ Cancel(s) \/ Disconnect(s)
    <2>1. UNCHANGED <<queue, holding, received>>
      BY <1>4 DEF Park, Heartbeat, Open, Close, Cancel, Unregister, Disconnect, client
    <2> QED
      BY <2>1 DEF Taken, InHand
  <1> QED
    BY <1>2, <1>3, <1>4 DEF Generator

LEMMA HeldLength ==
  ASSUME TypeOK, NEW s \in Streams
  PROVE  /\ Held(s) = Taken(s) \o queue[s]
         /\ Len(Taken(s)) \in Nat /\ Len(queue[s]) \in Nat
         /\ Len(Held(s)) = Len(Taken(s)) + Len(queue[s])
         /\ Lost[s] = offered[s] - (Len(Taken(s)) + Len(queue[s])) /\ Lost[s] \in Int
  <1>1. Taken(s) \in Seq(Nat) /\ queue[s] \in Seq(Nat) /\ Held(s) = Taken(s) \o queue[s]
    BY TakenType
  <1>2. Len(Held(s)) = Len(Taken(s)) + Len(queue[s])
    BY <1>1, ConcatProperties
  <1>3. Len(Taken(s)) \in Nat /\ Len(queue[s]) \in Nat
    BY <1>1
  <1>4. Lost[s] = offered[s] - Len(Held(s)) /\ offered[s] \in Nat
    BY DEF Lost, TypeOK
  <1> QED
    BY <1>1, <1>2, <1>3, <1>4

Lengths ==
  \A s \in Streams :
    /\ Len(Taken(s)) \in Nat /\ Len(queue[s]) \in Nat
    /\ Lost[s] = offered[s] - (Len(Taken(s)) + Len(queue[s]))

LEMMA LengthsFit == TypeOK => Lengths
  BY HeldLength DEF Lengths

LEMMA LengthsFitNext == TypeOK' => Lengths'
  BY LengthsFit, PTL

LEMMA EnqueueLength ==
  ASSUME NEW q \in Seq(Msg), NEW m \in Msg
  PROVE  Len(Enqueue(q, m)) = IF Len(q) >= SUBSCRIBER_QUEUE_SIZE THEN Len(q) ELSE Len(q) + 1
  <1>0. SUBSCRIBER_QUEUE_SIZE \in Nat \ {0} /\ Len(q) \in Nat
    BY SizesAssumption
  <1>1. CASE Len(q) < SUBSCRIBER_QUEUE_SIZE
    BY <1>0, <1>1, AppendProperties DEF Enqueue
  <1>2. CASE ~ (Len(q) < SUBSCRIBER_QUEUE_SIZE)
    <2>1. q # <<>>
      BY <1>0, <1>2
    <2>2. Tail(q) \in Seq(Msg) /\ Len(Tail(q)) = Len(q) - 1
      BY <2>1, HeadTailProperties
    <2>3. Len(Append(Tail(q), m)) = Len(q)
      BY <1>0, <2>2, AppendProperties
    <2> QED
      BY <1>0, <1>2, <2>3 DEF Enqueue
  <1> QED
    BY <1>1, <1>2

(* A burst counts the streams whose oldest message it pushed out.          *)
LEMMA PublishAccounted ==
  ASSUME TypeOK, TypeOK', Accounted, NEW ch \in Channels, Publish(ch)
  PROVE  Accounted'
  <1>1. Overflowing(ch) \in SUBSET Streams /\ dropped' = dropped + Cardinality(Overflowing(ch))
    BY DEF Overflowing, Publish
  <1>2. ASSUME NEW s \in Streams
        PROVE  /\ Lost[s] \in Int
               /\ Lost'[s] = Lost[s] + (IF s \in Overflowing(ch) THEN 1 ELSE 0)
    <2>1. /\ offered[s] \in Nat /\ queue[s] \in Seq(Msg)
          /\ SUBSCRIBER_QUEUE_SIZE \in Nat
      BY SizesAssumption DEF TypeOK, Msg
    <2>2. Len(Taken(s))' = Len(Taken(s))
      BY DEF Publish, Taken, InHand
    <2>3. /\ Len(Taken(s)) \in Nat /\ Len(queue[s]) \in Nat /\ Lost[s] \in Int
          /\ Lost[s] = offered[s] - (Len(Taken(s)) + Len(queue[s]))
          /\ Len(queue'[s]) \in Nat
          /\ Lost'[s] = offered'[s] - (Len(Taken(s)) + Len(queue'[s]))
      BY <2>2, HeldLength, LengthsFitNext DEF Lengths
    <2>4. CASE ch \in wants[s]
      <3>1. Len(log') \in Msg
        BY AppendProperties DEF Publish, TypeOK, Msg
      <3>2. queue'[s] = Enqueue(queue[s], Len(log')) /\ offered'[s] = offered[s] + 1
        BY <2>4 DEF Publish
      <3>3. Len(queue'[s]) = IF s \in Overflowing(ch) THEN Len(queue[s]) ELSE Len(queue[s]) + 1
        BY <2>1, <2>4, <3>1, <3>2, EnqueueLength DEF Overflowing
      <3> QED
        BY <2>1, <2>3, <3>2, <3>3
    <2>5. CASE ch \notin wants[s]
      <3>1. queue'[s] = queue[s] /\ offered'[s] = offered[s] + 0 /\ s \notin Overflowing(ch)
        BY <2>5 DEF Publish, Overflowing
      <3> QED
        BY <2>1, <2>3, <3>1
    <2> QED
      BY <2>4, <2>5
  <1> QED
    BY <1>1, <1>2, LossCounted

LEMMA NothingLost ==
  ASSUME TypeOK, TypeOK', Accounted, UNCHANGED <<dropped, offered>>,
         \A s \in Streams : (Taken(s) \o queue[s])' = Taken(s) \o queue[s]
  PROVE  Accounted'
  <1>1. dropped' = dropped + Cardinality({}) /\ {} \in SUBSET Streams
    BY FS_EmptySet DEF TypeOK
  <1>2. ASSUME NEW s \in Streams
        PROVE  Lost[s] \in Int /\ Lost'[s] = Lost[s] + (IF s \in {} THEN 1 ELSE 0)
    <2>1. Lost[s] \in Int
      BY HeldLength
    <2>2. Held(s)' = Held(s)
      BY DEF Held, Taken, InHand
    <2>3. Lost'[s] = Lost[s]
      BY <2>2 DEF Lost
    <2> QED
      BY <2>1, <2>3
  <1> QED
    BY <1>1, <1>2, LossCounted

LEMMA StepAccounted ==
  TypeOK /\ TypeOK' /\ OrderInv /\ Accounted /\ [Next]_vars => Accounted'
  <1> SUFFICES ASSUME TypeOK, TypeOK', OrderInv, Accounted, [Next]_vars PROVE Accounted'
    OBVIOUS
  <1>1. ASSUME NEW ch \in Channels, Publish(ch) PROVE Accounted'
    BY <1>1, PublishAccounted
  <1>2. ASSUME NEW s \in Streams, Open(s) \/ Generator(s) \/ Cancel(s) \/ Disconnect(s)
        PROVE  Accounted'
    <2>1. UNCHANGED <<dropped, offered>>
      BY <1>2 DEF Generator, Get, Park, Resume, Take, Heartbeat, Send, Close, Cancel,
                  Unregister, Open, Disconnect, bus, client
    <2> QED
      BY <1>2, <2>1, HeldStays, NothingLost
  <1>3. CASE UNCHANGED vars
    <2>1. /\ \A s \in Streams : (Taken(s) \o queue[s])' = Taken(s) \o queue[s]
          /\ UNCHANGED <<dropped, offered>>
      BY <1>3 DEF vars, bus, client, Taken, InHand
    <2> QED
      BY <2>1, NothingLost
  <1> QED
    BY <1>1, <1>2, <1>3 DEF Next

LEMMA InitAccounted == Init => Accounted
  <1> SUFFICES ASSUME Init PROVE Accounted
    OBVIOUS
  <1>1. PICK F, w : /\ w = Lost /\ AddsUp(F, w, Streams)
                    /\ MapThenSumSet(LAMBDA s : offered[s] - Len(Held(s)), Streams) = F[Streams]
    BY SumOfLost DEF SumsUp
  <1>2. \A s \in Streams : w[s] = 0
    <2>1. ASSUME NEW s \in Streams PROVE Lost[s] = 0
      <3>1. Held(s) = <<>> /\ offered[s] = 0
        BY DEF Init, Held
      <3> QED
        BY <3>1 DEF Lost
    <2> QED
      BY <1>1, <2>1
  <1>3. F[Streams] = 0
    <2>1. AddsUp(F, w, Streams) /\ IsFiniteSet(Streams)
      BY <1>1, StreamsAssumption
    <2> QED
      BY <1>2, <2>1, SumOfNothing
  <1> QED
    BY <1>1, <1>3 DEF Init, Accounted

(* dropped_to_slow_clients is the number of messages that were published   *)
(* for streams and neither sent to them nor left with them, for any number *)
(* of streams, channels and messages and any queue size: none vanishes     *)
(* silently, a heartbeat racing a message included.                        *)
THEOREM LossesAreCounted == Spec => []Accounted
  <1>1. TypeOK /\ TypeOK' /\ OrderInv /\ Accounted /\ [Next]_vars => Accounted'
    BY StepAccounted
  <1> QED
    BY <1>1, InitAccounted, BusTypeCorrect, OrderInvariant, PTL DEF Spec

=============================================================================
