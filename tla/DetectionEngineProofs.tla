----------------------- MODULE DetectionEngineProofs -----------------------
(* Theorems about the detection cursor, its wake-ups and its incidents, for *)
(* every number of rows, sources, writers and callers of run_cycle.        *)
EXTENDS DetectionEngine, FiniteSetTheorems, WellFoundedInduction, TLAPS

-----------------------------------------------------------------------------
(* Maxima.                                                                 *)

LEMMA LeastNat ==
  ASSUME NEW T \in SUBSET Nat, T # {}
  PROVE  \E x \in T : \A y \in T : x <= y
  <1>1. PICK x \in T : \A y \in T : ~ (<<y, x>> \in OpToRel(<, Nat))
    BY NatLessThanWellFounded, WFMin
  <1>2. ASSUME NEW y \in T PROVE x <= y
    <2>1. y \in Nat /\ x \in Nat
      OBVIOUS
    <2>2. ~ (y < x)
      BY <1>1, <2>1 DEF OpToRel
    <2> QED
      BY <2>1, <2>2
  <1> QED
    BY <1>2

LEMMA MaxOfBounded ==
  ASSUME NEW S \in SUBSET Int, S # {}, NEW b \in Int, \A x \in S : x <= b
  PROVE  /\ Max(S) \in S
         /\ \A y \in S : Max(S) >= y
  <1> DEFINE T == {b - x : x \in S}
  <1>1. T \in SUBSET Nat /\ T # {}
    <2>1. \A x \in S : x \in Int /\ x <= b
      OBVIOUS
    <2>2. \A x \in S : b - x \in Nat
      BY <2>1
    <2> QED
      BY <2>2
  <1>2. PICK t \in T : \A y \in T : t <= y
    BY <1>1, LeastNat
  <1>3. PICK m \in S : t = b - m
    BY <1>2
  <1>4. ASSUME NEW y \in S
        PROVE  m >= y
    <2>1. b - y \in T
      OBVIOUS
    <2>2. t <= b - y
      BY <1>2, <2>1
    <2>3. m \in Int /\ y \in Int
      OBVIOUS
    <2> HIDE DEF T
    <2> QED
      BY <1>3, <2>2, <2>3
  <1> QED
    BY <1>3, <1>4 DEF Max

-----------------------------------------------------------------------------
(* Types.                                                                  *)

TargetedBy(w) == {w.target[ip] : ip \in DOMAIN w.target}

(* What a cycle is about to write refers to stored rows, and the incidents *)
(* it opens are numbered without a gap from those it read.                 *)
PlanOK(w) ==
  /\ w.new \in SUBSET committed /\ w.new # {}
  /\ w.now \in Nat
  /\ w.before \in Seq(Incident) /\ Len(w.before) <= Len(incidents)
  /\ DOMAIN w.target \subseteq Sources
  /\ \E n \in Nat : /\ TargetedBy(w) \subseteq 1 .. Len(w.before) + n
                    /\ Len(w.before) + 1 .. Len(w.before) + n \subseteq TargetedBy(w)
  /\ w.links \subseteq TargetedBy(w) \X committed
  /\ w.hits \in [Sources -> Nat]
  /\ w.totals \in [Sources -> Nat]

EngineInv ==
  /\ TypeOK
  /\ \A r \in DOMAIN rows : rows[r].at <= clock
  /\ DOMAIN work = Cycles
  /\ \A c \in Cycles : pc[c] = "work" => PlanOK(work[c])

LEMMA StoredRows ==
  ASSUME TypeOK
  PROVE  /\ DOMAIN rows = 1 .. Len(rows) /\ Len(rows) \in Nat
         /\ committed \subseteq DOMAIN rows
         /\ seen \subseteq DOMAIN rows
         /\ examined \subseteq DOMAIN rows
         /\ late \subseteq DOMAIN rows
         /\ \A r \in DOMAIN rows :
              /\ rows[r] \in Row
              /\ rows[r].ip \in Sources /\ rows[r].hot \in BOOLEAN
              /\ rows[r].at \in Nat /\ rows[r].time \in Int /\ rows[r].by \in Writers
  <1>1. rows \in Seq(Row)
    BY DEF TypeOK
  <1>2. DOMAIN rows = 1 .. Len(rows) /\ Len(rows) \in Nat
    BY <1>1
  <1>3. \A r \in DOMAIN rows : rows[r] \in Row
    BY <1>1, <1>2
  <1>4. /\ committed \subseteq DOMAIN rows /\ seen \subseteq DOMAIN rows
        /\ examined \subseteq DOMAIN rows /\ late \subseteq DOMAIN rows
    BY DEF TypeOK
  <1> QED
    BY <1>2, <1>3, <1>4 DEF Row

LEMMA FiniteRows ==
  ASSUME TypeOK, NEW S \in SUBSET committed
  PROVE  IsFiniteSet(S) /\ Cardinality(S) \in Nat
  <1>1. S \in SUBSET (1 .. Len(rows)) /\ Len(rows) \in Nat
    BY StoredRows
  <1>2. IsFiniteSet(1 .. Len(rows))
    BY <1>1, FS_Interval
  <1> QED
    BY <1>1, <1>2, FS_Subset, FS_CardinalityType

(* The stamp a cycle moves the cursor to is that of a row it read, and no   *)
(* row it read has a later one.                                            *)
LEMMA NewestOf ==
  ASSUME EngineInv, NEW S \in SUBSET committed, S # {}
  PROVE  /\ Newest(S) \in Nat
         /\ \E r \in S : Newest(S) = rows[r].at
         /\ \A r \in S : rows[r].at <= Newest(S)
  <1> DEFINE A == {rows[r].at : r \in S}
  <1>1. \A r \in S : rows[r].at \in Nat /\ rows[r].at <= clock
    BY StoredRows DEF EngineInv
  <1>2. A \in SUBSET Int /\ A # {} /\ \A a \in A : a <= clock
    BY <1>1
  <1>3. clock \in Int
    BY DEF EngineInv, TypeOK
  <1>4. Max(A) \in A /\ \A a \in A : Max(A) >= a
    <2> HIDE DEF A
    <2> QED
      BY <1>2, <1>3, MaxOfBounded
  <1>5. \A r \in S : rows[r].at <= Max(A)
    BY <1>1, <1>4
  <1> QED
    BY <1>1, <1>4, <1>5 DEF Newest

LEMMA BatchNotEmpty ==
  ASSUME TypeOK, Fresh # {}, NEW N \in Batches
  PROVE  N \in SUBSET committed /\ N # {}
  <1>1. N \in SUBSET committed
    BY DEF Batches, Fresh
  <1>2. N = Fresh \/ Cardinality(N) = Limit
    BY DEF Batches
  <1>3. Limit \in Nat \ {0}
    BY NumbersAssumption
  <1>4. Cardinality({}) = 0
    BY FS_EmptySet
  <1> QED
    BY <1>1, <1>2, <1>3, <1>4

LEMMA NumberedTargets ==
  ASSUME TypeOK, NEW S \in SUBSET Sources, NEW f \in Targets(S)
  PROVE  LET n == Cardinality(Opening(S))
             T == {f[ip] : ip \in S}
         IN  /\ DOMAIN f = S
             /\ n \in Nat
             /\ T \subseteq 1 .. Len(incidents) + n
             /\ Len(incidents) + 1 .. Len(incidents) + n \subseteq T
  <1> DEFINE n == Cardinality(Opening(S))
             T == {f[ip] : ip \in S}
  <1>1. n \in Nat
    <2>1. Opening(S) \in SUBSET Sources
      BY DEF Opening
    <2> QED
      BY <2>1, ActorsAssumption, FS_Subset, FS_CardinalityType
  <1>2. DOMAIN f = S
    BY DEF Targets
  <1>3. {f[ip] : ip \in Opening(S)} = Len(incidents) + 1 .. Len(incidents) + n
    BY DEF Targets
  <1>4. Len(incidents) \in Nat /\ DOMAIN incidents = 1 .. Len(incidents)
    BY DEF TypeOK
  <1>5. ASSUME NEW ip \in S PROVE f[ip] \in 1 .. Len(incidents) + n
    <2>1. CASE ip \in Opening(S)
      <3>1. f[ip] \in Len(incidents) + 1 .. Len(incidents) + n
        BY <1>3, <2>1
      <3> HIDE DEF n
      <3> QED
        BY <1>1, <1>4, <3>1
    <2>2. CASE ip \notin Opening(S)
      <3>1. f[ip] \in Current(ip)
        BY <2>2 DEF Targets
      <3>2. f[ip] \in 1 .. Len(incidents)
        BY <1>4, <3>1 DEF Current
      <3> HIDE DEF n
      <3> QED
        BY <1>1, <1>4, <3>2
    <2> QED
      BY <2>1, <2>2
  <1>6. Opening(S) \subseteq S
    BY DEF Opening
  <1> QED
    BY <1>1, <1>2, <1>3, <1>5, <1>6

LEMMA PlanIsOK ==
  ASSUME EngineInv, Fresh # {}, NEW N \in Batches, NEW f \in Targets(Cases(N))
  PROVE  PlanOK(Plan(N, f))
  <1> DEFINE w == Plan(N, f)
             S == Cases(N)
  <1> USE DEF EngineInv
  <1>1. N \in SUBSET committed /\ N # {}
    BY BatchNotEmpty
  <1>2. S \in SUBSET Sources
    <2>1. IpsOf(N) \subseteq Sources
      BY <1>1, StoredRows DEF IpsOf
    <2>2. IpsOf({r \in N : rows[r].hot}) \subseteq Sources
      BY <1>1, StoredRows DEF IpsOf
    <2> QED
      BY <2>1, <2>2 DEF Cases, Alerts
  <1>3. /\ w.new = N /\ w.now = clock /\ w.before = incidents /\ w.target = f
        /\ w.links = NewLinks(N, f)
    BY DEF Plan
  <1>4. w.now \in Nat /\ w.before \in Seq(Incident) /\ Len(w.before) <= Len(incidents)
    BY <1>3 DEF TypeOK
  <1>5. /\ DOMAIN w.target \subseteq Sources
        /\ TargetedBy(w) = {f[ip] : ip \in S}
        /\ \E n \in Nat : /\ TargetedBy(w) \subseteq 1 .. Len(w.before) + n
                          /\ Len(w.before) + 1 .. Len(w.before) + n \subseteq TargetedBy(w)
    <2> HIDE DEF S, w
    <2>0. f \in Targets(S)
      BY DEF S
    <2> DEFINE n == Cardinality(Opening(S))
    <2>1. /\ DOMAIN f = S /\ n \in Nat
          /\ {f[ip] : ip \in S} \subseteq 1 .. Len(incidents) + n
          /\ Len(incidents) + 1 .. Len(incidents) + n \subseteq {f[ip] : ip \in S}
      BY <1>2, <2>0, NumberedTargets
    <2>2. TargetedBy(w) = {f[ip] : ip \in S}
      BY <1>3, <2>1 DEF TargetedBy
    <2> HIDE DEF n
    <2> QED
      BY <1>2, <1>3, <2>1, <2>2
  <1>6. w.links \subseteq TargetedBy(w) \X committed
    <2>1. \A ip : Evidence(N, ip) \subseteq committed
      BY <1>1 DEF Evidence, Matched, Recent, From
    <2>2. DOMAIN f = S
      BY <1>2, NumberedTargets
    <2>3. \A ip \in DOMAIN f : f[ip] \in TargetedBy(w)
      BY <1>5, <2>2
    <2> HIDE DEF w, S
    <2> QED
      BY <1>3, <2>1, <2>3 DEF NewLinks
  <1>7. w.hits \in [Sources -> Nat] /\ w.totals \in [Sources -> Nat]
    <2>1. ASSUME NEW ip \in Sources
          PROVE  /\ Cardinality({r \in N : rows[r].ip = ip}) \in Nat
                 /\ Cardinality(From(ip)) \in Nat
                 /\ hits[ip] \in Nat
      <3>1. {r \in N : rows[r].ip = ip} \in SUBSET committed
        BY <1>1
      <3>2. From(ip) \in SUBSET committed
        BY DEF From
      <3>3. hits \in [Sources -> Nat]
        BY DEF TypeOK
      <3> QED
        BY <3>1, <3>2, <3>3, FiniteRows
    <2>2. /\ w.hits = [ip \in Sources |->
                         hits[ip] + Cardinality({r \in N : rows[r].ip = ip})]
          /\ w.totals = [ip \in Sources |-> Cardinality(From(ip))]
      BY DEF Plan
    <2> DEFINE k(ip) == Cardinality({r \in N : rows[r].ip = ip})
    <2>3. \A ip \in Sources : hits[ip] + k(ip) \in Nat
      <3>1. \A ip \in Sources : k(ip) \in Nat /\ hits[ip] \in Nat
        BY <2>1
      <3> HIDE DEF k
      <3> QED
        BY <3>1
    <2>4. [ip \in Sources |-> hits[ip] + k(ip)] \in [Sources -> Nat]
      <3> HIDE DEF k
      <3> QED
        BY <2>3
    <2>5. [ip \in Sources |-> Cardinality(From(ip))] \in [Sources -> Nat]
      BY <2>1
    <2> HIDE DEF w
    <2> QED
      BY <2>2, <2>4, <2>5
  <1> HIDE DEF w
  <1> QED
    BY <1>1, <1>3, <1>4, <1>5, <1>6, <1>7 DEF PlanOK, w

(* Incidents are numbered without a gap, whatever others committed since.  *)
LEMMA FiledType ==
  ASSUME EngineInv, NEW w, PlanOK(w)
  PROVE  /\ Filed(w) \in Seq(Incident)
         /\ Len(incidents) <= Len(Filed(w))
         /\ TargetedBy(w) \subseteq 1 .. Len(Filed(w))
  <1> DEFINE B == {Len(incidents)} \cup TargetedBy(w)
             M == Max(B)
  <1>1. /\ incidents \in Seq(Incident) /\ Len(incidents) \in Nat
        /\ DOMAIN incidents = 1 .. Len(incidents)
    BY DEF EngineInv, TypeOK
  <1>2. PICK n \in Nat : /\ TargetedBy(w) \subseteq 1 .. Len(w.before) + n
                         /\ Len(w.before) + 1 .. Len(w.before) + n \subseteq TargetedBy(w)
    BY DEF PlanOK
  <1>3. Len(w.before) \in Nat /\ Len(w.before) <= Len(incidents)
    BY DEF PlanOK
  <1>4. M \in B /\ \A b \in B : M >= b
    <2>1. B \in SUBSET Int /\ B # {} /\ Len(incidents) + n \in Int
      BY <1>1, <1>2
    <2>2. \A b \in B : b <= Len(incidents) + n
      BY <1>1, <1>2, <1>3
    <2> HIDE DEF B
    <2> QED
      BY <2>1, <2>2, MaxOfBounded
  <1>5. M \in Nat /\ Len(incidents) <= M /\ TargetedBy(w) \subseteq 1 .. M
    <2>1. M \in Nat
      BY <1>1, <1>2, <1>3, <1>4
    <2>2. Len(incidents) <= M
      BY <1>1, <1>4, <2>1
    <2>3. ASSUME NEW x \in TargetedBy(w) PROVE x \in 1 .. M
      <3>1. x \in 1 .. Len(w.before) + n
        BY <1>2
      <3>2. M >= x
        BY <1>4
      <3> HIDE DEF M
      <3> QED
        BY <1>2, <1>3, <2>1, <3>1, <3>2
    <2> QED
      BY <2>1, <2>2, <2>3
  <1>6. \A i \in 1 .. M : i \in DOMAIN incidents \/ i \in TargetedBy(w)
    <2> TAKE i \in 1 .. M
    <2>1. CASE M = Len(incidents)
      BY <1>1, <2>1
    <2>2. CASE M \in TargetedBy(w)
      <3>1. M <= Len(w.before) + n /\ M \in Nat
        BY <1>2, <1>3, <1>5, <2>2
      <3> HIDE DEF M
      <3> QED
        BY <1>1, <1>2, <1>3, <3>1
    <2> QED
      BY <1>4, <2>1, <2>2
  <1> DEFINE Hit(i) == \E ip \in DOMAIN w.target : w.target[ip] = i
             New(i) == [ip |-> CHOOSE ip \in DOMAIN w.target : w.target[ip] = i,
                        status |-> IF i \in DOMAIN incidents THEN incidents[i].status ELSE "open",
                        seen |-> w.now]
             El(i) == IF Hit(i) THEN New(i) ELSE incidents[i]
  <1>7. \A i \in DOMAIN incidents : incidents[i] \in Incident
    BY <1>1
  <1>8. \A i \in 1 .. M : El(i) \in Incident
    <2> TAKE i \in 1 .. M
    <2>1. CASE Hit(i)
      <3>1. (CHOOSE ip \in DOMAIN w.target : w.target[ip] = i) \in Sources
        BY <2>1 DEF PlanOK
      <3>2. w.now \in Nat
        BY DEF PlanOK
      <3>3. i \in DOMAIN incidents => incidents[i].status \in {"open", "closed", "reopened"}
        BY <1>7 DEF Incident
      <3> QED
        BY <2>1, <3>1, <3>2, <3>3 DEF Incident
    <2>2. CASE ~ Hit(i)
      <3>1. i \in DOMAIN incidents
        BY <1>6, <2>2 DEF TargetedBy
      <3> QED
        BY <1>7, <2>2, <3>1
    <2> QED
      BY <2>1, <2>2
  <1>9. Filed(w) = [i \in 1 .. M |-> El(i)]
    BY DEF Filed, TargetedBy
  <1> HIDE DEF M, El
  <1>10. Filed(w) \in Seq(Incident) /\ Len(Filed(w)) = M
    <2>1. Filed(w) \in [1 .. M -> Incident]
      BY <1>8, <1>9
    <2>2. Filed(w) \in Seq(Incident) /\ DOMAIN Filed(w) = 1 .. M
      BY <1>5, <2>1
    <2> QED
      BY <1>5, <2>2
  <1> QED
    BY <1>5, <1>10

LEMMA PlanStays ==
  ASSUME NEW c \in Cycles, PlanOK(work[c]), work'[c] = work[c],
         committed \subseteq committed',
         Len(incidents) \in Nat, Len(incidents') \in Nat, Len(incidents) <= Len(incidents')
  PROVE  PlanOK(work[c])'
  <1>1. Len(work[c].before) \in Nat /\ Len(work[c].before) <= Len(incidents)
    BY DEF PlanOK
  <1>2. Len(work'[c].before) <= Len(incidents')
    BY <1>1
  <1>3. TargetedBy(work'[c]) = TargetedBy(work[c])
    BY DEF TargetedBy
  <1>4. work'[c].links \subseteq TargetedBy(work'[c]) \X committed'
    BY <1>3 DEF PlanOK
  <1>5. \E n \in Nat : /\ TargetedBy(work'[c]) \subseteq 1 .. Len(work'[c].before) + n
                     /\ Len(work'[c].before) + 1 .. Len(work'[c].before) + n \subseteq TargetedBy(work'[c])
    BY <1>3 DEF PlanOK
  <1>6. TargetedBy(work[c])' = TargetedBy(work'[c])
    BY DEF TargetedBy
  <1> QED
    BY <1>2, <1>4, <1>5, <1>6 DEF PlanOK

LEMMA EngineInit == Init => EngineInv
  <1> SUFFICES ASSUME Init PROVE EngineInv
    OBVIOUS
  <1> USE DEF Init
  <1>1. rows \in Seq(Row) /\ incidents \in Seq(Incident)
    OBVIOUS
  <1>2. pc \in [Cycles -> {"idle", "start", "work", "wait", "debounce"}]
    OBVIOUS
  <1>3. disturbances \in 0 .. MaxDisturbances
    BY NumbersAssumption
  <1>4. \A c \in Cycles : pc[c] # "work"
    OBVIOUS
  <1>5. pending \in [Writers -> SUBSET DOMAIN rows]
    OBVIOUS
  <1>6. /\ {committed, seen, examined, late} \subseteq SUBSET DOMAIN rows
        /\ links \subseteq (DOMAIN incidents) \X (DOMAIN rows)
    OBVIOUS
  <1>7. hits \in [Sources -> Nat] /\ totals \in [Sources -> Nat]
    OBVIOUS
  <1>8. clock \in Nat /\ cursor \in Nat /\ notifying \in BOOLEAN /\ wakeup \in BOOLEAN
    OBVIOUS
  <1>9. TypeOK
    BY <1>1, <1>2, <1>3, <1>5, <1>6, <1>7, <1>8 DEF TypeOK
  <1> QED
    BY <1>4, <1>9 DEF EngineInv

LEMMA EngineStep == EngineInv /\ [Next]_vars => EngineInv'
  <1> SUFFICES ASSUME EngineInv, [Next]_vars PROVE EngineInv'
    OBVIOUS
  <1>0. /\ TypeOK
        /\ \A r \in DOMAIN rows : rows[r].at <= clock
        /\ DOMAIN work = Cycles
        /\ \A c \in Cycles : pc[c] = "work" => PlanOK(work[c])
        /\ incidents \in Seq(Incident) /\ Len(incidents) \in Nat
    BY DEF EngineInv, TypeOK
  <1> DEFINE PlansStay ==
        /\ \A c \in Cycles : pc'[c] = "work" => pc[c] = "work" /\ work'[c] = work[c]
        /\ committed \subseteq committed'
        /\ Len(incidents') \in Nat /\ Len(incidents) <= Len(incidents')
  <1>a. PlansStay => \A c \in Cycles : pc'[c] = "work" => PlanOK(work[c])'
    BY <1>0, PlanStays
  <1>1. ASSUME NEW w \in Writers, Stamp(w) PROVE EngineInv'
    <2>1. PICK ip \in Sources, hot \in BOOLEAN, lag \in Lags,
               t \in (IF WholeSeconds THEN {clock, clock + 1} ELSE {clock + 1}) :
            /\ clock' = t
            /\ rows' = Append(rows, [ip |-> ip, hot |-> hot, at |-> t, time |-> t - lag, by |-> w])
      BY <1>1 DEF Stamp
    <2> DEFINE e == [ip |-> ip, hot |-> hot, at |-> t, time |-> t - lag, by |-> w]
    <2>2. clock \in Nat /\ t \in Nat /\ clock <= t /\ lag \in Nat
      BY <1>0, NumbersAssumption DEF TypeOK
    <2>3. e \in Row
      BY <2>2 DEF Row
    <2>4. /\ rows \in Seq(Row) /\ Len(rows) \in Nat /\ DOMAIN rows = 1 .. Len(rows)
      BY <1>0 DEF TypeOK
    <2>5. /\ rows' \in Seq(Row) /\ Len(rows') = Len(rows) + 1
          /\ DOMAIN rows' = 1 .. Len(rows) + 1
          /\ \A r \in DOMAIN rows : rows'[r] = rows[r]
          /\ rows'[Len(rows) + 1] = e
      <3> HIDE DEF e
      <3>1. rows' = Append(rows, e)
        BY <2>1 DEF e
      <3> QED
        BY <2>3, <2>4, <3>1
    <2>6. DOMAIN rows \subseteq DOMAIN rows' /\ Len(rows') \in DOMAIN rows'
      BY <2>4, <2>5
    <2>7. pending' \in [Writers -> SUBSET DOMAIN rows']
      <3>1. pending \in [Writers -> SUBSET DOMAIN rows]
        BY <1>0 DEF TypeOK
      <3> QED
        BY <1>1, <2>6, <3>1 DEF Stamp
    <2>8. \A r \in DOMAIN rows' : rows'[r].at <= clock'
      <3> TAKE r \in DOMAIN rows'
      <3>1. CASE r \in DOMAIN rows
        <4>1. rows[r].at \in Nat /\ rows[r].at <= clock
          BY <1>0, <3>1, StoredRows
        <4> QED
          BY <2>1, <2>2, <2>5, <3>1, <4>1
      <3>2. CASE r \notin DOMAIN rows
        <4>1. r = Len(rows) + 1
          BY <2>4, <2>5, <3>2
        <4> QED
          BY <2>1, <2>2, <2>5, <4>1
      <3> QED
        BY <3>1, <3>2
    <2>9. TypeOK'
      <3>1. clock' \in Nat
        BY <2>1, <2>2
      <3>2. {committed', seen', examined', late'} \subseteq SUBSET DOMAIN rows'
        BY <1>0, <1>1, <2>6 DEF TypeOK, Stamp, store, running
      <3>3. links' \subseteq (DOMAIN incidents') \X (DOMAIN rows')
        BY <1>0, <1>1, <2>6 DEF TypeOK, Stamp, store
      <3> QED
        BY <1>0, <1>1, <2>5, <2>7, <3>1, <3>2, <3>3 DEF TypeOK, Stamp, store, running
    <2>10. PlansStay
      BY <1>0, <1>1 DEF Stamp, store, running
    <2> QED
      BY <1>0, <1>1, <1>a, <2>8, <2>9, <2>10 DEF EngineInv, Stamp, running
  <1>2. ASSUME NEW w \in Writers, CommitRows(w) PROVE EngineInv'
    <2>1. pending[w] \subseteq DOMAIN rows /\ late \subseteq DOMAIN rows
      BY <1>0 DEF TypeOK
    <2>2. TypeOK'
      <3>1. {committed', seen', examined', late'} \subseteq SUBSET DOMAIN rows'
        BY <1>0, <1>2, <2>1 DEF TypeOK, CommitRows, store, running
      <3>2. pending' \in [Writers -> SUBSET DOMAIN rows']
        BY <1>0, <1>2 DEF TypeOK, CommitRows
      <3>3. notifying' \in BOOLEAN
        BY <1>0, <1>2 DEF TypeOK, CommitRows
      <3> QED
        BY <1>0, <1>2, <3>1, <3>2, <3>3 DEF TypeOK, CommitRows, store, running
    <2>3. PlansStay
      BY <1>0, <1>2 DEF CommitRows, store, running
    <2> QED
      BY <1>0, <1>2, <1>a, <2>2, <2>3 DEF EngineInv, CommitRows, running
  <1>3. CASE Notify
    <2>1. TypeOK'
      BY <1>0, <1>3 DEF TypeOK, Notify, store
    <2>2. PlansStay
      BY <1>0, <1>3 DEF Notify, store
    <2> QED
      BY <1>0, <1>3, <1>a, <2>1, <2>2 DEF EngineInv, Notify
  <1>4. ASSUME NEW c \in Cycles, NothingNew(c) PROVE EngineInv'
    <2>1. Ended(c) \in {"wait", "idle"}
      BY DEF Ended
    <2>2. seen' \in SUBSET DOMAIN rows
      BY <1>0, <1>4 DEF TypeOK, NothingNew, Look
    <2>3. pc' \in [Cycles -> {"idle", "start", "work", "wait", "debounce"}]
      BY <1>0, <1>4, <2>1 DEF TypeOK, NothingNew
    <2>4. TypeOK'
      BY <1>0, <1>4, <2>2, <2>3 DEF TypeOK, NothingNew, store, writing
    <2>5. PlansStay
      BY <1>0, <1>4, <2>1 DEF TypeOK, NothingNew, store, writing
    <2> QED
      BY <1>0, <1>4, <1>a, <2>4, <2>5 DEF EngineInv, NothingNew, writing
  <1>5. ASSUME NEW c \in Cycles, Read(c) PROVE EngineInv'
    <2>1. PICK N \in Batches : \E f \in Targets(Cases(N)) :
            work' = [work EXCEPT ![c] = Plan(N, f)]
      BY <1>5 DEF Read
    <2>2. PICK f \in Targets(Cases(N)) : work' = [work EXCEPT ![c] = Plan(N, f)]
      BY <2>1
    <2>3. PlanOK(Plan(N, f))
      BY <1>5, PlanIsOK DEF Read
    <2>4. seen' \in SUBSET DOMAIN rows
      BY <1>0, <1>5 DEF TypeOK, Read, Look
    <2>5. pc' \in [Cycles -> {"idle", "start", "work", "wait", "debounce"}]
      BY <1>0, <1>5 DEF TypeOK, Read
    <2>6. TypeOK'
      BY <1>0, <1>5, <2>4, <2>5 DEF TypeOK, Read, store, writing
    <2>7. ASSUME NEW d \in Cycles, pc'[d] = "work" PROVE PlanOK(work[d])'
      <3>1. committed' = committed /\ incidents' = incidents
        BY <1>5 DEF Read, store, writing
      <3>2. CASE d = c
        <4>1. work'[d] = Plan(N, f)
          BY <1>0, <2>2, <3>2
        <4> QED
          BY <2>3, <3>1, <4>1 DEF PlanOK, TargetedBy
      <3>3. CASE d # c
        <4>1. pc[d] = "work" /\ work'[d] = work[d]
          BY <1>0, <1>5, <2>2, <2>7, <3>3 DEF TypeOK, Read
        <4> QED
          BY <1>0, <3>1, <4>1, PlanStays
      <3> QED
        BY <3>2, <3>3
    <2>8. DOMAIN work' = Cycles
      BY <1>0, <2>2
    <2> QED
      BY <1>0, <1>5, <2>6, <2>7, <2>8 DEF EngineInv, Read, writing
  <1>b. ASSUME NEW c \in Cycles, Finish(c)
        PROVE  /\ pc' \in [Cycles -> {"idle", "start", "work", "wait", "debounce"}]
               /\ DOMAIN work' = Cycles
               /\ \A d \in Cycles : pc'[d] = "work" => pc[d] = "work" /\ work'[d] = work[d]
               /\ UNCHANGED <<clock, rows, pending, committed, notifying, late, wakeup, seen>>
    <2>1. Ended(c) \in {"wait", "idle"}
      BY DEF Ended
    <2> QED
      BY <1>0, <1>b, <2>1 DEF TypeOK, Finish, writing
  <1>6. ASSUME NEW c \in Cycles, CommitCycle(c) PROVE EngineInv'
    <2> DEFINE w == work[c]
    <2>1. Finish(c) /\ pc[c] = "work" /\ PlanOK(w)
      BY <1>0, <1>6 DEF CommitCycle
    <2>2. /\ incidents' = Filed(w) /\ links' = links \cup w.links
          /\ hits' = Written(w.hits, hits, IpsOf(w.new))
          /\ totals' = Written(w.totals, totals, IpsOf(w.new))
          /\ cursor' = Newest(w.new) /\ examined' = examined \cup w.new
          /\ disturbances' = disturbances
      BY <1>6 DEF CommitCycle
    <2> HIDE DEF w
    <2>3. /\ incidents' \in Seq(Incident) /\ Len(incidents') \in Nat
          /\ Len(incidents) <= Len(incidents')
          /\ TargetedBy(w) \subseteq DOMAIN incidents'
          /\ DOMAIN incidents \subseteq DOMAIN incidents'
      BY <1>0, <2>1, <2>2, FiledType
    <2>4. links' \subseteq (DOMAIN incidents') \X (DOMAIN rows)
      <3>1. links \subseteq (DOMAIN incidents') \X (DOMAIN rows)
        BY <1>0, <2>3 DEF TypeOK
      <3>2. w.links \subseteq TargetedBy(w) \X committed
        BY <2>1 DEF PlanOK
      <3>3. committed \subseteq DOMAIN rows
        BY <1>0, StoredRows
      <3>4. w.links \subseteq (DOMAIN incidents') \X (DOMAIN rows)
        BY <2>3, <3>2, <3>3
      <3> QED
        BY <2>2, <3>1, <3>4
    <2>5. hits' \in [Sources -> Nat] /\ totals' \in [Sources -> Nat]
      <3>1. /\ hits \in [Sources -> Nat] /\ totals \in [Sources -> Nat]
            /\ w.hits \in [Sources -> Nat] /\ w.totals \in [Sources -> Nat]
        BY <1>0, <2>1 DEF TypeOK, PlanOK
      <3> QED
        BY <2>2, <3>1 DEF Written
    <2>6. cursor' \in Nat
      <3>1. w.new \in SUBSET committed /\ w.new # {}
        BY <2>1 DEF PlanOK
      <3> QED
        BY <2>2, <3>1, NewestOf
    <2>7. examined' \in SUBSET DOMAIN rows
      <3>1. w.new \subseteq committed
        BY <2>1 DEF PlanOK
      <3> QED
        BY <1>0, <2>2, <3>1, StoredRows
    <2>8. TypeOK'
      <3>1. UNCHANGED <<clock, rows, pending, committed, notifying, late, wakeup, seen>>
        BY <1>b, <2>1
      <3>2. pc' \in [Cycles -> {"idle", "start", "work", "wait", "debounce"}]
        BY <1>b, <2>1
      <3> QED
        BY <1>0, <2>2, <2>3, <2>4, <2>5, <2>6, <2>7, <3>1, <3>2 DEF TypeOK
    <2>9. PlansStay
      BY <1>0, <1>b, <2>1, <2>3
    <2> QED
      BY <1>0, <1>a, <1>b, <2>1, <2>8, <2>9 DEF EngineInv
  <1>7. ASSUME NEW c \in Cycles, Abort(c) \/ Fail(c) PROVE EngineInv'
    <2>1. Finish(c) /\ UNCHANGED store
      BY <1>7 DEF Abort, Fail, RollBack
    <2>2. disturbances' \in 0 .. MaxDisturbances
      BY <1>0, <1>7, NumbersAssumption DEF TypeOK, Abort, Fail, Disturb
    <2>3. TypeOK'
      <3>1. UNCHANGED <<clock, rows, pending, committed, notifying, late, wakeup, seen>>
        BY <1>b, <2>1
      <3>2. pc' \in [Cycles -> {"idle", "start", "work", "wait", "debounce"}]
        BY <1>b, <2>1
      <3> QED
        BY <1>0, <2>1, <2>2, <3>1, <3>2 DEF TypeOK, store
    <2>4. PlansStay
      BY <1>0, <1>b, <2>1 DEF store
    <2> QED
      BY <1>0, <1>a, <1>b, <2>1, <2>3, <2>4 DEF EngineInv
  <1>8. CASE Woken \/ Clear
    <2>1. TypeOK'
      BY <1>0, <1>8 DEF TypeOK, Woken, Clear, store, writing
    <2>2. PlansStay
      BY <1>0, <1>8 DEF TypeOK, Woken, Clear, store, writing
    <2> QED
      BY <1>0, <1>8, <1>a, <2>1, <2>2 DEF EngineInv, Woken, Clear, writing
  <1>9. ASSUME NEW c \in Cycles, ForceCycle(c) PROVE EngineInv'
    <2>1. disturbances' \in 0 .. MaxDisturbances
      BY <1>0, <1>9, NumbersAssumption DEF TypeOK, ForceCycle, Disturb
    <2>2. TypeOK'
      BY <1>0, <1>9, <2>1 DEF TypeOK, ForceCycle, store, writing
    <2>3. PlansStay
      BY <1>0, <1>9 DEF TypeOK, ForceCycle, store, writing
    <2> QED
      BY <1>0, <1>9, <1>a, <2>2, <2>3 DEF EngineInv, ForceCycle, writing
  <1>10. CASE Restart
    <2>1. disturbances' \in 0 .. MaxDisturbances
      BY <1>0, <1>10, NumbersAssumption DEF TypeOK, Restart, Disturb
    <2>2. TypeOK'
      BY <1>0, <1>10, <2>1 DEF TypeOK, Restart, store
    <2>3. PlansStay
      BY <1>0, <1>10 DEF Restart, store
    <2> QED
      BY <1>0, <1>10, <1>a, <2>2, <2>3 DEF EngineInv, Restart
  <1>11. ASSUME NEW i \in DOMAIN incidents, SetStatus(i) PROVE EngineInv'
    <2>1. disturbances' \in 0 .. MaxDisturbances
      BY <1>0, <1>11, NumbersAssumption DEF TypeOK, SetStatus, Disturb
    <2> DEFINE st == IF IsOpen(i) THEN "closed" ELSE "reopened"
    <2>2. /\ incidents' \in Seq(Incident) /\ Len(incidents') = Len(incidents)
          /\ DOMAIN incidents' = DOMAIN incidents
      <3>1. incidents[i] \in Incident /\ DOMAIN incidents = 1 .. Len(incidents)
        BY <1>0
      <3>2. [incidents[i] EXCEPT !.status = st] \in Incident
        BY <3>1 DEF Incident
      <3>3. incidents' = [incidents EXCEPT ![i] = [incidents[i] EXCEPT !.status = st]]
        BY <1>11 DEF SetStatus
      <3> HIDE DEF st
      <3> QED
        BY <1>0, <3>1, <3>2, <3>3
    <2>3. TypeOK'
      BY <1>0, <1>11, <2>1, <2>2 DEF TypeOK, SetStatus, writing, running
    <2>4. PlansStay
      BY <1>0, <1>11, <2>2 DEF SetStatus, writing, running
    <2> QED
      BY <1>0, <1>11, <1>a, <2>3, <2>4 DEF EngineInv, SetStatus, writing, running
  <1>12. CASE UNCHANGED vars
    <2>1. TypeOK'
      BY <1>0, <1>12 DEF TypeOK, vars, store, writing, running
    <2>2. PlansStay
      BY <1>0, <1>12 DEF vars, store, writing, running
    <2> QED
      BY <1>0, <1>12, <1>a, <2>1, <2>2 DEF EngineInv, vars, writing, running
  <1> QED
    BY <1>1, <1>2, <1>3, <1>4, <1>5, <1>6, <1>7, <1>8, <1>9, <1>10, <1>11, <1>12
    DEF Next, RunCycle

LEMMA EngineAlways == Spec => []EngineInv
  BY EngineInit, EngineStep, PTL DEF Spec

(* What the database, the loop and the cycles at work hold keeps its type,  *)
(* and an incident's links name incidents and rows that exist, however     *)
(* cycles overlap and numbers collide.                                     *)
THEOREM EngineTypeCorrect == Spec => []TypeOK
  <1>1. EngineInv => TypeOK
    BY DEF EngineInv
  <1> QED
    BY <1>1, EngineAlways, PTL

-----------------------------------------------------------------------------
(* Wake-ups.                                                               *)

(* From the cycle's read on, and not only while the loop waits, what the    *)
(* collector announced is in the snapshot or has set the wake-up.          *)
WakeInv ==
  /\ \A w \in Writers : \A r \in pending[w] : rows[r].by = w
  /\ pc["loop"] \in {"work", "wait"} /\ ~ wakeup =>
       \A r \in committed : rows[r].by = "collector" => r \in seen \/ notifying

(* A new row leaves the others as they were.                               *)
LEMMA StampKeepsRows ==
  ASSUME TypeOK, NEW w \in Writers, Stamp(w)
  PROVE  /\ Len(rows) \in Nat
         /\ DOMAIN rows = 1 .. Len(rows) /\ DOMAIN rows' = 1 .. Len(rows) + 1
         /\ \A r \in DOMAIN rows : rows'[r] = rows[r]
         /\ rows'[Len(rows) + 1].by = w
         /\ rows'[Len(rows) + 1].at \in {clock, clock + 1}
         /\ ~ WholeSeconds => rows'[Len(rows) + 1].at = clock + 1
         /\ pending' = [pending EXCEPT ![w] = @ \cup {Len(rows) + 1}]
  <1>1. PICK ip \in Sources, hot \in BOOLEAN, lag \in Lags,
             t \in (IF WholeSeconds THEN {clock, clock + 1} ELSE {clock + 1}) :
          rows' = Append(rows, [ip |-> ip, hot |-> hot, at |-> t, time |-> t - lag, by |-> w])
    BY DEF Stamp
  <1> DEFINE e == [ip |-> ip, hot |-> hot, at |-> t, time |-> t - lag, by |-> w]
  <1>2. rows \in Seq(Row) /\ Len(rows) \in Nat /\ DOMAIN rows = 1 .. Len(rows)
    BY DEF TypeOK
  <1>3. e.by = w /\ e.at = t
    OBVIOUS
  <1>4. /\ DOMAIN rows' = 1 .. Len(rows) + 1 /\ Len(rows') = Len(rows) + 1
        /\ \A r \in DOMAIN rows : rows'[r] = rows[r]
        /\ rows'[Len(rows) + 1] = e
    <2>1. rows' = Append(rows, e)
      BY <1>1
    <2> HIDE DEF e
    <2> QED
      BY <1>2, <2>1
  <1>5. pending' = [pending EXCEPT ![w] = @ \cup {Len(rows) + 1}]
    BY <1>4 DEF Stamp
  <1>6. t \in {clock, clock + 1} /\ (~ WholeSeconds => t = clock + 1)
    OBVIOUS
  <1> HIDE DEF e
  <1> QED
    BY <1>2, <1>3, <1>4, <1>5, <1>6

LEMMA WakeInit == Init => WakeInv
  BY DEF Init, WakeInv

LEMMA WakeStep == EngineInv /\ WakeInv /\ [Next]_vars => WakeInv'
  <1> SUFFICES ASSUME EngineInv, WakeInv, [Next]_vars PROVE WakeInv'
    OBVIOUS
  <1>0. /\ TypeOK
        /\ pc \in [Cycles -> {"idle", "start", "work", "wait", "debounce"}]
        /\ pending \in [Writers -> SUBSET DOMAIN rows]
        /\ committed \subseteq DOMAIN rows
        /\ "loop" \in Cycles /\ "collector" \in Writers
    BY ActorsAssumption, StoredRows DEF EngineInv, TypeOK
  <1>1. ASSUME NEW w \in Writers, Stamp(w) PROVE WakeInv'
    <2>1. /\ \A r \in DOMAIN rows : rows'[r] = rows[r]
          /\ rows'[Len(rows) + 1].by = w
          /\ pending' = [pending EXCEPT ![w] = @ \cup {Len(rows) + 1}]
      BY <1>0, <1>1, StampKeepsRows
    <2>2. ASSUME NEW v \in Writers, NEW r \in pending'[v] PROVE rows'[r].by = v
      <3>1. CASE r \in pending[v]
        BY <1>0, <2>1, <3>1 DEF WakeInv
      <3>2. CASE r \notin pending[v]
        BY <1>0, <2>1, <2>2, <3>2
      <3> QED
        BY <3>1, <3>2
    <2>3. UNCHANGED <<committed, notifying, pc, wakeup, seen>>
      BY <1>1 DEF Stamp, running
    <2> QED
      BY <1>0, <2>1, <2>2, <2>3 DEF WakeInv
  <1>2. ASSUME NEW w \in Writers, CommitRows(w) PROVE WakeInv'
    <2>1. \A v \in Writers : pending'[v] \subseteq pending[v]
      BY <1>0, <1>2 DEF CommitRows
    <2>2. UNCHANGED <<rows, pc, wakeup, seen>>
      BY <1>2 DEF CommitRows, running
    <2>3. ASSUME NEW r \in pending[w], rows[r].by = "collector" PROVE notifying'
      BY <1>2, <2>3 DEF CommitRows, WakeInv
    <2>4. notifying => notifying'
      BY <1>2 DEF CommitRows
    <2>5. committed' = committed \cup pending[w]
      BY <1>2 DEF CommitRows
    <2> QED
      BY <2>1, <2>2, <2>3, <2>4, <2>5 DEF WakeInv
  <1>3. CASE Notify
    BY <1>3 DEF Notify, WakeInv
  <1>4. ASSUME NEW c \in Cycles, NothingNew(c) \/ Read(c) PROVE WakeInv'
    <2>1. UNCHANGED <<rows, pending, committed, notifying, wakeup>> /\ Look(c)
      BY <1>4 DEF NothingNew, Read, writing
    <2>2. CASE c = "loop"
      BY <2>1, <2>2 DEF Look, WakeInv
    <2>3. CASE c # "loop"
      <3>1. pc'["loop"] = pc["loop"] /\ seen' = seen
        BY <1>0, <1>4, <2>3 DEF NothingNew, Read, Look
      <3> QED
        BY <2>1, <3>1 DEF WakeInv
    <2> QED
      BY <2>2, <2>3
  <1>5. ASSUME NEW c \in Cycles, CommitCycle(c) \/ Abort(c) \/ Fail(c) PROVE WakeInv'
    <2>1. pc[c] = "work" /\ Finish(c)
      BY <1>5 DEF CommitCycle, Abort, Fail, RollBack
    <2>2. UNCHANGED <<rows, pending, committed, notifying, wakeup, seen>>
      BY <2>1 DEF Finish, writing
    <2>3. pc'["loop"] \in {"work", "wait"} => pc["loop"] \in {"work", "wait"}
      BY <1>0, <2>1 DEF Finish
    <2> QED
      BY <2>2, <2>3 DEF WakeInv
  <1>6. CASE Woken \/ Clear
    <2>1. UNCHANGED <<rows, pending, committed, notifying>>
      BY <1>6 DEF Woken, Clear, writing
    <2>2. pc'["loop"] \notin {"work", "wait"}
      BY <1>0, <1>6 DEF Woken, Clear
    <2> QED
      BY <2>1, <2>2 DEF WakeInv
  <1>7. ASSUME NEW c \in Cycles, ForceCycle(c) PROVE WakeInv'
    <2>1. UNCHANGED <<rows, pending, committed, notifying, wakeup, seen>>
      BY <1>7 DEF ForceCycle, writing
    <2>2. pc'["loop"] \in {"work", "wait"} => pc["loop"] \in {"work", "wait"}
      BY <1>0, <1>7 DEF ForceCycle
    <2> QED
      BY <2>1, <2>2 DEF WakeInv
  <1>8. CASE Restart
    <2>1. rows' = rows /\ pending' = [w \in Writers |-> {}]
      BY <1>8 DEF Restart
    <2>2. pc'["loop"] = "start"
      BY <1>0, <1>8 DEF Restart
    <2> QED
      BY <2>1, <2>2 DEF WakeInv
  <1>9. ASSUME NEW i \in DOMAIN incidents, SetStatus(i) PROVE WakeInv'
    BY <1>9 DEF SetStatus, writing, running, WakeInv
  <1>10. CASE UNCHANGED vars
    BY <1>10 DEF vars, writing, running, WakeInv
  <1> QED
    BY <1>1, <1>2, <1>3, <1>4, <1>5, <1>6, <1>7, <1>8, <1>9, <1>10
    DEF Next, RunCycle

(* background_detection_loop clears its wake-up before the cycle and not    *)
(* after it, so that an announcement made during the cycle or the debounce *)
(* makes it run again: whoever else stores rows or runs cycles.            *)
THEOREM WakeupsAreKept == Spec => []NoLostWakeup
  <1>1. WakeInv => NoLostWakeup
    BY DEF WakeInv, NoLostWakeup
  <1>2. Spec => []WakeInv
    BY WakeInit, WakeStep, EngineAlways, PTL DEF Spec
  <1> QED
    BY <1>1, <1>2, PTL

-----------------------------------------------------------------------------
(* The cursor.                                                             *)

InOrder ==
  /\ \A r \in DOMAIN rows : rows[r].at >= 1
  /\ \A r, s \in DOMAIN rows : r < s => rows[r].at < rows[s].at
  /\ \A w \in Writers : \A s \in pending[w], r \in committed : r < s

(* Every row up to the one a cycle is about to move the cursor to is in    *)
(* its batch, or was examined before.                                      *)
WholeBatch(w) ==
  \A r \in committed : rows[r].at <= Newest(w.new) => r \in examined \cup w.new

CursorInv ==
  /\ InOrder
  /\ cursor = 0 \/ \E r \in committed : cursor = rows[r].at
  /\ NothingSkipped
  /\ \A c \in Cycles : pc[c] = "work" => WholeBatch(work[c])

LEMMA CursorInit == Init => CursorInv
  <1> SUFFICES ASSUME Init PROVE CursorInv
    OBVIOUS
  <1>1. \A c \in Cycles : pc[c] # "work"
    BY DEF Init
  <1>2. InOrder /\ NothingSkipped /\ cursor = 0
    BY DEF Init, InOrder, NothingSkipped
  <1> QED
    BY <1>1, <1>2 DEF CursorInv

(* A batch of the oldest fresh rows, cut where it may be, leaves out none  *)
(* as old as its newest: no two rows have the same stamp.                  *)
LEMMA BatchIsWhole ==
  ASSUME EngineInv, CursorInv, Fresh # {}, NEW N \in Batches, NEW f
  PROVE  WholeBatch(Plan(N, f))
  <1>1. N \in SUBSET committed /\ N # {}
    BY BatchNotEmpty DEF EngineInv
  <1>2. PICK n \in N : Newest(N) = rows[n].at
    BY <1>1, NewestOf
  <1>3. ASSUME NEW r \in committed, rows[r].at <= Newest(N) PROVE r \in examined \cup N
    <2>1. CASE r \in Fresh /\ r \notin N
      <3>1. rows[n].at <= rows[r].at
        BY <2>1 DEF Batches
      <3>2. /\ r \in DOMAIN rows /\ n \in DOMAIN rows /\ DOMAIN rows = 1 .. Len(rows)
            /\ rows[r].at \in Nat /\ rows[n].at \in Nat
        BY <1>1, StoredRows DEF EngineInv
      <3>3. rows[r].at = rows[n].at
        BY <1>2, <1>3, <3>1, <3>2
      <3>4. r = n
        BY <3>2, <3>3 DEF CursorInv, InOrder
      <3> QED
        BY <2>1, <3>4
    <2>2. CASE r \notin Fresh
      <3>1. rows[r].at \in Nat /\ cursor \in Nat
        BY StoredRows DEF EngineInv, TypeOK
      <3>2. rows[r].at <= cursor
        BY <2>2, <3>1 DEF Fresh
      <3> QED
        BY <3>2 DEF CursorInv, NothingSkipped
    <2> QED
      BY <2>1, <2>2
  <1>4. Plan(N, f).new = N
    BY DEF Plan
  <1> QED
    BY <1>3, <1>4 DEF WholeBatch

LEMMA CursorStep ==
  ASSUME Writers = {"collector"}, WholeSeconds = FALSE
  PROVE  EngineInv /\ EngineInv' /\ CursorInv /\ [Next]_vars => CursorInv'
  <1> SUFFICES ASSUME EngineInv, EngineInv', CursorInv, [Next]_vars PROVE CursorInv'
    OBVIOUS
  <1>0. /\ TypeOK /\ TypeOK'
        /\ pc \in [Cycles -> {"idle", "start", "work", "wait", "debounce"}]
        /\ DOMAIN work = Cycles
        /\ pending \in [Writers -> SUBSET DOMAIN rows]
        /\ committed \subseteq DOMAIN rows /\ DOMAIN rows = 1 .. Len(rows) /\ Len(rows) \in Nat
        /\ cursor \in Nat
        /\ \A r \in DOMAIN rows : rows[r].at \in Nat
        /\ \A c \in Cycles : pc[c] = "work" =>
             WholeBatch(work[c]) /\ work[c].new \in SUBSET committed /\ work[c].new # {}
    BY StoredRows DEF EngineInv, TypeOK, CursorInv, PlanOK
  <1> DEFINE Idle ==
        /\ UNCHANGED <<rows, committed, cursor, examined>>
        /\ \A w \in Writers : pending'[w] \subseteq pending[w]
        /\ \A c \in Cycles : pc'[c] = "work" => pc[c] = "work" /\ work'[c] = work[c]
  <1>a. ASSUME Idle PROVE CursorInv'
    <2>1. InOrder' /\ NothingSkipped'
      BY <1>a DEF CursorInv, InOrder, NothingSkipped
    <2>2. ASSUME NEW c \in Cycles, pc'[c] = "work" PROVE WholeBatch(work[c])'
      <3>1. WholeBatch(work[c]) /\ work'[c] = work[c]
        BY <1>0, <1>a, <2>2
      <3> QED
        BY <1>a, <3>1 DEF WholeBatch, Newest
    <2> QED
      BY <1>a, <2>1, <2>2 DEF CursorInv
  <1>1. ASSUME NEW w \in Writers, Stamp(w) PROVE CursorInv'
    <2>1. /\ DOMAIN rows' = 1 .. Len(rows) + 1
          /\ \A r \in DOMAIN rows : rows'[r] = rows[r]
          /\ rows'[Len(rows) + 1].at = clock + 1
          /\ pending' = [pending EXCEPT ![w] = @ \cup {Len(rows) + 1}]
      BY <1>0, <1>1, StampKeepsRows
    <2>2. UNCHANGED <<committed, cursor, examined, pc, work>>
      BY <1>1 DEF Stamp, store, running
    <2>3. \A r \in DOMAIN rows : rows[r].at <= clock /\ rows[r].at >= 1
      BY DEF EngineInv, CursorInv, InOrder
    <2>4. clock \in Nat
      BY <1>0 DEF TypeOK
    <2>5. InOrder'
      <3>1. \A r \in DOMAIN rows' : rows'[r].at >= 1
        BY <1>0, <2>1, <2>3, <2>4
      <3>2. ASSUME NEW r \in DOMAIN rows', NEW s \in DOMAIN rows', r < s
            PROVE rows'[r].at < rows'[s].at
        <4>1. r \in DOMAIN rows
          BY <1>0, <2>1, <3>2
        <4>2. CASE s \in DOMAIN rows
          BY <2>1, <3>2, <4>1, <4>2 DEF CursorInv, InOrder
        <4>3. CASE s \notin DOMAIN rows
          <5>1. s = Len(rows) + 1
            BY <1>0, <2>1, <4>3
          <5> QED
            BY <1>0, <2>1, <2>3, <2>4, <4>1, <5>1
        <4> QED
          BY <4>2, <4>3
      <3>3. ASSUME NEW v \in Writers, NEW s \in pending'[v], NEW r \in committed
            PROVE r < s
        <4>1. CASE s \in pending[v]
          BY <4>1 DEF CursorInv, InOrder
        <4>2. CASE s \notin pending[v]
          <5>1. s = Len(rows) + 1
            BY <1>0, <2>1, <3>3, <4>2
          <5> QED
            BY <1>0, <5>1
        <4> QED
          BY <4>1, <4>2
      <3> QED
        BY <2>2, <3>1, <3>2, <3>3 DEF InOrder
    <2>6. \A r \in committed : rows'[r] = rows[r]
      BY <1>0, <2>1
    <2>7. NothingSkipped' /\ (cursor' = 0 \/ \E r \in committed' : cursor' = rows'[r].at)
      BY <2>2, <2>6 DEF CursorInv, NothingSkipped
    <2>8. ASSUME NEW c \in Cycles, pc'[c] = "work" PROVE WholeBatch(work[c])'
      <3>1. WholeBatch(work[c]) /\ work[c].new \in SUBSET committed /\ work'[c] = work[c]
        BY <1>0, <2>2, <2>8
      <3>2. {rows[r].at : r \in work[c].new}' = {rows[r].at : r \in work[c].new}
        BY <2>6, <3>1
      <3>3. Newest(work[c].new)' = Newest(work[c].new)
        BY <3>2 DEF Newest
      <3> QED
        BY <2>2, <2>6, <3>1, <3>3 DEF WholeBatch
    <2> QED
      BY <2>5, <2>7, <2>8 DEF CursorInv
  <1>2. ASSUME NEW w \in Writers, CommitRows(w) PROVE CursorInv'
    <2>1. /\ committed' = committed \cup pending[w]
          /\ pending' = [pending EXCEPT ![w] = {}]
          /\ UNCHANGED <<rows, cursor, examined, pc, work>>
      BY <1>2 DEF CommitRows, store, running
    <2>2. \A v \in Writers : pending'[v] = {}
      BY <1>0, <2>1
    <2>3. InOrder'
      BY <2>1, <2>2 DEF CursorInv, InOrder
    <2>4. ASSUME NEW s \in pending[w], NEW r \in committed PROVE rows[r].at < rows[s].at
      <3>1. r < s /\ r \in DOMAIN rows /\ s \in DOMAIN rows
        BY <1>0 DEF CursorInv, InOrder
      <3> QED
        BY <3>1 DEF CursorInv, InOrder
    <2>5. ASSUME NEW r \in committed', rows'[r].at <= cursor' PROVE r \in examined'
      <3>1. CASE r \in committed
        BY <2>1, <2>5, <3>1 DEF CursorInv, NothingSkipped
      <3>2. CASE r \notin committed
        <4>1. r \in pending[w] /\ rows[r].at \in Nat /\ rows[r].at >= 1 /\ rows[r].at <= cursor
          BY <1>0, <2>1, <2>5, <3>2 DEF CursorInv, InOrder
        <4>2. PICK n \in committed : cursor = rows[n].at
          BY <1>0, <4>1 DEF CursorInv
        <4>3. rows[n].at < rows[r].at /\ rows[n].at \in Nat
          BY <1>0, <2>4, <4>1
        <4> QED
          BY <4>1, <4>2, <4>3
      <3> QED
        BY <3>1, <3>2
    <2>6. ASSUME NEW c \in Cycles, pc'[c] = "work" PROVE WholeBatch(work[c])'
      <3>1. WholeBatch(work[c]) /\ work[c].new \in SUBSET committed /\ work[c].new # {}
        BY <1>0, <2>1, <2>6
      <3>2. PICK n \in work[c].new : Newest(work[c].new) = rows[n].at
        BY <3>1, NewestOf
      <3>3. ASSUME NEW r \in committed', rows[r].at <= Newest(work[c].new)
            PROVE r \in examined \cup work[c].new
        <4>1. CASE r \in committed
          BY <3>1, <3>3, <4>1 DEF WholeBatch
        <4>2. CASE r \notin committed
          <5>1. r \in pending[w] /\ n \in committed
            BY <2>1, <3>1, <4>2
          <5>2. rows[n].at < rows[r].at /\ rows[n].at \in Nat /\ rows[r].at \in Nat
            BY <1>0, <2>4, <5>1
          <5> QED
            BY <3>2, <3>3, <5>2
        <4> QED
          BY <4>1, <4>2
      <3> QED
        BY <2>1, <3>3 DEF WholeBatch, Newest
    <2>7. cursor' = 0 \/ \E r \in committed' : cursor' = rows'[r].at
      BY <2>1 DEF CursorInv
    <2> QED
      BY <2>3, <2>5, <2>6, <2>7 DEF CursorInv, NothingSkipped
  <1>3. CASE Notify
    BY <1>3, <1>a DEF Notify, store
  <1>4. ASSUME NEW c \in Cycles, NothingNew(c) PROVE CursorInv'
    <2>1. Ended(c) # "work"
      BY DEF Ended
    <2>2. Idle
      BY <1>0, <1>4, <2>1 DEF NothingNew, store, writing
    <2> QED
      BY <1>a, <2>2
  <1>5. ASSUME NEW c \in Cycles, Read(c) PROVE CursorInv'
    <2>0. PICK N \in Batches : \E f \in Targets(Cases(N)) :
            work' = [work EXCEPT ![c] = Plan(N, f)]
      BY <1>5 DEF Read
    <2>1. PICK f \in Targets(Cases(N)) : work' = [work EXCEPT ![c] = Plan(N, f)]
      BY <2>0
    <2>2. UNCHANGED <<rows, pending, committed, cursor, examined>>
      BY <1>5 DEF Read, store, writing
    <2>3. WholeBatch(Plan(N, f))
      BY <1>5, BatchIsWhole DEF Read
    <2>4. ASSUME NEW d \in Cycles, pc'[d] = "work" PROVE WholeBatch(work[d])'
      <3>1. WholeBatch(work'[d])
        <4>1. CASE d = c
          BY <1>0, <2>1, <2>3, <4>1
        <4>2. CASE d # c
          BY <1>0, <1>5, <2>1, <2>4, <4>2 DEF Read
        <4> QED
          BY <4>1, <4>2
      <3> QED
        BY <2>2, <3>1 DEF WholeBatch, Newest
    <2> QED
      BY <2>2, <2>4 DEF CursorInv, InOrder, NothingSkipped
  <1>b. ASSUME NEW c \in Cycles, Finish(c)
        PROVE  /\ UNCHANGED <<rows, pending, committed>>
               /\ \A d \in Cycles : pc'[d] = "work" => pc[d] = "work" /\ work'[d] = work[d]
    <2>1. Ended(c) # "work"
      BY DEF Ended
    <2> QED
      BY <1>0, <1>b, <2>1 DEF Finish, writing
  <1>6. ASSUME NEW c \in Cycles, CommitCycle(c) PROVE CursorInv'
    <2>1. /\ Finish(c) /\ pc[c] = "work"
          /\ cursor' = Newest(work[c].new) /\ examined' = examined \cup work[c].new
      BY <1>6 DEF CommitCycle
    <2>2. WholeBatch(work[c]) /\ work[c].new \in SUBSET committed /\ work[c].new # {}
      BY <1>0, <2>1
    <2>3. UNCHANGED <<rows, pending, committed>>
      BY <1>b, <2>1
    <2>4. NothingSkipped'
      BY <2>1, <2>2, <2>3 DEF NothingSkipped, WholeBatch
    <2>5. \E r \in committed' : cursor' = rows'[r].at
      BY <2>1, <2>2, <2>3, NewestOf
    <2>6. ASSUME NEW d \in Cycles, pc'[d] = "work" PROVE WholeBatch(work[d])'
      <3>1. WholeBatch(work[d]) /\ work'[d] = work[d]
        BY <1>0, <1>b, <2>1, <2>6
      <3> QED
        BY <2>1, <2>3, <3>1 DEF WholeBatch, Newest
    <2> QED
      BY <2>3, <2>4, <2>5, <2>6 DEF CursorInv, InOrder
  <1>7. ASSUME NEW c \in Cycles, Abort(c) \/ Fail(c) PROVE CursorInv'
    <2>1. Finish(c) /\ UNCHANGED store
      BY <1>7 DEF Abort, Fail, RollBack
    <2> QED
      BY <1>a, <1>b, <2>1 DEF store
  <1>8. CASE Woken \/ Clear
    <2>1. Idle
      BY <1>0, <1>8 DEF Woken, Clear, store, writing
    <2> QED
      BY <1>a, <2>1
  <1>9. ASSUME NEW c \in Cycles, ForceCycle(c) PROVE CursorInv'
    <2>1. Idle
      BY <1>0, <1>9 DEF ForceCycle, store, writing
    <2> QED
      BY <1>a, <2>1
  <1>10. CASE Restart
    <2>1. Idle
      BY <1>0, <1>10 DEF Restart, store
    <2> QED
      BY <1>a, <2>1
  <1>11. ASSUME NEW i \in DOMAIN incidents, SetStatus(i) PROVE CursorInv'
    BY <1>11, <1>a DEF SetStatus, writing, running
  <1>12. CASE UNCHANGED vars
    BY <1>12, <1>a DEF vars, store, writing, running
  <1> QED
    BY <1>1, <1>2, <1>3, <1>4, <1>5, <1>6, <1>7, <1>8, <1>9, <1>10, <1>11, <1>12
    DEF Next, RunCycle

(* With one writer and stamps finer than the time between two rows, the    *)
(* strict comparison of run_cycle and its limit on a batch lose no event,  *)
(* however many cycles overlap, fail or are cut off.  The run same_second  *)
(* shows what whole seconds do, and OnlyLateSkipped what two writers do.   *)
THEOREM CursorSkipsNothing ==
  ASSUME Writers = {"collector"}, WholeSeconds = FALSE
  PROVE  Spec => []NothingSkipped
  <1>1. CursorInv => NothingSkipped
    BY DEF CursorInv
  <1>2. EngineInv /\ EngineInv' /\ CursorInv /\ [Next]_vars => CursorInv'
    BY CursorStep
  <1> QED
    BY <1>1, <1>2, CursorInit, EngineAlways, PTL DEF Spec
-----------------------------------------------------------------------------
(* What is filed.                                                          *)

IsDetection(d) == DOMAIN d = {"ip", "bucket", "last", "matched", "incident"}

(* A cycle has an incident of its own for each source, of that source if   *)
(* it was there; its hot rows and the rows of its new detections are       *)
(* linked to their source's, or will be.                                   *)
FilingOK(w) ==
  /\ \A ip, jp \in DOMAIN w.target : w.target[ip] = w.target[jp] => ip = jp
  /\ \A ip \in DOMAIN w.target :
       w.target[ip] \in 1 .. Len(w.before) => incidents[w.target[ip]].ip = ip
  /\ \A r \in w.new :
       rows[r].hot => /\ rows[r].ip \in DOMAIN w.target
                      /\ <<w.target[rows[r].ip], r>> \in links \cup w.links
  /\ \A d \in w.raised :
       /\ IsDetection(d)
       /\ d.ip \in DOMAIN w.target /\ d.incident = w.target[d.ip]
       /\ \A r \in d.matched : <<d.incident, r>> \in links \cup w.links

FilingInv ==
  /\ EvidenceFiled
  /\ \A d \in detections : IsDetection(d)
  /\ \A c \in Cycles : pc[c] = "work" => FilingOK(work[c])

(* Rows, links and the sources of incidents are as they were.              *)
NothingLost ==
  /\ \A r \in DOMAIN rows : rows'[r] = rows[r]
  /\ links \subseteq links'
  /\ DOMAIN incidents \subseteq DOMAIN incidents'
  /\ \A i \in DOMAIN incidents : incidents'[i].ip = incidents[i].ip

LEMMA OneTargetEach ==
  ASSUME EngineInv, NEW S \in SUBSET Sources, NEW f \in Targets(S)
  PROVE  \A ip, jp \in S : f[ip] = f[jp] => ip = jp
  <1> DEFINE O == Opening(S)
             T == Len(incidents) + 1 .. Len(incidents) + Cardinality(O)
             g == [ip \in O |-> f[ip]]
  <1>1. O \in SUBSET S
    BY DEF Opening
  <1>2. IsFiniteSet(O) /\ Cardinality(O) \in Nat
    BY <1>1, ActorsAssumption, FS_Subset, FS_CardinalityType
  <1>3. {f[ip] : ip \in O} = T
    BY DEF Targets
  <1>4. Len(incidents) \in Nat /\ DOMAIN incidents = 1 .. Len(incidents)
    BY DEF EngineInv, TypeOK
  <1>5. Cardinality(T) = Cardinality(O)
    <2> DEFINE n == Cardinality(O)
    <2>1. n \in Nat
      BY <1>2
    <2> HIDE DEF n
    <2>2. Cardinality(Len(incidents) + 1 .. Len(incidents) + n) = n
      BY <1>4, <2>1, FS_Interval
    <2> QED
      BY <2>2 DEF n
  <1> HIDE DEF T
  <1>6. g \in Surjection(O, T)
    BY <1>3 DEF Surjection
  <1>7. g \in Injection(O, T)
    BY <1>2, <1>5, <1>6, FS_SurjSameCardinalityImpliesInj
  <1>8. \A ip, jp \in O : f[ip] = f[jp] => ip = jp
    BY <1>7 DEF Injection, IsInjective
  <1>9. \A ip \in S \ O : f[ip] \in DOMAIN incidents /\ incidents[f[ip]].ip = ip
    BY DEF Targets, Current
  <1>10. \A ip \in O : f[ip] \notin DOMAIN incidents
    <2>1. \A ip \in O : f[ip] \in T
      BY <1>3
    <2> QED
      BY <1>2, <1>4, <2>1 DEF T
  <1> QED
    BY <1>8, <1>9, <1>10

LEMMA CasesAreSources ==
  ASSUME EngineInv, NEW N \in SUBSET committed
  PROVE  Cases(N) \in SUBSET Sources /\ Alerts(N) \subseteq Cases(N)
  <1>1. \A r \in N : rows[r].ip \in Sources
    BY StoredRows DEF EngineInv
  <1> QED
    BY <1>1 DEF Cases, Alerts, IpsOf

LEMMA PlanFiles ==
  ASSUME EngineInv, Fresh # {}, NEW N \in Batches, NEW f \in Targets(Cases(N))
  PROVE  FilingOK(Plan(N, f))
  <1> DEFINE w == Plan(N, f)
  <1>1. N \in SUBSET committed
    BY BatchNotEmpty DEF EngineInv
  <1>2. Cases(N) \in SUBSET Sources /\ Alerts(N) \subseteq Cases(N)
    BY <1>1, CasesAreSources
  <1>3. DOMAIN f = Cases(N)
    BY DEF Targets
  <1>4. /\ w.new = N /\ w.before = incidents /\ w.target = f /\ w.links = NewLinks(N, f)
        /\ w.raised = {[ip |-> ip, bucket |-> Bucket(LastOf(ip)), last |-> LastOf(ip),
                        matched |-> Matched(ip), incident |-> f[ip]] : ip \in Alerts(N)}
    BY DEF Plan
  <1> HIDE DEF w
  <1>5. \A ip, jp \in DOMAIN w.target : w.target[ip] = w.target[jp] => ip = jp
    BY <1>2, <1>3, <1>4, OneTargetEach
  <1>6. ASSUME NEW ip \in DOMAIN w.target, w.target[ip] \in 1 .. Len(w.before)
        PROVE  incidents[w.target[ip]].ip = ip
    <2>1. f[ip] \in 1 .. Len(incidents) /\ ip \in Cases(N) /\ Len(incidents) \in Nat
      BY <1>3, <1>4, <1>6 DEF EngineInv, TypeOK
    <2>2. CASE ip \in Opening(Cases(N))
      <3>1. f[ip] \in Len(incidents) + 1 .. Len(incidents) + Cardinality(Opening(Cases(N)))
        BY <2>2 DEF Targets
      <3>2. Cardinality(Opening(Cases(N))) \in Nat
        BY <1>2, NumberedTargets DEF EngineInv
      <3> QED
        BY <2>1, <3>1, <3>2
    <2>3. CASE ip \notin Opening(Cases(N))
      BY <1>4, <2>1, <2>3 DEF Targets, Current
    <2> QED
      BY <2>2, <2>3
  <1>7. \A ip \in DOMAIN f : \A r \in Evidence(N, ip) : <<f[ip], r>> \in links \cup w.links
    <2> DEFINE U == UNION {{f[ip]} \X Evidence(N, ip) : ip \in DOMAIN f}
    <2>0. w.links = U \ links
      BY <1>4 DEF NewLinks
    <2> TAKE ip \in DOMAIN f
    <2> TAKE r \in Evidence(N, ip)
    <2>1. <<f[ip], r>> \in {f[ip]} \X Evidence(N, ip)
      OBVIOUS
    <2>2. <<f[ip], r>> \in U
      BY <2>1
    <2> HIDE DEF U
    <2> QED
      BY <2>0, <2>2
  <1>8. ASSUME NEW r \in w.new, rows[r].hot
        PROVE  /\ rows[r].ip \in DOMAIN w.target
               /\ <<w.target[rows[r].ip], r>> \in links \cup w.links
    <2>1. rows[r].ip \in Cases(N) /\ r \in Evidence(N, rows[r].ip)
      BY <1>4, <1>8 DEF Cases, IpsOf, Evidence
    <2> QED
      BY <1>3, <1>4, <1>7, <2>1
  <1>9. ASSUME NEW d \in w.raised
        PROVE  /\ IsDetection(d)
               /\ d.ip \in DOMAIN w.target /\ d.incident = w.target[d.ip]
               /\ \A r \in d.matched : <<d.incident, r>> \in links \cup w.links
    <2>1. PICK ip \in Alerts(N) :
            d = [ip |-> ip, bucket |-> Bucket(LastOf(ip)), last |-> LastOf(ip),
                 matched |-> Matched(ip), incident |-> f[ip]]
      BY <1>4
    <2>2. IsDetection(d) /\ d.ip = ip /\ d.matched = Matched(ip) /\ d.incident = f[ip]
      BY <2>1 DEF IsDetection
    <2>3. ip \in DOMAIN f /\ Matched(ip) \subseteq Evidence(N, ip)
      BY <1>2, <1>3 DEF Evidence
    <2> QED
      BY <1>4, <1>7, <2>2, <2>3
  <1> QED
    BY <1>5, <1>6, <1>8, <1>9 DEF FilingOK, w

(* Another cycle's plans, and what is filed, survive a step that loses     *)
(* nothing.                                                                *)
LEMMA FilingStays ==
  ASSUME EngineInv, NEW c \in Cycles, pc[c] = "work", FilingOK(work[c]), work'[c] = work[c],
         NothingLost
  PROVE  FilingOK(work[c])'
  <1> DEFINE w == work[c]
  <1>1. /\ w.new \in SUBSET DOMAIN rows
        /\ Len(w.before) \in Nat /\ Len(w.before) <= Len(incidents)
    BY StoredRows DEF EngineInv, PlanOK
  <1>2. DOMAIN incidents = 1 .. Len(incidents) /\ Len(incidents) \in Nat
    BY DEF EngineInv, TypeOK
  <1>3. 1 .. Len(w.before) \subseteq DOMAIN incidents
    BY <1>1, <1>2
  <1>4. /\ \A r \in w.new : rows'[r] = rows[r]
        /\ \A i \in 1 .. Len(w.before) : incidents'[i].ip = incidents[i].ip
        /\ links \subseteq links'
    BY <1>1, <1>3 DEF NothingLost
  <1> QED
    BY <1>4 DEF FilingOK

LEMMA FiledStays ==
  ASSUME EngineInv, EvidenceFiled, NothingLost
  PROVE  /\ \A r \in examined :
              rows'[r].hot => \E i \in DOMAIN incidents' :
                                <<i, r>> \in links' /\ incidents'[i].ip = rows'[r].ip
         /\ \A d \in detections :
              /\ d.incident \in DOMAIN incidents' /\ incidents'[d.incident].ip = d.ip
              /\ \A r \in d.matched : <<d.incident, r>> \in links'
  <1>1. \A r \in examined : rows'[r] = rows[r]
    BY StoredRows DEF EngineInv, NothingLost
  <1>2. ASSUME NEW r \in examined, rows'[r].hot
        PROVE  \E i \in DOMAIN incidents' : <<i, r>> \in links' /\ incidents'[i].ip = rows'[r].ip
    <2>1. PICK i \in DOMAIN incidents : <<i, r>> \in links /\ incidents[i].ip = rows[r].ip
      BY <1>1, <1>2 DEF EvidenceFiled
    <2> QED
      BY <1>1, <2>1 DEF NothingLost
  <1>3. ASSUME NEW d \in detections
        PROVE  /\ d.incident \in DOMAIN incidents' /\ incidents'[d.incident].ip = d.ip
               /\ \A r \in d.matched : <<d.incident, r>> \in links'
    BY DEF EvidenceFiled, NothingLost
  <1> QED
    BY <1>2, <1>3

LEMMA FilingQuiet ==
  ASSUME EngineInv, FilingInv, NothingLost, UNCHANGED <<examined, detections>>,
         \A c \in Cycles : pc'[c] = "work" => pc[c] = "work" /\ work'[c] = work[c]
  PROVE  FilingInv'
  <1>1. EvidenceFiled'
    BY FiledStays DEF FilingInv, EvidenceFiled
  <1>2. \A c \in Cycles : pc'[c] = "work" => FilingOK(work[c])'
    BY FilingStays DEF FilingInv
  <1> QED
    BY <1>1, <1>2 DEF FilingInv

(* An incident keeps its source when a cycle that is not refused files     *)
(* under it, and a new one has the source it was opened for.               *)
LEMMA FiledIps ==
  ASSUME EngineInv, NEW w, PlanOK(w), FilingOK(w), ~ Duplicate(w)
  PROVE  /\ DOMAIN incidents \subseteq DOMAIN Filed(w)
         /\ \A i \in DOMAIN incidents : Filed(w)[i].ip = incidents[i].ip
         /\ \A ip \in DOMAIN w.target :
              /\ w.target[ip] \in DOMAIN Filed(w)
              /\ Filed(w)[w.target[ip]].ip = ip
              /\ Filed(w)[w.target[ip]].seen = w.now
              /\ Filed(w)[w.target[ip]].status =
                   IF w.target[ip] \in DOMAIN incidents THEN incidents[w.target[ip]].status ELSE "open"
         /\ \A i \in DOMAIN Filed(w) :
              (\A ip \in DOMAIN w.target : w.target[ip] # i) => Filed(w)[i] = incidents[i]
  <1>1. /\ Filed(w) \in Seq(Incident)
        /\ Len(incidents) <= Len(Filed(w)) /\ TargetedBy(w) \subseteq 1 .. Len(Filed(w))
    BY FiledType
  <1>2. /\ DOMAIN incidents = 1 .. Len(incidents) /\ Len(incidents) \in Nat
        /\ DOMAIN Filed(w) = 1 .. Len(Filed(w)) /\ Len(Filed(w)) \in Nat
        /\ Len(w.before) \in Nat
    BY <1>1 DEF EngineInv, TypeOK, PlanOK
  <1>3. \A i \in DOMAIN Filed(w) :
          Filed(w)[i] = IF \E ip \in DOMAIN w.target : w.target[ip] = i
                        THEN [ip |-> CHOOSE ip \in DOMAIN w.target : w.target[ip] = i,
                              status |-> IF i \in DOMAIN incidents THEN incidents[i].status ELSE "open",
                              seen |-> w.now]
                        ELSE incidents[i]
    BY DEF Filed
  <1>4. ASSUME NEW ip \in DOMAIN w.target
        PROVE  /\ w.target[ip] \in DOMAIN Filed(w)
               /\ Filed(w)[w.target[ip]].ip = ip
               /\ Filed(w)[w.target[ip]].seen = w.now
               /\ Filed(w)[w.target[ip]].status =
                    IF w.target[ip] \in DOMAIN incidents THEN incidents[w.target[ip]].status ELSE "open"
    <2> DEFINE i == w.target[ip]
    <2>1. i \in DOMAIN Filed(w)
      BY <1>1, <1>2 DEF TargetedBy
    <2>2. (CHOOSE jp \in DOMAIN w.target : w.target[jp] = i) = ip
      <3>1. \A jp \in DOMAIN w.target : w.target[jp] = i => jp = ip
        BY DEF FilingOK
      <3> QED
        BY <3>1
    <2>3. Filed(w)[i] = [ip |-> ip,
                         status |-> IF i \in DOMAIN incidents THEN incidents[i].status ELSE "open",
                         seen |-> w.now]
      BY <1>3, <2>1, <2>2
    <2> QED
      BY <2>1, <2>3
  <1>5. ASSUME NEW i \in DOMAIN incidents
        PROVE  i \in DOMAIN Filed(w) /\ Filed(w)[i].ip = incidents[i].ip
    <2>1. i \in DOMAIN Filed(w)
      BY <1>1, <1>2
    <2>2. CASE \E ip \in DOMAIN w.target : w.target[ip] = i
      <3>1. PICK ip \in DOMAIN w.target : w.target[ip] = i
        BY <2>2
      <3>2. i \in 1 .. Len(w.before)
        BY <1>2, <3>1 DEF Duplicate
      <3>3. incidents[i].ip = ip
        BY <3>1, <3>2 DEF FilingOK
      <3> QED
        BY <1>4, <2>1, <3>1, <3>3
    <2>3. CASE \A ip \in DOMAIN w.target : w.target[ip] # i
      BY <1>3, <2>1, <2>3
    <2> QED
      BY <2>1, <2>2, <2>3
  <1> QED
    BY <1>3, <1>4, <1>5

LEMMA FilingCommit ==
  ASSUME EngineInv, FilingInv, NEW c \in Cycles, CommitCycle(c)
  PROVE  FilingInv'
  <1> DEFINE w == work[c]
  <1>1. /\ PlanOK(w) /\ FilingOK(w) /\ ~ Duplicate(w) /\ Finish(c) /\ pc[c] = "work"
        /\ detections' = {FiredAgain(d, w.repeated) : d \in detections} \cup w.raised
        /\ incidents' = Filed(w) /\ links' = links \cup w.links
        /\ examined' = examined \cup w.new
    BY DEF CommitCycle, EngineInv, FilingInv, Refused
  <1>2. rows' = rows /\ \A d \in Cycles : pc'[d] = "work" => pc[d] = "work" /\ work'[d] = work[d]
    <2>1. Ended(c) # "work" /\ pc \in [Cycles -> {"idle", "start", "work", "wait", "debounce"}]
      BY DEF Ended, EngineInv, TypeOK
    <2> QED
      BY <1>1, <2>1 DEF Finish, writing, EngineInv
  <1>3. /\ NothingLost
        /\ \A ip \in DOMAIN w.target : w.target[ip] \in DOMAIN incidents' /\ incidents'[w.target[ip]].ip = ip
    <2> HIDE DEF w
    <2> QED
      BY <1>1, <1>2, FiledIps DEF NothingLost
  <1>4. \A d \in Cycles : pc'[d] = "work" => FilingOK(work[d])'
    BY <1>2, <1>3, FilingStays DEF FilingInv
  <1>5. ASSUME NEW d \in detections
        PROVE  LET e == FiredAgain(d, w.repeated)
               IN  /\ IsDetection(e) /\ e.ip = d.ip /\ e.incident = d.incident
                   /\ e.matched = d.matched
    <2>1. IsDetection(d)
      BY DEF FilingInv
    <2> DEFINE t == (CHOOSE k \in w.repeated : k.ip = d.ip).last
    <2>2. FiredAgain(d, w.repeated) = d \/ FiredAgain(d, w.repeated) = [d EXCEPT !.last = t]
      BY DEF FiredAgain
    <2> HIDE DEF t, w
    <2> QED
      BY <2>1, <2>2 DEF IsDetection
  <1> HIDE DEF w
  <1>6. /\ \A r \in examined :
             rows'[r].hot => \E i \in DOMAIN incidents' :
                               <<i, r>> \in links' /\ incidents'[i].ip = rows'[r].ip
        /\ \A d \in detections :
             /\ d.incident \in DOMAIN incidents' /\ incidents'[d.incident].ip = d.ip
             /\ \A r \in d.matched : <<d.incident, r>> \in links'
    BY <1>3, FiledStays DEF FilingInv
  <1>7. ASSUME NEW r \in w.new, rows'[r].hot
        PROVE  \E i \in DOMAIN incidents' : <<i, r>> \in links' /\ incidents'[i].ip = rows'[r].ip
    <2>1. /\ rows[r].ip \in DOMAIN w.target
          /\ <<w.target[rows[r].ip], r>> \in links'
      BY <1>1, <1>2, <1>7 DEF FilingOK
    <2> QED
      BY <1>2, <1>3, <2>1
  <1>8. ASSUME NEW d \in w.raised
        PROVE  /\ IsDetection(d)
               /\ d.incident \in DOMAIN incidents' /\ incidents'[d.incident].ip = d.ip
               /\ \A r \in d.matched : <<d.incident, r>> \in links'
    BY <1>1, <1>3 DEF FilingOK
  <1>9. ASSUME NEW e \in detections'
        PROVE  /\ IsDetection(e)
               /\ e.incident \in DOMAIN incidents' /\ incidents'[e.incident].ip = e.ip
               /\ \A r \in e.matched : <<e.incident, r>> \in links'
    <2>1. CASE e \in w.raised
      BY <1>8, <2>1
    <2>2. CASE e \notin w.raised
      <3>1. PICK d \in detections : e = FiredAgain(d, w.repeated)
        BY <1>1, <2>2
      <3>2. IsDetection(e) /\ e.ip = d.ip /\ e.incident = d.incident /\ e.matched = d.matched
        BY <1>5, <3>1
      <3> QED
        BY <1>6, <3>2
    <2> QED
      BY <2>1, <2>2
  <1>10. EvidenceFiled'
    BY <1>1, <1>6, <1>7, <1>9 DEF EvidenceFiled
  <1> QED
    BY <1>4, <1>9, <1>10 DEF FilingInv

LEMMA FilingRead ==
  ASSUME EngineInv, FilingInv, NEW c \in Cycles, Read(c)
  PROVE  FilingInv'
  <1>1. PICK N \in Batches : \E f \in Targets(Cases(N)) : work' = [work EXCEPT ![c] = Plan(N, f)]
    BY DEF Read
  <1>2. PICK f \in Targets(Cases(N)) : work' = [work EXCEPT ![c] = Plan(N, f)]
    BY <1>1
  <1>3. FilingOK(Plan(N, f))
    BY PlanFiles DEF Read
  <1>4. UNCHANGED <<rows, links, incidents, examined, detections>>
    BY DEF Read, store, writing
  <1>5. NothingLost
    BY <1>4 DEF NothingLost
  <1>6. EvidenceFiled' /\ \A d \in detections' : IsDetection(d)
    BY <1>4 DEF FilingInv, EvidenceFiled
  <1>7. ASSUME NEW d \in Cycles, pc'[d] = "work" PROVE FilingOK(work[d])'
    <2>1. CASE d = c
      <3>1. work'[d] = Plan(N, f)
        BY <1>2, <2>1 DEF EngineInv
      <3>2. FilingOK(work'[d])
        BY <1>3, <3>1
      <3> QED
        BY <1>4, <3>2 DEF FilingOK
    <2>2. CASE d # c
      <3>1. pc[d] = "work" /\ work'[d] = work[d]
        BY <1>2, <1>7, <2>2 DEF EngineInv, TypeOK, Read
      <3> QED
        BY <1>5, <3>1, FilingStays DEF FilingInv
    <2> QED
      BY <2>1, <2>2
  <1> QED
    BY <1>6, <1>7 DEF FilingInv

LEMMA FilingInit == Init => FilingInv
  <1> SUFFICES ASSUME Init PROVE FilingInv
    OBVIOUS
  <1>1. \A c \in Cycles : pc[c] # "work"
    BY DEF Init
  <1> QED
    BY <1>1 DEF Init, FilingInv, EvidenceFiled

(* A step that is neither a cycle's read nor its commit.                   *)
LEMMA PlansStayed ==
  ASSUME EngineInv, [Next]_vars
  PROVE  \/ \E c \in Cycles : Read(c) \/ CommitCycle(c)
         \/ /\ NothingLost /\ UNCHANGED <<cursor, detections, links, twice, hits, totals, examined>>
            /\ \A c \in Cycles : pc'[c] = "work" => pc[c] = "work" /\ work'[c] = work[c]
            /\ UNCHANGED incidents \/ \E i \in DOMAIN incidents : SetStatus(i)
            /\ UNCHANGED <<clock, rows>> \/ \E w \in Writers : Stamp(w)
            /\ UNCHANGED <<committed, late>> \/ \E w \in Writers : CommitRows(w)
  <1>0. /\ TypeOK /\ pc \in [Cycles -> {"idle", "start", "work", "wait", "debounce"}]
        /\ DOMAIN work = Cycles /\ \A c \in Cycles : Ended(c) # "work"
    BY DEF EngineInv, TypeOK, Ended
  <1>1. ASSUME NEW w \in Writers, Stamp(w)
        PROVE  NothingLost
    BY <1>0, <1>1, StampKeepsRows DEF NothingLost, Stamp, store
  <1>2. ASSUME NEW i \in DOMAIN incidents, SetStatus(i)
        PROVE  NothingLost
    <2>1. /\ incidents' = [incidents EXCEPT ![i].status = IF IsOpen(i) THEN "closed" ELSE "reopened"]
          /\ UNCHANGED <<rows, links>>
      BY <1>2 DEF SetStatus, writing
    <2>2. \A j \in DOMAIN incidents : incidents[j] \in Incident
      BY <1>0 DEF TypeOK
    <2> QED
      BY <2>1, <2>2 DEF NothingLost, Incident
  <1>3. UNCHANGED <<rows, links, incidents>> => NothingLost
    BY DEF NothingLost
  <1>4. ASSUME NEW w \in Writers, Stamp(w) \/ CommitRows(w)
        PROVE  UNCHANGED <<store, pc, work>>
    BY <1>4 DEF Stamp, CommitRows, running
  <1>5. ASSUME NEW c \in Cycles, NothingNew(c) \/ Abort(c) \/ Fail(c) \/ ForceCycle(c)
        PROVE  /\ UNCHANGED <<store, writing>>
               /\ \A d \in Cycles : pc'[d] = "work" => pc[d] = "work" /\ work'[d] = work[d]
    BY <1>0, <1>5 DEF NothingNew, Abort, Fail, ForceCycle, RollBack, Finish
  <1>6. CASE Woken \/ Clear \/ Restart \/ Notify
    <2>1. /\ UNCHANGED <<store, clock, rows, committed, late>>
          /\ \A d \in Cycles : pc'[d] = "work" => pc[d] = "work" /\ work'[d] = work[d]
      BY <1>0, <1>6 DEF Woken, Clear, Restart, Notify, writing
    <2> QED
      BY <1>3, <2>1 DEF store
  <1>7. CASE UNCHANGED vars
    BY <1>3, <1>7 DEF vars, store, writing, running
  <1>8. ASSUME NEW w \in Writers, Stamp(w)
        PROVE  UNCHANGED <<committed, late>>
    BY <1>8 DEF Stamp
  <1>9. ASSUME NEW w \in Writers, CommitRows(w)
        PROVE  UNCHANGED <<clock, rows>>
    BY <1>9 DEF CommitRows
  <1>10. CASE \E w \in Writers : Stamp(w)
    BY <1>1, <1>4, <1>8, <1>10 DEF store
  <1>11. CASE \E w \in Writers : CommitRows(w)
    BY <1>3, <1>4, <1>9, <1>11 DEF store
  <1>12. CASE \E c \in Cycles : NothingNew(c) \/ Abort(c) \/ Fail(c) \/ ForceCycle(c)
    BY <1>3, <1>5, <1>12 DEF store, writing
  <1>13. CASE \E i \in DOMAIN incidents : SetStatus(i)
    <2>1. UNCHANGED <<cursor, detections, links, twice, hits, totals, examined, writing, running>>
      BY <1>13 DEF SetStatus
    <2> QED
      BY <1>2, <1>13, <2>1 DEF writing, running
  <1> QED
    BY <1>6, <1>7, <1>10, <1>11, <1>12, <1>13 DEF Next, RunCycle

LEMMA FilingStep == EngineInv /\ FilingInv /\ [Next]_vars => FilingInv'
  BY PlansStayed, FilingQuiet, FilingRead, FilingCommit

LEMMA FilingHolds == Spec => []FilingInv
  BY FilingInit, FilingStep, EngineAlways, PTL DEF Spec

(* What counts as examined is filed: high-risk rows and detections with    *)
(* all they matched are in an incident of their source, even if cycles     *)
(* overlap on a server that lets stale writes through: a cycle that would  *)
(* use a number already given out is refused.                              *)
THEOREM EvidenceIsFiled == Spec => []EvidenceFiled
  <1>1. FilingInv => EvidenceFiled
    BY DEF FilingInv
  <1> QED
    BY <1>1, FilingHolds, PTL
-----------------------------------------------------------------------------
(* Rows that are committed late.                                           *)

BatchOrLate(w) ==
  \A r \in committed : rows[r].at <= Newest(w.new) => r \in examined \cup w.new \cup late

LateInv ==
  /\ ~ WholeSeconds => \A r, s \in DOMAIN rows : rows[r].at = rows[s].at => r = s
  /\ Len(rows) <= MaxRows
  /\ OnlyLateRowsSkipped
  /\ \A c \in Cycles : pc[c] = "work" => BatchOrLate(work[c])

LEMMA LateInit == Init => LateInv
  <1> SUFFICES ASSUME Init PROVE LateInv
    OBVIOUS
  <1>1. /\ \A c \in Cycles : pc[c] # "work"
        /\ rows = <<>> /\ committed = {}
    BY DEF Init
  <1>2. Len(rows) = 0 /\ DOMAIN rows = {}
    BY <1>1
  <1> QED
    BY <1>1, <1>2, NumbersAssumption DEF LateInv, OnlyLateRowsSkipped

(* A batch leaves out no fresh row as old as its newest: either no two     *)
(* rows have the same stamp, or nothing is cut off.                        *)
LEMMA BatchIsWholeOrLate ==
  ASSUME WholeSeconds = FALSE \/ MaxRows <= Limit,
         EngineInv, LateInv, Fresh # {}, NEW N \in Batches, NEW f
  PROVE  BatchOrLate(Plan(N, f))
  <1>1. N \in SUBSET committed /\ N # {}
    BY BatchNotEmpty DEF EngineInv
  <1>2. PICK n \in N : Newest(N) = rows[n].at
    BY <1>1, NewestOf
  <1>3. \A r \in Fresh \ N : rows[r].at # Newest(N)
    <2>1. CASE WholeSeconds = FALSE
      <3>1. n \in DOMAIN rows /\ Fresh \subseteq DOMAIN rows
        BY <1>1, StoredRows DEF EngineInv, Fresh
      <3> QED
        BY <1>2, <2>1, <3>1 DEF LateInv
    <2>2. CASE MaxRows <= Limit /\ N # Fresh
      <3>1. /\ Fresh \in SUBSET (1 .. Len(rows)) /\ Len(rows) \in Nat /\ Fresh \in SUBSET committed
            /\ N \in SUBSET Fresh /\ Cardinality(N) = Limit
        BY <2>2, StoredRows DEF EngineInv, Fresh, Batches
      <3>2. /\ IsFiniteSet(1 .. Len(rows)) /\ Cardinality(1 .. Len(rows)) = Len(rows)
        <4> DEFINE k == Len(rows)
        <4>1. k \in Nat
          BY <3>1
        <4> HIDE DEF k
        <4>2. IsFiniteSet(1 .. k) /\ Cardinality(1 .. k) = k
          BY <4>1, FS_Interval
        <4> QED
          BY <4>2 DEF k
      <3>3. /\ IsFiniteSet(Fresh) /\ Cardinality(Fresh) <= Len(rows) /\ Cardinality(Fresh) \in Nat
        BY <3>1, <3>2, FS_Subset, FS_CardinalityType
      <3>4. Cardinality(N) <= Cardinality(Fresh) /\ (Cardinality(Fresh) = Cardinality(N) => Fresh = N)
        BY <3>1, <3>3, FS_Subset
      <3>5. Limit \in Nat /\ MaxRows \in Nat /\ Len(rows) <= MaxRows
        BY NumbersAssumption DEF LateInv
      <3> QED
        BY <2>2, <3>1, <3>3, <3>4, <3>5
    <2> QED
      BY <2>1, <2>2
  <1>4. ASSUME NEW r \in committed, rows[r].at <= Newest(N) PROVE r \in examined \cup N \cup late
    <2>1. CASE r \in Fresh /\ r \notin N
      <3>1. rows[n].at <= rows[r].at /\ rows[r].at \in Nat /\ rows[n].at \in Nat
        BY <1>1, <2>1, StoredRows DEF Batches, EngineInv
      <3>2. rows[r].at = Newest(N)
        BY <1>2, <1>4, <3>1
      <3> QED
        BY <1>3, <2>1, <3>2
    <2>2. CASE r \notin Fresh
      <3>1. rows[r].at \in Nat /\ cursor \in Nat
        BY StoredRows DEF EngineInv, TypeOK
      <3>2. rows[r].at <= cursor
        BY <2>2, <3>1 DEF Fresh
      <3> QED
        BY <3>2 DEF LateInv, OnlyLateRowsSkipped
    <2> QED
      BY <2>1, <2>2
  <1>5. Plan(N, f).new = N
    BY DEF Plan
  <1> QED
    BY <1>4, <1>5 DEF BatchOrLate

LEMMA LateStep ==
  ASSUME WholeSeconds = FALSE \/ MaxRows <= Limit
  PROVE  EngineInv /\ LateInv /\ [Next]_vars => LateInv'
  <1> SUFFICES ASSUME EngineInv, LateInv, [Next]_vars PROVE LateInv'
    OBVIOUS
  <1>0. /\ TypeOK /\ DOMAIN work = Cycles
        /\ pc \in [Cycles -> {"idle", "start", "work", "wait", "debounce"}]
        /\ committed \subseteq DOMAIN rows /\ DOMAIN rows = 1 .. Len(rows) /\ Len(rows) \in Nat
        /\ \A w \in Writers : pending[w] \subseteq DOMAIN rows
        /\ \A c \in Cycles : pc[c] = "work" =>
             BatchOrLate(work[c]) /\ work[c].new \in SUBSET committed /\ work[c].new # {}
    BY StoredRows DEF EngineInv, TypeOK, PlanOK, LateInv
  <1> DEFINE Plans == \A c \in Cycles : pc'[c] = "work" => pc[c] = "work" /\ work'[c] = work[c]
  <1>1. ASSUME Plans, UNCHANGED <<cursor, examined, committed, late>>,
               \A r \in DOMAIN rows : rows'[r] = rows[r]
        PROVE  OnlyLateRowsSkipped' /\ \A c \in Cycles : pc'[c] = "work" => BatchOrLate(work[c])'
    <2>1. \A r \in committed : rows'[r] = rows[r]
      BY <1>0, <1>1
    <2>2. OnlyLateRowsSkipped'
      BY <1>1, <2>1 DEF LateInv, OnlyLateRowsSkipped
    <2>3. ASSUME NEW c \in Cycles, pc'[c] = "work" PROVE BatchOrLate(work[c])'
      <3>1. BatchOrLate(work[c]) /\ work'[c] = work[c] /\ work[c].new \in SUBSET committed
        BY <1>0, <1>1, <2>3
      <3>2. Newest(work[c].new)' = Newest(work[c].new)
        <4> DEFINE S == work[c].new
        <4>1. S' = S
          BY <3>1
        <4>2. {rows'[r].at : r \in S} = {rows[r].at : r \in S}
          BY <1>0, <1>1, <3>1
        <4> QED
          BY <4>1, <4>2 DEF Newest
      <3> QED
        BY <1>1, <2>1, <3>1, <3>2 DEF BatchOrLate
    <2> QED
      BY <2>2, <2>3
  <1>2. ASSUME NEW w \in Writers, Stamp(w) PROVE LateInv'
    <2>1. /\ \A r \in DOMAIN rows : rows'[r] = rows[r]
          /\ DOMAIN rows' = 1 .. Len(rows) + 1
          /\ ~ WholeSeconds => rows'[Len(rows) + 1].at = clock + 1
      BY <1>0, <1>2, StampKeepsRows
    <2>2. /\ UNCHANGED <<cursor, examined, committed, late, pc, work>>
          /\ Len(rows) < MaxRows
      BY <1>2 DEF Stamp, store, running
    <2>3. Len(rows') = Len(rows) + 1
      <3>1. PICK e : rows' = Append(rows, e)
        BY <1>2 DEF Stamp
      <3> QED
        BY <1>0, <3>1 DEF TypeOK
    <2>4. Len(rows') <= MaxRows
      BY <1>0, <2>2, <2>3, NumbersAssumption
    <2>5. ASSUME ~ WholeSeconds, NEW r \in DOMAIN rows', NEW s \in DOMAIN rows',
                 rows'[r].at = rows'[s].at
          PROVE  r = s
      <3>1. clock \in Nat /\ \A q \in DOMAIN rows : rows[q].at \in Nat /\ rows[q].at <= clock
        BY StoredRows DEF EngineInv, TypeOK
      <3>2. \A q \in DOMAIN rows' : q \in DOMAIN rows \/ q = Len(rows) + 1
        BY <1>0, <2>1
      <3>3. CASE r \in DOMAIN rows /\ s \in DOMAIN rows
        BY <2>1, <2>5, <3>3 DEF LateInv
      <3>4. CASE r \notin DOMAIN rows /\ s \in DOMAIN rows
        BY <2>1, <2>5, <3>1, <3>2, <3>4
      <3>5. CASE r \in DOMAIN rows /\ s \notin DOMAIN rows
        BY <2>1, <2>5, <3>1, <3>2, <3>5
      <3>6. CASE r \notin DOMAIN rows /\ s \notin DOMAIN rows
        BY <3>2, <3>6
      <3> QED
        BY <3>3, <3>4, <3>5, <3>6
    <2> QED
      BY <1>1, <2>1, <2>2, <2>4, <2>5 DEF LateInv
  <1>3. ASSUME NEW w \in Writers, CommitRows(w) PROVE LateInv'
    <2>1. /\ committed' = committed \cup pending[w]
          /\ late' = late \cup {r \in pending[w] : \E t \in Chosen : rows[r].at <= t}
          /\ UNCHANGED <<cursor, examined, rows, pc, work>>
      BY <1>3 DEF CommitRows, store, running
    <2>2. OnlyLateRowsSkipped'
      BY <2>1 DEF LateInv, OnlyLateRowsSkipped, Chosen
    <2>3. ASSUME NEW c \in Cycles, pc'[c] = "work" PROVE BatchOrLate(work[c])'
      <3>1. BatchOrLate(work[c]) /\ Newest(work[c].new) \in Chosen
        BY <1>0, <2>1, <2>3 DEF Chosen
      <3>2. Newest(work[c].new)' = Newest(work[c].new)
        BY <2>1 DEF Newest
      <3> QED
        BY <2>1, <3>1, <3>2 DEF BatchOrLate
    <2> QED
      BY <2>1, <2>2, <2>3 DEF LateInv
  <1>4. ASSUME NEW c \in Cycles, Read(c) PROVE LateInv'
    <2>0. PICK N \in Batches : \E f \in Targets(Cases(N)) : work' = [work EXCEPT ![c] = Plan(N, f)]
      BY <1>4 DEF Read
    <2>1. PICK f \in Targets(Cases(N)) : work' = [work EXCEPT ![c] = Plan(N, f)]
      BY <2>0
    <2>2. UNCHANGED <<rows, committed, cursor, examined, late>>
      BY <1>4 DEF Read, store, writing
    <2>3. BatchOrLate(Plan(N, f))
      BY <1>4, BatchIsWholeOrLate DEF Read
    <2>4. ASSUME NEW d \in Cycles, pc'[d] = "work" PROVE BatchOrLate(work[d])'
      <3>1. BatchOrLate(work'[d])
        <4>1. CASE d = c
          BY <1>0, <2>1, <2>3, <4>1
        <4>2. CASE d # c
          BY <1>0, <1>4, <2>1, <2>4, <4>2 DEF Read
        <4> QED
          BY <4>1, <4>2
      <3> QED
        BY <2>2, <3>1 DEF BatchOrLate, Newest
    <2> QED
      BY <2>2, <2>4 DEF LateInv, OnlyLateRowsSkipped
  <1>5. ASSUME NEW c \in Cycles, CommitCycle(c) PROVE LateInv'
    <2>1. /\ Finish(c) /\ pc[c] = "work"
          /\ cursor' = Newest(work[c].new) /\ examined' = examined \cup work[c].new
      BY <1>5 DEF CommitCycle
    <2>2. /\ UNCHANGED <<rows, committed, late>>
          /\ Plans
      <3>1. Ended(c) # "work"
        BY DEF Ended
      <3> QED
        BY <1>0, <2>1, <3>1 DEF Finish, writing
    <2>3. OnlyLateRowsSkipped'
      BY <1>0, <2>1, <2>2 DEF OnlyLateRowsSkipped, BatchOrLate
    <2>4. ASSUME NEW d \in Cycles, pc'[d] = "work" PROVE BatchOrLate(work[d])'
      <3>1. BatchOrLate(work[d]) /\ work'[d] = work[d]
        BY <1>0, <2>2, <2>4
      <3> QED
        BY <2>1, <2>2, <3>1 DEF BatchOrLate, Newest
    <2> QED
      BY <2>2, <2>3, <2>4 DEF LateInv
  <1>6. ASSUME NothingLost, UNCHANGED <<cursor, examined, rows, committed, late>>, Plans
        PROVE  LateInv'
    <2>1. \A r \in DOMAIN rows : rows'[r] = rows[r]
      BY <1>6
    <2> QED
      BY <1>1, <1>6, <2>1 DEF LateInv
  <1> QED
    BY <1>2, <1>3, <1>4, <1>5, <1>6, PlansStayed

(* Whatever the writers, and whether or not stale writes go through: if no *)
(* batch is cut between rows of one stamp, the cursor passes an unexamined *)
(* row only if that was committed behind a cursor already chosen.          *)
THEOREM OnlyLateSkipped ==
  ASSUME WholeSeconds = FALSE \/ MaxRows <= Limit
  PROVE  Spec => []OnlyLateRowsSkipped
  <1>1. LateInv => OnlyLateRowsSkipped
    BY DEF LateInv
  <1>2. EngineInv /\ LateInv /\ [Next]_vars => LateInv'
    BY LateStep
  <1> QED
    BY <1>1, <1>2, LateInit, EngineAlways, PTL DEF Spec

-----------------------------------------------------------------------------
(* What overlapping cycles add up to.                                      *)

OfSource(S, ip) == {r \in S : rows[r].ip = ip}

(* An open incident that a cycle would find for a source.                  *)
OpenAt(i, ip, now) ==
  /\ incidents[i].ip = ip /\ incidents[i].status = "open"
  /\ incidents[i].seen >= now - IncidentWindow

(* As long as the cursor is where a cycle found it, what the cycle is      *)
(* about to write is right: no other has committed since its snapshot.     *)
SerialOK(w) ==
  /\ w.base \in Nat /\ w.base <= cursor /\ w.now <= clock
  /\ \A r \in w.new : rows[r].at > w.base
  /\ w.base = cursor =>
       /\ Len(w.before) = Len(incidents)
       /\ \A ip \in Sources : w.hits[ip] = hits[ip] + Cardinality(OfSource(w.new, ip))
       /\ w.links \cap links = {}
       /\ \A ip \in DOMAIN w.target : \A j \in DOMAIN incidents :
            /\ OpenAt(j, ip, w.now)
            /\ w.target[ip] \in DOMAIN incidents => incidents[w.target[ip]].status = "open"
            => j = w.target[ip]

SerialInv ==
  /\ \A r \in examined : rows[r].at <= cursor
  /\ EffectsOnce
  /\ OneCase
  /\ \A c \in Cycles : pc[c] = "work" => SerialOK(work[c])

LEMMA SerialInit == Init => SerialInv
  <1> SUFFICES ASSUME Init PROVE SerialInv
    OBVIOUS
  <1>1. /\ \A c \in Cycles : pc[c] # "work"
        /\ examined = {} /\ twice = {} /\ incidents = <<>> /\ hits = [ip \in Sources |-> 0]
    BY DEF Init
  <1>2. EffectsOnce
    <2>1. \A ip \in Sources : {r \in examined : rows[r].ip = ip} = {}
      BY <1>1
    <2> QED
      BY <1>1, <2>1, FS_EmptySet DEF EffectsOnce
  <1>3. OneCase
    BY <1>1 DEF OneCase, Current
  <1> QED
    BY <1>1, <1>2, <1>3 DEF SerialInv

LEMMA SplitCount ==
  ASSUME TypeOK, NEW ip, NEW A \in SUBSET DOMAIN rows, NEW B \in SUBSET DOMAIN rows, A \cap B = {}
  PROVE  /\ Cardinality(OfSource(A, ip)) \in Nat /\ Cardinality(OfSource(B, ip)) \in Nat
         /\ Cardinality(OfSource(A \cup B, ip)) =
              Cardinality(OfSource(A, ip)) + Cardinality(OfSource(B, ip))
  <1>1. IsFiniteSet(DOMAIN rows)
    BY StoredRows, FS_Interval
  <1>2. OfSource(A, ip) \in SUBSET DOMAIN rows /\ OfSource(B, ip) \in SUBSET DOMAIN rows
    BY DEF OfSource
  <1>3. IsFiniteSet(OfSource(A, ip)) /\ IsFiniteSet(OfSource(B, ip))
    BY <1>1, <1>2, FS_Subset
  <1>4. /\ OfSource(A, ip) \cap OfSource(B, ip) = {}
        /\ OfSource(A \cup B, ip) = OfSource(A, ip) \cup OfSource(B, ip)
    BY DEF OfSource
  <1>5. Cardinality(OfSource(A, ip)) \in Nat /\ Cardinality(OfSource(B, ip)) \in Nat
    BY <1>3, FS_CardinalityType
  <1> DEFINE X == OfSource(A, ip)
             Y == OfSource(B, ip)
  <1>6. Cardinality(X \cup Y) = Cardinality(X) + Cardinality(Y) - Cardinality(X \cap Y)
    BY <1>3, FS_Union
  <1>7. Cardinality(X \cap Y) = 0
    BY <1>4, FS_EmptySet
  <1>8. Cardinality(X) \in Nat /\ Cardinality(Y) \in Nat
    BY <1>5
  <1>9. Cardinality(X \cup Y) = Cardinality(X) + Cardinality(Y)
    <2> DEFINE cu == Cardinality(X \cup Y)
               cx == Cardinality(X)
               cy == Cardinality(Y)
               ci == Cardinality(X \cap Y)
    <2>1. cu = cx + cy - ci /\ ci = 0 /\ cx \in Nat /\ cy \in Nat
      BY <1>6, <1>7, <1>8
    <2> HIDE DEF cu, cx, cy, ci
    <2>2. cu = cx + cy
      BY <2>1
    <2> QED
      BY <2>2 DEF cu, cx, cy
  <1> QED
    BY <1>4, <1>5, <1>9

LEMMA PlanIsSerial ==
  ASSUME EngineInv, SerialInv, Fresh # {}, NEW N \in Batches, NEW f \in Targets(Cases(N))
  PROVE  SerialOK(Plan(N, f))
  <1> DEFINE w == Plan(N, f)
  <1>1. N \in SUBSET committed /\ \A r \in N : rows[r].at > cursor
    BY BatchNotEmpty DEF EngineInv, Batches, Fresh
  <1>2. /\ w.new = N /\ w.base = cursor /\ w.now = clock /\ w.before = incidents /\ w.target = f
        /\ w.links = NewLinks(N, f)
        /\ w.hits = [ip \in Sources |-> hits[ip] + Cardinality({r \in N : rows[r].ip = ip})]
    BY DEF Plan
  <1> HIDE DEF w
  <1>3. cursor \in Nat /\ clock \in Nat
    BY DEF EngineInv, TypeOK
  <1>4. w.links \cap links = {}
    BY <1>2 DEF NewLinks
  <1>5. \A ip \in Sources : w.hits[ip] = hits[ip] + Cardinality(OfSource(w.new, ip))
    BY <1>2 DEF OfSource
  <1>6. ASSUME NEW ip \in DOMAIN w.target, NEW j \in DOMAIN incidents, OpenAt(j, ip, w.now),
               w.target[ip] \in DOMAIN incidents => incidents[w.target[ip]].status = "open"
        PROVE  j = w.target[ip]
    <2>1. ip \in Cases(N) /\ ip \in Sources
      BY <1>1, <1>2, CasesAreSources DEF Targets
    <2>2. j \in Current(ip)
      BY <1>2, <1>6 DEF OpenAt, Current, IsOpen
    <2>3. ip \notin Opening(Cases(N))
      BY <2>2 DEF Opening
    <2>4. f[ip] \in Current(ip)
      BY <2>1, <2>3 DEF Targets
    <2>5. incidents[f[ip]].status = "open"
      BY <1>2, <1>6, <2>4 DEF Current
    <2> QED
      BY <1>2, <1>6, <2>1, <2>2, <2>4, <2>5 DEF SerialInv, OneCase, OpenAt
  <1>7. w.base <= cursor /\ w.now <= clock /\ w.base \in Nat
    BY <1>2, <1>3
  <1> QED
    BY <1>1, <1>2, <1>4, <1>5, <1>6, <1>7 DEF SerialOK, w

(* A step that commits no cycle.                                           *)
LEMMA SerialStays ==
  ASSUME EngineInv, EngineInv', NEW c \in Cycles, pc[c] = "work", SerialOK(work[c]), work'[c] = work[c],
         NothingLost, UNCHANGED <<cursor, links, hits>>,
         DOMAIN incidents' = DOMAIN incidents, Len(incidents') = Len(incidents), clock <= clock',
         \A i \in DOMAIN incidents :
            /\ incidents'[i].seen = incidents[i].seen
            /\ incidents'[i].status = "open" => incidents[i].status = "open"
  PROVE  SerialOK(work[c])'
  <1> DEFINE w == work[c]
  <1>1. w.new \in SUBSET DOMAIN rows
    BY StoredRows DEF EngineInv, PlanOK
  <1>2. /\ \A r \in w.new : rows'[r] = rows[r]
        /\ w.base \in Nat /\ w.base <= cursor /\ w.now <= clock /\ w.now \in Nat
        /\ \A r \in w.new : rows[r].at > w.base
    BY <1>1 DEF NothingLost, SerialOK, EngineInv, PlanOK
  <1>3. clock \in Nat /\ clock' \in Nat
    BY DEF EngineInv, TypeOK
  <1>4. w.now <= clock'
    BY <1>2, <1>3
  <1>5. \A ip : OfSource(w.new, ip)' = OfSource(w.new, ip)
    BY <1>2 DEF OfSource
  <1>6. ASSUME w.base = cursor
        PROVE  /\ Len(w.before) = Len(incidents)
               /\ \A ip \in Sources : w.hits[ip] = hits[ip] + Cardinality(OfSource(w.new, ip))
               /\ w.links \cap links = {}
               /\ \A ip \in DOMAIN w.target : \A j \in DOMAIN incidents :
                    /\ OpenAt(j, ip, w.now)
                    /\ w.target[ip] \in DOMAIN incidents => incidents[w.target[ip]].status = "open"
                    => j = w.target[ip]
    BY <1>6 DEF SerialOK
  <1>7. ASSUME w.base = cursor, NEW ip \in DOMAIN w.target, NEW j \in DOMAIN incidents,
               OpenAt(j, ip, w.now)',
               w.target[ip] \in DOMAIN incidents => incidents'[w.target[ip]].status = "open"
        PROVE  j = w.target[ip]
    <2>1. OpenAt(j, ip, w.now)
      BY <1>7 DEF OpenAt, NothingLost
    <2> QED
      BY <1>6, <1>7, <2>1
  <1>8. ASSUME w.base = cursor
        PROVE  \A ip \in Sources : w.hits[ip] = hits'[ip] + Cardinality(OfSource(w.new, ip)')
    BY <1>5, <1>6, <1>8
  <1>9. (w.new)' = w.new /\ (w.base)' = w.base /\ (w.now)' = w.now /\ (w.before)' = w.before
        /\ (w.hits)' = w.hits /\ (w.links)' = w.links /\ (w.target)' = w.target
    OBVIOUS
  <1> QED
    BY <1>2, <1>4, <1>5, <1>6, <1>7, <1>8, <1>9 DEF SerialOK

LEMMA IncidentTimes ==
  ASSUME TypeOK
  PROVE  \A i \in DOMAIN incidents : incidents[i].seen \in Nat
  <1>1. incidents \in Seq(Incident)
    BY DEF TypeOK
  <1>2. \A i \in DOMAIN incidents : incidents[i] \in Incident
    BY <1>1
  <1> QED
    BY <1>2 DEF Incident

LEMMA SerialQuiet ==
  ASSUME EngineInv, EngineInv', SerialInv, NothingLost,
         UNCHANGED <<cursor, links, twice, hits, examined>>,
         \A c \in Cycles : pc'[c] = "work" => pc[c] = "work" /\ work'[c] = work[c],
         DOMAIN incidents' = DOMAIN incidents, Len(incidents') = Len(incidents), clock <= clock',
         \A i \in DOMAIN incidents :
            /\ incidents'[i].seen = incidents[i].seen
            /\ incidents'[i].status = "open" => incidents[i].status = "open"
  PROVE  SerialInv'
  <1>1. \A r \in examined : rows'[r] = rows[r]
    BY StoredRows DEF EngineInv, NothingLost
  <1>2. \A r \in examined' : rows'[r].at <= cursor'
    BY <1>1 DEF SerialInv
  <1>3. EffectsOnce'
    <2>1. \A ip \in Sources : {r \in examined : rows'[r].ip = ip} = {r \in examined : rows[r].ip = ip}
      BY <1>1
    <2> QED
      BY <2>1 DEF SerialInv, EffectsOnce
  <1>4. OneCase'
    <2>1. ASSUME NEW ip \in Sources, NEW i \in Current(ip)', incidents'[i].status = "open"
          PROVE  i \in Current(ip) /\ incidents[i].status = "open"
      <3>1. /\ i \in DOMAIN incidents /\ incidents[i].ip = ip /\ incidents[i].status = "open"
            /\ incidents[i].seen >= clock' - IncidentWindow
        BY <2>1 DEF Current, NothingLost
      <3>2. /\ clock \in Nat /\ clock' \in Nat /\ incidents[i].seen \in Nat
            /\ IncidentWindow \in Nat
        BY <3>1, NumbersAssumption, IncidentTimes DEF EngineInv, TypeOK
      <3>3. incidents[i].seen >= clock - IncidentWindow
        BY <3>1, <3>2
      <3> QED
        BY <3>1, <3>3 DEF Current, IsOpen
    <2>2. ASSUME NEW ip \in Sources, NEW i \in Current(ip)', NEW j \in Current(ip)',
                 incidents'[i].status = "open", incidents'[j].status = "open"
          PROVE  i = j
      BY <2>1, <2>2 DEF SerialInv, OneCase
    <2> QED
      BY <2>2 DEF OneCase
  <1>5. ASSUME NEW c \in Cycles, pc'[c] = "work" PROVE SerialOK(work[c])'
    <2>1. pc[c] = "work" /\ work'[c] = work[c] /\ SerialOK(work[c])
      BY <1>5 DEF SerialInv
    <2> QED
      BY <2>1, SerialStays
  <1> QED
    BY <1>2, <1>3, <1>4, <1>5 DEF SerialInv

(* A cycle numbers no incident beyond those there are and those it files   *)
(* under.                                                                  *)
LEMMA FiledNumbers ==
  ASSUME EngineInv, NEW w, PlanOK(w)
  PROVE  \A i \in DOMAIN Filed(w) : i \in DOMAIN incidents \/ i \in TargetedBy(w)
  <1> DEFINE B == {Len(incidents)} \cup TargetedBy(w)
             M == Max(B)
  <1>1. Len(incidents) \in Nat /\ DOMAIN incidents = 1 .. Len(incidents)
    BY DEF EngineInv, TypeOK
  <1>2. PICK n \in Nat : /\ TargetedBy(w) \subseteq 1 .. Len(w.before) + n
                         /\ Len(w.before) + 1 .. Len(w.before) + n \subseteq TargetedBy(w)
    BY DEF PlanOK
  <1>3. Len(w.before) \in Nat /\ Len(w.before) <= Len(incidents)
    BY DEF PlanOK
  <1>4. M \in B
    <2>1. B \in SUBSET Int /\ B # {} /\ Len(incidents) + n \in Int
      BY <1>1, <1>2
    <2>2. \A b \in B : b <= Len(incidents) + n
      BY <1>1, <1>2, <1>3
    <2> HIDE DEF B
    <2> QED
      BY <2>1, <2>2, MaxOfBounded
  <1>5. DOMAIN Filed(w) = 1 .. M
    BY DEF Filed, TargetedBy
  <1>6. ASSUME NEW i \in 1 .. M PROVE i \in DOMAIN incidents \/ i \in TargetedBy(w)
    <2>1. CASE M = Len(incidents)
      BY <1>1, <1>6, <2>1
    <2>2. CASE M \in TargetedBy(w)
      <3>1. M <= Len(w.before) + n /\ M \in Nat
        BY <1>2, <1>3, <2>2
      <3> HIDE DEF M
      <3> QED
        BY <1>1, <1>2, <1>3, <1>6, <3>1
    <2> QED
      BY <1>4, <2>1, <2>2
  <1> QED
    BY <1>5, <1>6

(* The first of the cycles that overlap commits; the cursor moves, and the *)
(* others are refused.                                                     *)
LEMMA SerialCommit ==
  ASSUME StaleRefused, EngineInv, EngineInv', FilingInv, SerialInv, NEW c \in Cycles, CommitCycle(c)
  PROVE  SerialInv'
  <1> DEFINE w == work[c]
  <1>1. /\ PlanOK(w) /\ FilingOK(w) /\ SerialOK(w) /\ ~ Duplicate(w) /\ Finish(c) /\ pc[c] = "work"
        /\ cursor = w.base
        /\ incidents' = Filed(w) /\ links' = links \cup w.links
        /\ twice' = twice \cup (links \cap w.links)
        /\ hits' = Written(w.hits, hits, IpsOf(w.new))
        /\ cursor' = Newest(w.new) /\ examined' = examined \cup w.new
    BY DEF CommitCycle, EngineInv, FilingInv, SerialInv, Refused, Stale
  <1>2. /\ rows' = rows /\ clock' = clock
        /\ \A d \in Cycles : pc'[d] = "work" => pc[d] = "work" /\ work'[d] = work[d]
    <2>1. Ended(c) # "work" /\ pc \in [Cycles -> {"idle", "start", "work", "wait", "debounce"}]
      BY DEF Ended, EngineInv, TypeOK
    <2> QED
      BY <1>1, <2>1 DEF Finish, writing, EngineInv
  <1> HIDE DEF w
  <1>3. /\ w.new \in SUBSET committed /\ w.new \in SUBSET DOMAIN rows /\ w.new # {}
        /\ examined \in SUBSET DOMAIN rows
    BY <1>1, StoredRows DEF PlanOK, EngineInv
  <1>4. /\ Newest(w.new) \in Nat /\ cursor \in Nat /\ cursor < Newest(w.new)
        /\ \A r \in w.new : rows[r].at <= Newest(w.new) /\ rows[r].at > cursor
    <2>1. /\ Newest(w.new) \in Nat /\ cursor \in Nat
          /\ \A r \in w.new : rows[r].at <= Newest(w.new) /\ rows[r].at > cursor
      BY <1>1, <1>3, NewestOf DEF SerialOK, EngineInv, TypeOK
    <2>2. PICK n \in w.new : Newest(w.new) = rows[n].at
      BY <1>3, NewestOf
    <2> QED
      BY <2>1, <2>2
  <1>5. \A r \in examined' : rows'[r].at <= cursor'
    <2>1. \A r \in examined : rows[r].at <= cursor /\ rows[r].at \in Nat
      BY <1>3, StoredRows DEF SerialInv, EngineInv
    <2> QED
      BY <1>1, <1>2, <1>4, <2>1
  <1>6. examined \cap w.new = {}
    <2>1. \A r \in examined : rows[r].at <= cursor /\ rows[r].at \in Nat
      BY <1>3, StoredRows DEF SerialInv, EngineInv
    <2> QED
      BY <1>4, <2>1
  <1>7. EffectsOnce'
    <2>1. twice' = {}
      BY <1>1 DEF SerialInv, EffectsOnce, SerialOK
    <2>2. ASSUME NEW ip \in Sources PROVE hits'[ip] = Cardinality(OfSource(examined', ip))
      <3>1. /\ Cardinality(OfSource(w.new, ip)) \in Nat
            /\ Cardinality(OfSource(examined \cup w.new, ip)) =
                 Cardinality(OfSource(examined, ip)) + Cardinality(OfSource(w.new, ip))
        BY <1>3, <1>6, SplitCount DEF EngineInv
      <3>2. hits[ip] = Cardinality(OfSource(examined, ip))
        BY DEF SerialInv, EffectsOnce, OfSource
      <3>3. CASE ip \in IpsOf(w.new)
        <4>1. hits'[ip] = w.hits[ip]
          BY <1>1, <3>3 DEF Written
        <4>2. w.hits[ip] = hits[ip] + Cardinality(OfSource(w.new, ip))
          BY <1>1 DEF SerialOK
        <4> QED
          BY <1>1, <3>1, <3>2, <4>1, <4>2
      <3>4. CASE ip \notin IpsOf(w.new)
        <4>1. hits'[ip] = hits[ip]
          BY <1>1, <3>4 DEF Written
        <4>2. OfSource(examined \cup w.new, ip) = OfSource(examined, ip)
          BY <3>4 DEF IpsOf, OfSource
        <4> QED
          BY <1>1, <3>2, <4>1, <4>2
      <3> QED
        BY <3>3, <3>4
    <2> QED
      BY <1>2, <2>1, <2>2 DEF EffectsOnce, OfSource
  <1>8. OneCase'
    <2>1. /\ DOMAIN incidents \subseteq DOMAIN Filed(w)
          /\ \A ip \in DOMAIN w.target :
               /\ w.target[ip] \in DOMAIN Filed(w)
               /\ Filed(w)[w.target[ip]].ip = ip
               /\ Filed(w)[w.target[ip]].status =
                    IF w.target[ip] \in DOMAIN incidents THEN incidents[w.target[ip]].status ELSE "open"
          /\ \A i \in DOMAIN Filed(w) :
               (\A ip \in DOMAIN w.target : w.target[ip] # i) => Filed(w)[i] = incidents[i]
      BY <1>1, FiledIps
    <2>2. \A i \in DOMAIN Filed(w) :
            (\A ip \in DOMAIN w.target : w.target[ip] # i) => i \in DOMAIN incidents
      BY <1>1, FiledNumbers DEF TargetedBy
    <2>3. \A ip \in DOMAIN w.target : \A j \in DOMAIN incidents :
            /\ OpenAt(j, ip, w.now)
            /\ w.target[ip] \in DOMAIN incidents => incidents[w.target[ip]].status = "open"
            => j = w.target[ip]
      BY <1>1 DEF SerialOK
    <2>4. w.now <= clock /\ w.now \in Nat /\ clock \in Nat /\ IncidentWindow \in Nat
      BY <1>1, NumbersAssumption DEF SerialOK, PlanOK, EngineInv, TypeOK
    <2>5. ASSUME NEW ip \in Sources, NEW i \in Current(ip)', incidents'[i].status = "open",
                 ip \notin DOMAIN w.target \/ w.target[ip] # i
          PROVE  i \in Current(ip) /\ incidents[i].status = "open" /\ OpenAt(i, ip, w.now)
      <3>1. /\ i \in DOMAIN Filed(w) /\ Filed(w)[i].ip = ip /\ Filed(w)[i].status = "open"
            /\ Filed(w)[i].seen >= clock - IncidentWindow
        BY <1>1, <1>2, <2>5 DEF Current
      <3>2. \A jp \in DOMAIN w.target : w.target[jp] # i
        BY <2>1, <2>5, <3>1
      <3>3. i \in DOMAIN incidents /\ Filed(w)[i] = incidents[i]
        BY <2>1, <2>2, <3>1, <3>2
      <3>4. incidents[i].seen \in Nat
        BY <3>3, IncidentTimes DEF EngineInv
      <3>5. incidents[i].seen >= w.now - IncidentWindow
        BY <2>4, <3>1, <3>3, <3>4
      <3> QED
        BY <3>1, <3>3, <3>5 DEF Current, IsOpen, OpenAt
    <2>6. ASSUME NEW ip \in Sources, NEW i \in Current(ip)', NEW j \in Current(ip)',
                 incidents'[i].status = "open", incidents'[j].status = "open",
                 ip \in DOMAIN w.target, w.target[ip] = i
          PROVE  i = j
      <3>1. CASE j # i
        <4>1. j \in DOMAIN incidents /\ OpenAt(j, ip, w.now)
          BY <2>5, <2>6, <3>1 DEF Current
        <4>2. w.target[ip] \in DOMAIN incidents => incidents[w.target[ip]].status = "open"
          BY <1>1, <2>1, <2>6
        <4> QED
          BY <2>3, <2>6, <4>1, <4>2
      <3> QED
        BY <3>1
    <2>7. ASSUME NEW ip \in Sources, NEW i \in Current(ip)', NEW j \in Current(ip)',
                 incidents'[i].status = "open", incidents'[j].status = "open"
          PROVE  i = j
      <3>1. CASE ip \in DOMAIN w.target /\ w.target[ip] = i
        BY <2>6, <2>7, <3>1
      <3>2. CASE ip \in DOMAIN w.target /\ w.target[ip] = j
        BY <2>6, <2>7, <3>2
      <3>3. CASE ip \notin DOMAIN w.target \/ (w.target[ip] # i /\ w.target[ip] # j)
        BY <2>5, <2>7, <3>3 DEF SerialInv, OneCase
      <3> QED
        BY <3>1, <3>2, <3>3
    <2> QED
      BY <2>7 DEF OneCase
  <1>9. ASSUME NEW d \in Cycles, pc'[d] = "work" PROVE SerialOK(work[d])'
    <2>1. work'[d] = work[d] /\ SerialOK(work[d])
      BY <1>2, <1>9 DEF SerialInv
    <2>2. /\ work[d].base \in Nat /\ work[d].base <= cursor /\ work[d].now <= clock
          /\ \A r \in work[d].new : rows[r].at > work[d].base
      BY <2>1 DEF SerialOK
    <2>3. work[d].base <= cursor' /\ work[d].base # cursor'
      BY <1>1, <1>4, <2>2
    <2> QED
      BY <1>2, <2>1, <2>2, <2>3 DEF SerialOK
  <1> QED
    BY <1>5, <1>7, <1>8, <1>9 DEF SerialInv

LEMMA SerialStep ==
  ASSUME StaleRefused
  PROVE  EngineInv /\ EngineInv' /\ FilingInv /\ SerialInv /\ [Next]_vars => SerialInv'
  <1> SUFFICES ASSUME EngineInv, EngineInv', FilingInv, SerialInv, [Next]_vars PROVE SerialInv'
    OBVIOUS
  <1>1. ASSUME NEW c \in Cycles, Read(c) PROVE SerialInv'
    <2>0. PICK N \in Batches : \E f \in Targets(Cases(N)) : work' = [work EXCEPT ![c] = Plan(N, f)]
      BY <1>1 DEF Read
    <2>1. PICK f \in Targets(Cases(N)) : work' = [work EXCEPT ![c] = Plan(N, f)]
      BY <2>0
    <2>2. SerialOK(Plan(N, f))
      BY <1>1, PlanIsSerial DEF Read
    <2>3. UNCHANGED <<rows, clock, cursor, links, twice, hits, examined, incidents>>
      BY <1>1 DEF Read, store, writing
    <2>4. ASSUME NEW d \in Cycles, pc'[d] = "work" PROVE SerialOK(work[d])'
      <3>1. SerialOK(work'[d])
        <4>1. CASE d = c
          BY <2>1, <2>2, <4>1 DEF EngineInv
        <4>2. CASE d # c
          BY <1>1, <2>1, <2>4, <4>2 DEF Read, EngineInv, TypeOK, SerialInv
        <4> QED
          BY <4>1, <4>2
      <3> QED
        BY <2>3, <3>1 DEF SerialOK, OfSource, OpenAt
    <2> QED
      BY <2>3, <2>4 DEF SerialInv, EffectsOnce, OneCase, Current, IsOpen
  <1>2. ASSUME NEW c \in Cycles, CommitCycle(c) PROVE SerialInv'
    BY <1>2, SerialCommit
  <1>3. ASSUME NothingLost, UNCHANGED <<cursor, detections, links, twice, hits, totals, examined>>,
               \A c \in Cycles : pc'[c] = "work" => pc[c] = "work" /\ work'[c] = work[c],
               UNCHANGED incidents \/ \E i \in DOMAIN incidents : SetStatus(i),
               UNCHANGED <<clock, rows>> \/ \E w \in Writers : Stamp(w)
        PROVE  SerialInv'
    <2>1. clock <= clock'
      <3>1. clock \in Nat /\ clock' \in Nat
        BY DEF EngineInv, TypeOK
      <3>2. CASE clock' = clock
        BY <3>1, <3>2
      <3>3. ASSUME NEW v \in Writers, Stamp(v) PROVE clock <= clock'
        <4>1. clock' = clock \/ clock' = clock + 1
          BY <3>3 DEF Stamp
        <4> QED
          BY <3>1, <4>1
      <3> QED
        BY <1>3, <3>2, <3>3
    <2>2. /\ DOMAIN incidents' = DOMAIN incidents /\ Len(incidents') = Len(incidents)
          /\ \A i \in DOMAIN incidents :
               /\ incidents'[i].seen = incidents[i].seen
               /\ incidents'[i].status = "open" => incidents[i].status = "open"
      <3>1. CASE UNCHANGED incidents
        BY <3>1
      <3>2. ASSUME NEW i \in DOMAIN incidents, SetStatus(i)
            PROVE  /\ DOMAIN incidents' = DOMAIN incidents /\ Len(incidents') = Len(incidents)
                   /\ \A j \in DOMAIN incidents :
                        /\ incidents'[j].seen = incidents[j].seen
                        /\ incidents'[j].status = "open" => incidents[j].status = "open"
        <4>1. incidents' = [incidents EXCEPT ![i].status = IF IsOpen(i) THEN "closed" ELSE "reopened"]
          BY <3>2 DEF SetStatus
        <4>2. incidents \in Seq(Incident) /\ \A j \in DOMAIN incidents : incidents[j] \in Incident
          BY DEF EngineInv, TypeOK
        <4> QED
          BY <4>1, <4>2 DEF Incident
      <3> QED
        BY <1>3, <3>1, <3>2
    <2> QED
      BY <1>3, <2>1, <2>2, SerialQuiet
  <1> QED
    BY <1>1, <1>2, <1>3, PlansStayed

LEMMA SerialHolds ==
  ASSUME StaleRefused
  PROVE  Spec => []SerialInv
  <1>1. EngineInv /\ EngineInv' /\ FilingInv /\ SerialInv /\ [Next]_vars => SerialInv'
    BY SerialStep
  <1> QED
    BY <1>1, SerialInit, EngineAlways, FilingHolds, PTL DEF Spec

(* Where the server refuses to write over a row that changed since the     *)
(* snapshot, of the cycles that overlap one commits: hit counts are those  *)
(* of the rows examined and no incident lists an event twice.              *)
THEOREM EffectsHappenOnce ==
  ASSUME StaleRefused
  PROVE  Spec => []EffectsOnce
  <1>1. SerialInv => EffectsOnce
    BY DEF SerialInv
  <1>2. Spec => []SerialInv
    BY SerialHolds
  <1> QED
    BY <1>1, <1>2, PTL

(* There, too, overlapping cycles never give a source two open cases.      *)
THEOREM OneCaseEach ==
  ASSUME StaleRefused
  PROVE  Spec => []OneCase
  <1>1. SerialInv => OneCase
    BY DEF SerialInv
  <1>2. Spec => []SerialInv
    BY SerialHolds
  <1> QED
    BY <1>1, <1>2, PTL
=============================================================================
