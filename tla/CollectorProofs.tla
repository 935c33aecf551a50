-------------------------- MODULE CollectorProofs --------------------------
(* Theorems about the collector, for every set of files, lines and limits. *)
EXTENDS Collector, SequenceTheorems, TLAPS

LEMMA RemoveAtSeq ==
  ASSUME NEW S, NEW s \in Seq(S), NEW i \in DOMAIN s
  PROVE  RemoveAt(s, i) \in Seq(S)
  BY DEF RemoveAt

LEMMA RemoveAtElements ==
  ASSUME NEW S, NEW s \in Seq(S), NEW i \in 1 .. Len(s)
  PROVE  /\ Len(RemoveAt(s, i)) = Len(s) - 1
         /\ \A j \in 1 .. Len(s) - 1 :
              RemoveAt(s, i)[j] = IF j < i THEN s[j] ELSE s[j + 1]
  <1>1. /\ SubSeq(s, 1, i - 1) \in Seq(S)
        /\ Len(SubSeq(s, 1, i - 1)) = i - 1
        /\ \A j \in 1 .. i - 1 : SubSeq(s, 1, i - 1)[j] = s[j]
    OBVIOUS
  <1>2. /\ SubSeq(s, i + 1, Len(s)) \in Seq(S)
        /\ Len(SubSeq(s, i + 1, Len(s))) = Len(s) - i
        /\ \A j \in 1 .. Len(s) - i : SubSeq(s, i + 1, Len(s))[j] = s[i + j]
    OBVIOUS
  <1> DEFINE a == SubSeq(s, 1, i - 1)
             b == SubSeq(s, i + 1, Len(s))
  <1>3. /\ a \o b \in Seq(S)
        /\ Len(a \o b) = Len(a) + Len(b)
        /\ \A j \in 1 .. Len(a) + Len(b) :
             (a \o b)[j] = IF j <= Len(a) THEN a[j] ELSE b[j - Len(a)]
    BY <1>1, <1>2, ConcatProperties
  <1> HIDE DEF a, b
  <1>4. RemoveAt(s, i) = a \o b
    BY DEF RemoveAt, a, b
  <1>5. Len(a) = i - 1 /\ Len(b) = Len(s) - i
    BY <1>1, <1>2 DEF a, b
  <1>0. i \in Int /\ Len(s) \in Nat /\ 1 <= i /\ i <= Len(s)
    OBVIOUS
  <1>6. ASSUME NEW j \in 1 .. Len(s) - 1
        PROVE  (a \o b)[j] = IF j < i THEN s[j] ELSE s[j + 1]
    <2>1. CASE j < i
      BY <1>1, <1>3, <1>5, <2>1 DEF a
    <2>2. CASE ~ (j < i)
      <3>1. j - Len(a) \in 1 .. Len(s) - i
        BY <1>5, <2>2
      <3>2. b[j - Len(a)] = s[i + (j - Len(a))]
        BY <1>2, <3>1 DEF b
      <3> QED
        BY <1>3, <1>5, <2>2, <3>1, <3>2
    <2> QED
      BY <2>1, <2>2, Zenon
  <1>7. Len(a) + Len(b) = Len(s) - 1
    BY <1>0, <1>5
  <1> QED
    BY <1>3, <1>4, <1>6, <1>7

(* Moving one element of a sequence without repetitions to its end.        *)
LEMMA MoveLast ==
  ASSUME NEW S, NEW s \in Seq(S), NEW p \in 1 .. Len(s),
         \A i, j \in 1 .. Len(s) : s[i] = s[j] => i = j
  PROVE  LET t == Append(RemoveAt(s, p), s[p]) IN
         /\ t \in Seq(S)
         /\ \A i \in 1 .. Len(t) : \E j \in 1 .. Len(s) : t[i] = s[j]
         /\ \A i, j \in 1 .. Len(t) : t[i] = t[j] => i = j
  <1> DEFINE n == Len(s)
             r == RemoveAt(s, p)
             t == Append(r, s[p])
  <1>1. n \in Nat /\ p \in 1 .. n /\ s[p] \in S
    OBVIOUS
  <1>2. r \in Seq(S)
    BY RemoveAtSeq
  <1>3. /\ Len(r) = n - 1
        /\ \A j \in 1 .. n - 1 : r[j] = IF j < p THEN s[j] ELSE s[j + 1]
    BY RemoveAtElements
  <1>4. t = Append(r, s[p])
    OBVIOUS
  <1> HIDE DEF r
  <1>5. /\ t \in Seq(S)
        /\ Len(t) = Len(r) + 1
        /\ \A j \in 1 .. Len(r) : t[j] = r[j]
        /\ t[Len(r) + 1] = s[p]
    BY <1>1, <1>2, <1>4, AppendProperties
  <1> HIDE DEF t
  <1>6. \A i, j \in 1 .. n : s[i] = s[j] => i = j
    OBVIOUS
  <1> HIDE DEF n
  <1>7. /\ Len(t) = n
        /\ t[n] = s[p]
        /\ \A j \in 1 .. n - 1 : t[j] = IF j < p THEN s[j] ELSE s[j + 1]
    BY <1>1, <1>3, <1>5
  <1>8. ASSUME NEW i \in 1 .. n
        PROVE  \E j \in 1 .. n : t[i] = s[j]
    BY <1>1, <1>7
  <1>9. ASSUME NEW i \in 1 .. n, NEW j \in 1 .. n, t[i] = t[j]
        PROVE  i = j
    BY <1>1, <1>6, <1>7, <1>9
  <1> QED
    BY <1>5, <1>7, <1>8, <1>9 DEF n, t, r

LEMMA Dropping ==
  ASSUME NEW S, NEW s \in Seq(S), NEW p \in 1 .. Len(s),
         \A i, j \in 1 .. Len(s) : s[i] = s[j] => i = j
  PROVE  LET t == RemoveAt(s, p) IN
         /\ t \in Seq(S)
         /\ \A i \in 1 .. Len(t) : \E j \in 1 .. Len(s) : t[i] = s[j] /\ j # p
         /\ \A i, j \in 1 .. Len(t) : t[i] = t[j] => i = j
  <1> DEFINE n == Len(s)
             t == RemoveAt(s, p)
  <1>1. n \in Nat /\ p \in 1 .. n
    OBVIOUS
  <1>2. t \in Seq(S)
    BY RemoveAtSeq
  <1>3. /\ Len(t) = n - 1
        /\ \A j \in 1 .. n - 1 : t[j] = IF j < p THEN s[j] ELSE s[j + 1]
    BY RemoveAtElements
  <1>4. \A i, j \in 1 .. n : s[i] = s[j] => i = j
    OBVIOUS
  <1> HIDE DEF n, t
  <1>5. ASSUME NEW i \in 1 .. n - 1
        PROVE  \E j \in 1 .. n : t[i] = s[j] /\ j # p
    BY <1>1, <1>3
  <1>6. ASSUME NEW i \in 1 .. n - 1, NEW j \in 1 .. n - 1, t[i] = t[j]
        PROVE  i = j
    BY <1>1, <1>3, <1>4, <1>6
  <1> QED
    BY <1>2, <1>3, <1>5, <1>6 DEF n, t

(* t holds elements of s but for a, and b, none of them twice.             *)
RenamedFrom(t, s, a, b) ==
  /\ \A i, j \in 1 .. Len(t) : t[i] = t[j] => i = j
  /\ \A i \in 1 .. Len(t) :
       t[i] # a /\ (t[i] = b \/ \E j \in 1 .. Len(s) : t[i] = s[j])

(* Renaming element a to b in a sequence without repetitions: position p   *)
(* is where b already was, if it was there at all.                         *)
LEMMA Renaming ==
  ASSUME NEW S, NEW s \in Seq(S), NEW a \in S, NEW b \in S, a # b,
         \A i, j \in 1 .. Len(s) : s[i] = s[j] => i = j
  PROVE  LET r == ReplaceAll(s, a, b) IN
         /\ r \in Seq(S)
         /\ (\A i \in 1 .. Len(s) : s[i] # b) => RenamedFrom(r, s, a, b)
         /\ \A p \in 1 .. Len(s) : s[p] = b =>
              /\ RemoveAt(r, p) \in Seq(S)
              /\ RenamedFrom(RemoveAt(r, p), s, a, b)
  <1> DEFINE n == Len(s)
             r == ReplaceAll(s, a, b)
  <1>1. /\ r \in Seq(S)
        /\ Len(r) = n
        /\ \A i \in 1 .. n : r[i] = IF s[i] = a THEN b ELSE s[i]
    BY DEF ReplaceAll
  <1>2. n \in Nat /\ (\A i \in 1 .. n : s[i] \in S) /\ \A i, j \in 1 .. n : s[i] = s[j] => i = j
    OBVIOUS
  <1> HIDE DEF n, r
  <1>3. ASSUME \A i \in 1 .. n : s[i] # b
        PROVE  /\ \A i, j \in 1 .. n : r[i] = r[j] => i = j
               /\ \A i \in 1 .. n : r[i] # a /\ (r[i] = b \/ \E j \in 1 .. n : r[i] = s[j])
    BY <1>1, <1>2, <1>3
  <1>4. ASSUME NEW p \in 1 .. n, s[p] = b
        PROVE  LET t == RemoveAt(r, p) IN
               /\ t \in Seq(S)
               /\ \A i, j \in 1 .. Len(t) : t[i] = t[j] => i = j
               /\ \A i \in 1 .. Len(t) :
                    t[i] # a /\ (t[i] = b \/ \E j \in 1 .. n : t[i] = s[j])
    <2> DEFINE t == RemoveAt(r, p)
    <2>1. t \in Seq(S)
      BY <1>1, RemoveAtSeq
    <2>2. /\ Len(t) = n - 1
          /\ \A j \in 1 .. n - 1 : t[j] = IF j < p THEN r[j] ELSE r[j + 1]
      BY <1>1, RemoveAtElements
    <2> HIDE DEF t
    <2>3. ASSUME NEW i \in 1 .. n - 1
          PROVE  t[i] # a /\ (t[i] = b \/ \E j \in 1 .. n : t[i] = s[j])
      BY <1>1, <1>2, <2>2
    <2>4. ASSUME NEW i \in 1 .. n - 1, NEW j \in 1 .. n - 1, t[i] = t[j]
          PROVE  i = j
      <3>1. PICK k \in 1 .. n : k # p /\ t[i] = r[k] /\ k = IF i < p THEN i ELSE i + 1
        BY <1>2, <2>2
      <3>2. PICK l \in 1 .. n : l # p /\ t[j] = r[l] /\ l = IF j < p THEN j ELSE j + 1
        BY <1>2, <2>2
      <3>3. s[k] # b /\ s[l] # b
        BY <1>2, <1>4, <3>1, <3>2
      <3>4. s[k] = s[l]
        BY <1>1, <2>4, <3>1, <3>2, <3>3
      <3>5. k = l
        BY <1>2, <3>4
      <3> QED
        BY <1>2, <3>1, <3>2, <3>5
    <2> QED
      BY <2>1, <2>2, <2>3, <2>4 DEF t
  <1>5. (\A i \in 1 .. n : s[i] # b) => RenamedFrom(r, s, a, b)
    BY <1>1, <1>3 DEF RenamedFrom, n
  <1>6. ASSUME NEW p \in 1 .. n, s[p] = b
        PROVE  RemoveAt(r, p) \in Seq(S) /\ RenamedFrom(RemoveAt(r, p), s, a, b)
    BY <1>4, <1>6 DEF RenamedFrom, n
  <1> QED
    BY <1>1, <1>5, <1>6 DEF n, r

-----------------------------------------------------------------------------
(* The directory as the walk sees it: every listed path exists and is      *)
(* listed once.                                                            *)
Listed ==
  /\ \A i, j \in 1 .. Len(order) : order[i] = order[j] => i = j
  /\ \A i \in 1 .. Len(order) : file[order[i]].inode # 0

(* Incarnations are told apart by their ids, and lastId bounds every id.   *)
Ids ==
  /\ \A f \in Files :
       /\ file[f].id <= lastId
       /\ file[f].id = 0 <=> file[f].inode = 0
       /\ cursor[f].id <= lastId
       /\ cursors[f].id <= lastId
       /\ updated[f].id <= lastId
  /\ \A f, g \in Files : file[f].id = file[g].id /\ file[f].id # 0 => f = g

(* A cursor about to be saved names the inode its offset is about.         *)
Named ==
  \A f \in Files : updated[f].off > 0 => updated[f].inode # 0

TypeInv == TypeOK /\ Listed /\ Ids /\ Named

LEMMA NoFileType == NoFile \in File
  BY EmptySeq DEF NoFile, File

LEMMA InitTypeInv == Init => TypeInv
  <1> SUFFICES ASSUME Init PROVE TypeInv
    OBVIOUS
  <1> NoCursor \in Cursor
    BY DEF NoCursor, Cursor
  <1>1. TypeOK
    <2>1. file \in [Files -> File] /\ order \in Seq(Files)
      BY NoFileType, EmptySeq DEF Init
    <2>2. todo \in Seq([key : Files, inode : Nat \ {0}, size : Nat])
      BY EmptySeq DEF Init
    <2>3. \A f \in Files : cursor[f].off = 0
      BY DEF Init, NoCursor
    <2>4. /\ cursor \in [Files -> Cursor]
          /\ cursors \in [Files -> Cursor]
          /\ updated \in [Files -> Cursor]
      BY DEF Init
    <2>5. lastId \in Nat /\ chunks \in Nat /\ faults \in Nat
      BY DEF Init
    <2>6. /\ changed \in BOOLEAN
          /\ pc \in {"waiting", "load", "walk", "read", "commit", "publish"}
          /\ stored \subseteq Events /\ published \subseteq Events /\ batch \subseteq Events
      BY DEF Init
    <2> QED
      BY <2>1, <2>2, <2>3, <2>4, <2>5, <2>6 DEF TypeOK
  <1>2. Listed
    BY DEF Init, Listed
  <1> QED
    BY <1>1, <1>2 DEF Init, TypeInv, Ids, Named, NoFile, NoCursor

(* Touch: f moves to the end of the walk order.                            *)
LEMMA TouchOrder ==
  ASSUME order \in Seq(Files), Listed, NEW f \in Files, Touch(f)
  PROVE  /\ order' \in Seq(Files)
         /\ \A i, j \in 1 .. Len(order') : order'[i] = order'[j] => i = j
         /\ \A i \in 1 .. Len(order') : file[order'[i]].inode # 0
  <1>1. PICK p \in DOMAIN order : order[p] = f /\ order' = Append(RemoveAt(order, p), f)
    BY DEF Touch, At
  <1>2. p \in 1 .. Len(order)
    OBVIOUS
  <1>3. order' = Append(RemoveAt(order, p), order[p])
    BY <1>1
  <1>5. \A i, j \in 1 .. Len(order) : order[i] = order[j] => i = j
    BY DEF Listed
  <1>4. /\ order' \in Seq(Files)
        /\ \A i \in 1 .. Len(order') : \E j \in 1 .. Len(order) : order'[i] = order[j]
        /\ \A i, j \in 1 .. Len(order') : order'[i] = order'[j] => i = j
    <2>1. LET t == Append(RemoveAt(order, p), order[p]) IN
          /\ t \in Seq(Files)
          /\ \A i \in 1 .. Len(t) : \E j \in 1 .. Len(order) : t[i] = order[j]
          /\ \A i, j \in 1 .. Len(t) : t[i] = t[j] => i = j
      BY <1>2, <1>5, MoveLast
    <2> QED
      BY <1>3, <2>1
  <1> QED
    BY <1>4 DEF Listed

-----------------------------------------------------------------------------
(* Each step keeps the types, the walk order and the identities.           *)

(* A new incarnation at f gets an id nothing has yet.                      *)
LEMMA NewIncarnation ==
  ASSUME TypeInv, NEW f \in Files,
         lastId' = lastId + 1,
         \A g \in Files \ {f} : file'[g] = file[g],
         file'[f].id = lastId + 1,
         file'[f].inode # 0,
         UNCHANGED <<cursor, cursors, updated>>
  PROVE  Ids'
  <1> USE DEF TypeInv
  <1>1. \A g \in Files : /\ file[g].id \in Nat /\ cursor[g].id \in Nat
                         /\ cursors[g].id \in Nat /\ updated[g].id \in Nat
    BY DEF TypeOK, File, Cursor
  <1>2. lastId \in Nat
    BY DEF TypeOK
  <1>3. \A g \in Files :
          /\ file'[g].id <= lastId'
          /\ file'[g].id = 0 <=> file'[g].inode = 0
          /\ cursor'[g].id <= lastId'
          /\ cursors'[g].id <= lastId'
          /\ updated'[g].id <= lastId'
    BY <1>1, <1>2 DEF Ids
  <1>4. \A g, h \in Files : file'[g].id = file'[h].id /\ file'[g].id # 0 => g = h
    BY <1>1, <1>2 DEF Ids
  <1> QED
    BY <1>3, <1>4 DEF Ids

LEMMA CreateTypeInv ==
  ASSUME TypeInv, NEW f \in Files, Create(f)
  PROVE  TypeInv'
  <1> USE DEF TypeInv
  <1>1. file' = [file EXCEPT ![f] = [inode |-> lastId + 1, id |-> lastId + 1, data |-> <<>>]]
    BY DEF Create
  <1>2. [inode |-> lastId + 1, id |-> lastId + 1, data |-> <<>>] \in File
    BY EmptySeq DEF TypeOK, File
  <1>3. \A i \in 1 .. Len(order) : order[i] # f
    BY DEF Create, Exists, Ids, Listed, TypeOK
  <1>4. /\ order' \in Seq(Files)
        /\ Len(order') = Len(order) + 1
        /\ \A i \in 1 .. Len(order) : order'[i] = order[i]
        /\ order'[Len(order) + 1] = f
    BY AppendProperties DEF Create, TypeOK
  <1>5. TypeOK'
    BY <1>1, <1>2, <1>4 DEF Create, TypeOK, db, cycle
  <1>6. Listed'
    <2>1. \A i \in 1 .. Len(order) : order[i] \in Files
      BY DEF TypeOK
    <2>2. Len(order) \in Nat
      BY DEF TypeOK
    <2>3. \A g \in Files : file'[g].inode = IF g = f THEN lastId + 1 ELSE file[g].inode
      BY <1>1 DEF TypeOK
    <2>4. lastId + 1 # 0
      BY DEF TypeOK
    <2> QED
      BY <1>3, <1>4, <2>1, <2>2, <2>3, <2>4 DEF Listed
  <1>7. Ids'
    BY <1>1, NewIncarnation DEF Create, db, cycle, TypeOK
  <1> QED
    BY <1>5, <1>6, <1>7 DEF Create, Named, db, cycle

LEMMA WriteTypeInv ==
  ASSUME TypeInv, NEW f \in Files, NEW c \in Chunk, Write(f, c)
  PROVE  TypeInv'
  <1> USE DEF TypeInv
  <1>1. file[f] \in File /\ file[f].data \in Seq(Chunk)
    BY DEF TypeOK, File
  <1>2. /\ file' = [file EXCEPT ![f].data = Append(file[f].data, c)]
        /\ Append(file[f].data, c) \in Seq(Chunk)
    BY <1>1, AppendProperties DEF Write
  <1>3. file' \in [Files -> File]
    BY <1>1, <1>2 DEF TypeOK, File
  <1>4. \A g \in Files : file'[g].id = file[g].id /\ file'[g].inode = file[g].inode
    BY <1>2 DEF TypeOK, File
  <1>5. /\ order' \in Seq(Files)
        /\ \A i, j \in 1 .. Len(order') : order'[i] = order'[j] => i = j
        /\ \A i \in 1 .. Len(order') : file[order'[i]].inode # 0
    BY TouchOrder DEF Write, TypeOK
  <1>6. TypeOK'
    BY <1>3, <1>5 DEF Write, TypeOK, db, cycle
  <1>7. Listed'
    BY <1>4, <1>5, ElementOfSeq DEF Listed
  <1>8. Ids'
    BY <1>4 DEF Write, Ids, db, cycle
  <1> QED
    BY <1>6, <1>7, <1>8 DEF Write, Named, db, cycle

LEMMA TruncateTypeInv ==
  ASSUME TypeInv, NEW f \in Files, Truncate(f)
  PROVE  TypeInv'
  <1> USE DEF TypeInv
  <1>1. file' = [file EXCEPT ![f].data = <<>>, ![f].id = lastId + 1]
    BY DEF Truncate
  <1>2. file[f] \in File /\ <<>> \in Seq(Chunk) /\ lastId + 1 \in Nat
    BY EmptySeq DEF TypeOK
  <1>3. file' \in [Files -> File]
    BY <1>1, <1>2 DEF TypeOK, File
  <1>4. /\ \A g \in Files : file'[g].inode = file[g].inode
        /\ \A g \in Files \ {f} : file'[g] = file[g]
        /\ file'[f].id = lastId + 1
    BY <1>1, <1>2 DEF TypeOK, File
  <1>5. /\ order' \in Seq(Files)
        /\ \A i, j \in 1 .. Len(order') : order'[i] = order'[j] => i = j
        /\ \A i \in 1 .. Len(order') : file[order'[i]].inode # 0
    BY TouchOrder DEF Truncate, TypeOK
  <1>6. TypeOK'
    BY <1>2, <1>3, <1>5 DEF Truncate, TypeOK, db, cycle
  <1>7. Listed'
    BY <1>4, <1>5, ElementOfSeq DEF Listed
  <1>8. file[f].inode # 0
    BY DEF Truncate, Touch, At, Listed
  <1>9. Ids'
    BY <1>4, <1>8, NewIncarnation DEF Truncate, db, cycle
  <1> QED
    BY <1>6, <1>7, <1>9 DEF Truncate, Named, db, cycle

LEMMA RotateOutTypeInv ==
  ASSUME TypeInv, NEW f \in Files, RotateOut(f)
  PROVE  TypeInv'
  <1> USE DEF TypeInv
  <1>1. file' = [file EXCEPT ![f] = NoFile] /\ file' \in [Files -> File]
    BY NoFileType DEF RotateOut, TypeOK
  <1>2. \A g \in Files : file'[g] = IF g = f THEN NoFile ELSE file[g]
    BY <1>1 DEF TypeOK
  <1>3. PICK p \in DOMAIN order : order[p] = f /\ order' = RemoveAt(order, p)
    BY DEF RotateOut, At
  <1>4. \A i, j \in 1 .. Len(order) : order[i] = order[j] => i = j
    BY DEF Listed
  <1>5. order \in Seq(Files) /\ p \in 1 .. Len(order)
    BY DEF TypeOK
  <1>6. /\ order' \in Seq(Files)
        /\ \A i \in 1 .. Len(order') : \E j \in 1 .. Len(order) : order'[i] = order[j] /\ j # p
        /\ \A i, j \in 1 .. Len(order') : order'[i] = order'[j] => i = j
    BY <1>3, <1>4, <1>5, Dropping
  <1>7. \A i \in 1 .. Len(order') : order'[i] \in Files \ {f} /\ file[order'[i]].inode # 0
    BY <1>3, <1>4, <1>5, <1>6 DEF Listed
  <1>8. TypeOK'
    BY <1>1, <1>6 DEF RotateOut, TypeOK, db, cycle
  <1>9. Listed'
    BY <1>2, <1>6, <1>7 DEF Listed
  <1>10. Ids'
    BY <1>2 DEF RotateOut, Ids, NoFile, db, cycle, TypeOK
  <1> QED
    BY <1>8, <1>9, <1>10 DEF RotateOut, Named, db, cycle

LEMMA RotateToTypeInv ==
  ASSUME TypeInv, NEW f \in Files, NEW g \in Files, RotateTo(f, g)
  PROVE  TypeInv'
  <1> USE DEF TypeInv
  <1>1. /\ f # g
        /\ file' = [file EXCEPT ![g] = file[f], ![f] = NoFile]
        /\ file' \in [Files -> File]
    BY FilesAssumption, NoFileType DEF RotateTo, TypeOK
  <1>2. \A h \in Files :
          file'[h] = IF h = f THEN NoFile ELSE IF h = g THEN file[f] ELSE file[h]
    BY <1>1 DEF TypeOK
  <1>3. \A i, j \in 1 .. Len(order) : order[i] = order[j] => i = j
    BY DEF Listed
  <1>4. order \in Seq(Files)
    BY DEF TypeOK
  <1> DEFINE renamed == ReplaceAll(order, f, g)
             Renamed(t) == t \in Seq(Files) /\ RenamedFrom(t, order, f, g)
  <1>5. /\ (\A i \in 1 .. Len(order) : order[i] # g) => Renamed(renamed)
        /\ \A p \in 1 .. Len(order) : order[p] = g => Renamed(RemoveAt(renamed, p))
    <2>1. LET r == ReplaceAll(order, f, g) IN
          /\ r \in Seq(Files)
          /\ (\A i \in 1 .. Len(order) : order[i] # g) => RenamedFrom(r, order, f, g)
          /\ \A p \in 1 .. Len(order) : order[p] = g =>
               /\ RemoveAt(r, p) \in Seq(Files)
               /\ RenamedFrom(RemoveAt(r, p), order, f, g)
      BY <1>1, <1>3, <1>4, Renaming
    <2> QED
      BY <2>1
  <1>6. Renamed(order')
    <2>1. CASE ~ Exists(g) /\ order' = renamed
      <3>1. \A i \in 1 .. Len(order) : order[i] # g
        BY <2>1, <1>4 DEF Exists, Ids, Listed
      <3> QED
        BY <1>5, <2>1, <3>1
    <2>2. CASE \E i \in DOMAIN order : At(g, i) /\ order' = RemoveAt(renamed, i)
      <3>1. PICK p \in 1 .. Len(order) : order[p] = g /\ order' = RemoveAt(renamed, p)
        BY <1>4, <2>2 DEF At
      <3> QED
        BY <1>5, <3>1
    <2> QED
      BY <2>1, <2>2 DEF RotateTo
  <1>7. file[f].inode # 0 /\ file[f].id # 0
    BY DEF RotateTo, Exists, Ids
  <1>8. TypeOK'
    BY <1>1, <1>6 DEF RotateTo, TypeOK, db, cycle
  <1>9. Listed'
    <2>1. \A i \in 1 .. Len(order') : file'[order'[i]].inode # 0
      <3> SUFFICES ASSUME NEW i \in 1 .. Len(order') PROVE file'[order'[i]].inode # 0
        OBVIOUS
      <3>1. order'[i] \in Files /\ order'[i] # f
        BY <1>6 DEF RenamedFrom
      <3>2. CASE order'[i] = g
        BY <1>2, <1>7, <3>1, <3>2
      <3>3. CASE order'[i] # g
        <4>1. PICK j \in 1 .. Len(order) : order'[i] = order[j]
          BY <1>6, <3>3 DEF RenamedFrom
        <4> QED
          BY <1>2, <3>1, <3>3, <4>1 DEF Listed
      <3> QED
        BY <3>2, <3>3
    <2> QED
      BY <1>6, <2>1 DEF Listed, RenamedFrom
  <1>10. Ids'
    <2>1. \A h \in Files : /\ file'[h].id <= lastId
                           /\ file'[h].id = 0 <=> file'[h].inode = 0
      BY <1>2, SMTT(30) DEF Ids, NoFile, TypeOK
    <2>2. \A h, k \in Files : file'[h].id = file'[k].id /\ file'[h].id # 0 => h = k
      BY <1>2 DEF Ids, NoFile
    <2> QED
      BY <2>1, <2>2 DEF RotateTo, Ids, db, cycle
  <1> QED
    BY <1>8, <1>9, <1>10 DEF RotateTo, Named, db, cycle

(* Steps of the collector leave the directory alone.                       *)
LEMMA DirectoryFrame ==
  ASSUME TypeInv, UNCHANGED <<file, order, lastId>>
  PROVE  /\ Listed'
         /\ (\A f \in Files : /\ cursor'[f].id <= lastId
                             /\ cursors'[f].id <= lastId
                             /\ updated'[f].id <= lastId) => Ids'
  BY DEF TypeInv, Listed, Ids

LEMMA NoCursorType == NoCursor \in Cursor /\ NoCursor.id = 0 /\ NoCursor.off = 0
  BY DEF NoCursor, Cursor

LEMMA WakeTypeInv ==
  ASSUME TypeInv, Wake \/ Sweep \/ CommitFails \/ CycleFails \/ EndRead \/ Publish
  PROVE  TypeInv'
  <1> USE DEF TypeInv
  <1>1. UNCHANGED <<file, order, lastId, chunks, cursor, stored, cursors, todo, batch, updated>>
    BY DEF Wake, Sweep, CommitFails, CycleFails, EndRead, Publish, env, db, cycle
  <1>2. /\ changed' \in BOOLEAN
        /\ published' \subseteq Events
        /\ pc' \in {"waiting", "load", "walk", "read", "commit", "publish"}
        /\ faults' \in Nat
    <2>1. CASE Wake \/ Sweep \/ EndRead
      BY <2>1 DEF Wake, Sweep, EndRead, TypeOK
    <2>2. CASE CommitFails \/ CycleFails
      BY <2>2 DEF CommitFails, CycleFails, Fault, TypeOK
    <2>3. CASE Publish
      BY <2>3 DEF Publish, Usable, TypeOK
    <2> QED
      BY <2>1, <2>2, <2>3
  <1>3. TypeOK'
    BY <1>1, <1>2 DEF TypeOK
  <1> QED
    BY <1>1, <1>3 DEF Listed, Ids, Named

LEMMA LoadTypeInv ==
  ASSUME TypeInv, LoadCursors \/ Crash
  PROVE  TypeInv'
  <1> USE DEF TypeInv
  <1>1. /\ UNCHANGED <<file, order, lastId, chunks, cursor, stored, published>>
        /\ cursors' = cursor \/ cursors' = [f \in Files |-> NoCursor]
        /\ todo' = <<>> /\ batch' = {} /\ updated' = [f \in Files |-> NoCursor]
    BY DEF LoadCursors, Crash, EmptyCycle, env, db
  <1>2. cursors' \in [Files -> Cursor] /\ updated' \in [Files -> Cursor]
    BY <1>1, NoCursorType DEF TypeOK
  <1>3. todo' \in Seq([key : Files, inode : Nat \ {0}, size : Nat])
    BY <1>1, EmptySeq
  <1>7. /\ changed' \in BOOLEAN
        /\ pc' \in {"waiting", "load", "walk", "read", "commit", "publish"}
        /\ faults' \in Nat
    <2>1. CASE LoadCursors
      BY <2>1 DEF LoadCursors, TypeOK
    <2>2. CASE Crash
      <3>1. changed' = FALSE /\ pc' = "load" /\ faults' = faults + 1
        BY <2>2 DEF Crash, Fault
      <3>2. faults \in Nat
        BY DEF TypeOK
      <3>3. changed' \in BOOLEAN
        BY <3>1, Zenon
      <3>4. faults' \in Nat
        BY <3>1, <3>2
      <3> QED
        BY <3>1, <3>3, <3>4, Zenon
    <2> QED
      BY <2>1, <2>2
  <1>4. TypeOK'
    BY <1>1, <1>2, <1>3, <1>7 DEF TypeOK
  <1>5. Ids'
    BY <1>1, NoCursorType, DirectoryFrame DEF Ids, TypeOK
  <1>6. Named'
    BY <1>1, NoCursorType DEF Named
  <1> QED
    BY <1>1, <1>4, <1>5, <1>6, DirectoryFrame

LEMMA WriteLineTypeInv ==
  ASSUME TypeInv, NEW f \in Files, StartLine(f) \/ ContinueLine(f)
  PROVE  TypeInv'
  <1>1. CASE StartLine(f)
    <2>1. PICK e \in Events : Write(f, [ev |-> e, pos |-> 1])
      BY <1>1 DEF StartLine
    <2>2. [ev |-> e, pos |-> 1] \in Chunk
      BY DEF Chunk
    <2> QED
      BY <2>1, <2>2, WriteTypeInv
  <1>2. CASE ContinueLine(f)
    <2> DEFINE d == file[f].data
               c == [d[Len(d)] EXCEPT !.pos = @ + 1]
    <2>1. Write(f, c) /\ d # <<>>
      BY <1>2 DEF ContinueLine, MidLine
    <2>2. d \in Seq(Chunk)
      BY DEF TypeInv, TypeOK, File
    <2>3. d[Len(d)] \in Chunk
      BY <2>1, <2>2
    <2>4. c \in Chunk
      BY <2>3 DEF Chunk
    <2> QED
      BY <2>1, <2>4, WriteTypeInv
  <1> QED
    BY <1>1, <1>2

LEMMA LesserType ==
  ASSUME NEW m \in Nat, NEW n \in Nat
  PROVE  /\ Lesser(m, n) \in Nat
         /\ Lesser(m, n) <= m
         /\ Lesser(m, n) <= n
         /\ Lesser(m, n) = m \/ Lesser(m, n) = n
  BY DEF Lesser

LEMMA WalkTypeInv ==
  ASSUME TypeInv, Walk
  PROVE  TypeInv'
  <1> USE DEF TypeInv
  <1> DEFINE n == Lesser(Len(order), MAX_FILES_PER_CYCLE)
             entry(i) == [key   |-> order[i],
                          inode |-> file[order[i]].inode,
                          size  |-> Len(file[order[i]].data)]
  <1>1. order \in Seq(Files) /\ Len(order) \in Nat
    BY DEF TypeOK
  <1>2. n \in Nat /\ n <= Len(order)
    BY <1>1, LesserType, LimitsAssumption
  <1>3. ASSUME NEW i \in 1 .. n
        PROVE  entry(i) \in [key : Files, inode : Nat \ {0}, size : Nat]
    <2>1. order[i] \in Files /\ file[order[i]].inode # 0
      BY <1>1, <1>2 DEF Listed
    <2>2. file[order[i]] \in File
      BY <2>1 DEF TypeOK
    <2> QED
      BY <2>1, <2>2 DEF File
  <1>4. todo' = [i \in 1 .. n |-> entry(i)]
    BY DEF Walk
  <1>5. todo' \in Seq([key : Files, inode : Nat \ {0}, size : Nat])
    <2> HIDE DEF n, entry
    <2> QED
      BY <1>2, <1>3, <1>4, IsASeq
  <1>6. TypeOK'
    BY <1>5 DEF Walk, TypeOK, env, db
  <1>7. Ids'
    BY DEF Walk, Ids, env, db
  <1> QED
    BY <1>6, <1>7 DEF Walk, Named, Listed, env, db

(* Where the read of the head of todo starts, what it returns, and the     *)
(* cursor it leaves.                                                       *)
LEMMA ReadType ==
  ASSUME TypeInv, NEW f \in Files, Reading(f)
  PROVE  LET start == ResolveOffset(cursors[f], Head(todo))
             data  == file[f].data
         IN  /\ data \in Seq(Chunk)
             /\ start \in Nat
             /\ start = 0 \/ start = cursors[f].off
             /\ ReadEnd(data, start) \in Nat
             /\ ReadEnd(data, start) <= Len(data)
             /\ ReadEnd(data, start) <= start + MAX_BYTES_PER_FILE
             /\ Newlines(data, start) \subseteq 1 .. Len(data)
             /\ \A off \in Nat :
                  /\ NewCursor(f, start, off) \in Cursor
                  /\ NewCursor(f, start, off).id \in {0, file[f].id}
                  /\ NewCursor(f, start, off).inode # 0
             /\ Tail(todo) \in Seq([key : Files, inode : Nat \ {0}, size : Nat])
  <1> USE DEF TypeInv
  <1> DEFINE start == ResolveOffset(cursors[f], Head(todo))
             data == file[f].data
             Stat == [key : Files, inode : Nat \ {0}, size : Nat]
  <1>1. file[f] \in File /\ data \in Seq(Chunk) /\ cursors[f] \in Cursor
    BY DEF TypeOK, File
  <1>2. todo \in Seq(Stat) /\ todo # <<>>
    BY DEF TypeOK, Reading
  <1>3. Head(todo) \in Stat /\ Tail(todo) \in Seq(Stat)
    BY <1>2, HeadTailProperties
  <1>4. start \in Nat /\ (start = 0 \/ start = cursors[f].off)
    BY <1>1 DEF ResolveOffset, Cursor
  <1>5. /\ ReadEnd(data, start) \in Nat
        /\ ReadEnd(data, start) <= Len(data)
        /\ ReadEnd(data, start) <= start + MAX_BYTES_PER_FILE
    <2> HIDE DEF start, data
    <2>1. Len(data) \in Nat /\ start + MAX_BYTES_PER_FILE \in Nat
      BY <1>1, <1>4, LimitsAssumption
    <2> QED
      BY <2>1, LesserType DEF ReadEnd
  <1>6. Newlines(data, start) \subseteq 1 .. Len(data)
    <2> HIDE DEF start, data
    <2> QED
      BY <1>1, <1>4, <1>5 DEF Newlines
  <1>7. ASSUME NEW off \in Nat
        PROVE  /\ NewCursor(f, start, off) \in Cursor
               /\ NewCursor(f, start, off).id \in {0, file[f].id}
               /\ NewCursor(f, start, off).inode # 0
    BY <1>1, <1>3 DEF NewCursor, Cursor, File
  <1> QED
    BY <1>1, <1>3, <1>4, <1>5, <1>6, <1>7

(* A step that reads the head of todo either leaves updated alone or       *)
(* replaces the cursor of f.                                               *)
LEMMA ReadTypeInv ==
  ASSUME TypeInv, NEW f \in Files, ReadOne(f) \/ ReadFails(f)
  PROVE  TypeInv'
  <1> USE DEF TypeInv
  <1> DEFINE start == ResolveOffset(cursors[f], Head(todo))
             data == file[f].data
             Stat == [key : Files, inode : Nat \ {0}, size : Nat]
  <1>1. Reading(f) /\ NextFile
    BY DEF ReadOne, ReadFails, SkipFile, SkipOversized, ConsumeLines
  <1>2. /\ UNCHANGED <<file, order, lastId, chunks, changed, cursor, stored, published, pc, cursors>>
        /\ todo' = Tail(todo)
    BY <1>1 DEF NextFile, env, db
  <1>3. /\ data \in Seq(Chunk)
        /\ start \in Nat
        /\ ReadEnd(data, start) \in Nat
        /\ Newlines(data, start) \subseteq 1 .. Len(data)
        /\ \A off \in Nat :
             /\ NewCursor(f, start, off) \in Cursor
             /\ NewCursor(f, start, off).id \in {0, file[f].id}
             /\ NewCursor(f, start, off).inode # 0
        /\ Tail(todo) \in Seq(Stat)
    BY <1>1, ReadType
  <1> HIDE DEF start, data, Stat
  <1>4. /\ batch' \subseteq Events
        /\ faults' \in Nat
        /\ \/ updated' = updated
           \/ \E off \in Nat : updated' = [updated EXCEPT ![f] = NewCursor(f, start, off)]
    <2>1. CASE SkipFile(f)
      BY <2>1 DEF SkipFile, TypeOK
    <2>2. CASE SkipOversized(f)
      BY <1>3, <2>2 DEF SkipOversized, TypeOK, start, data
    <2>3. CASE ReadFails(f)
      <3>1. batch' = batch /\ updated' = updated /\ faults' = faults + 1
        BY <2>3 DEF ReadFails, Fault
      <3> QED
        BY <3>1 DEF TypeOK
    <2>4. CASE ConsumeLines(f)
      <3>1. PICK last \in Newlines(data, start) :
              /\ batch' = batch \cup ParsedLines(data, start, last)
              /\ updated' = [updated EXCEPT ![f] = NewCursor(f, start, last)]
        BY <2>4 DEF ConsumeLines, start, data
      <3>2. last \in Nat /\ last <= Len(data)
        BY <1>3
      <3>3. ParsedLines(data, start, last) \subseteq Events
        <4>1. ASSUME NEW k \in (start + 1) .. last PROVE data[k].ev \in Events
          <5>1. k \in 1 .. Len(data)
            BY <1>3, <3>2
          <5>2. data[k] \in Chunk
            BY <1>3, <5>1
          <5> QED
            BY <5>2 DEF Chunk
        <4> QED
          BY <4>1 DEF ParsedLines
      <3>4. faults' = faults
        BY <2>4 DEF ConsumeLines
      <3> QED
        BY <3>1, <3>2, <3>3, <3>4 DEF TypeOK
    <2> QED
      BY <2>1, <2>2, <2>3, <2>4 DEF ReadOne
  <1>5. /\ updated' \in [Files -> Cursor]
        /\ \A g \in Files : /\ updated'[g].id \in {updated[g].id, 0, file[g].id}
                            /\ updated'[g].off > 0 => updated'[g].inode # 0
    <2>1. CASE updated' = updated
      BY <2>1 DEF TypeOK, Named
    <2>2. CASE \E off \in Nat : updated' = [updated EXCEPT ![f] = NewCursor(f, start, off)]
      BY <1>3, <2>2 DEF TypeOK, Named
    <2> QED
      BY <1>4, <2>1, <2>2
  <1>6. TypeOK'
    <2>1. todo' \in Seq(Stat)
      BY <1>2, <1>3
    <2>2. changed' \in BOOLEAN
      BY <1>2 DEF TypeOK
    <2> QED
      BY <1>2, <1>4, <1>5, <2>1, <2>2 DEF TypeOK, Stat
  <1>7. Ids'
    <2>1. ASSUME NEW g \in Files PROVE updated'[g].id <= lastId
      <3>1. updated[g].id <= lastId /\ file[g].id <= lastId /\ 0 <= lastId
        BY DEF Ids, TypeOK
      <3> QED
        BY <1>5, <3>1
    <2> QED
      BY <1>2, <2>1, DirectoryFrame DEF Ids
  <1> QED
    BY <1>2, <1>5, <1>6, <1>7, DirectoryFrame DEF Named

LEMMA CommitTypeInv ==
  ASSUME TypeInv, Commit \/ CommitUnacknowledged
  PROVE  TypeInv'
  <1> USE DEF TypeInv
  <1>1. /\ UNCHANGED <<file, order, lastId, chunks, changed, published, cursors, todo, batch, updated>>
        /\ stored' = stored \cup Usable(batch)
        /\ cursor' = [f \in Files |-> IF updated[f].off > 0 THEN updated[f] ELSE cursor[f]]
    BY DEF Commit, CommitUnacknowledged, Save, env, cycle
  <1>2. /\ pc' \in {"waiting", "load", "walk", "read", "commit", "publish"}
        /\ faults' \in Nat
    <2>1. CASE Commit
      BY <2>1 DEF Commit, cycle, TypeOK
    <2>2. CASE CommitUnacknowledged
      BY <2>2 DEF CommitUnacknowledged, Fault, TypeOK
    <2> QED
      BY <2>1, <2>2
  <1>3. \A f \in Files : /\ cursor'[f] \in Cursor
                         /\ cursor'[f].id <= lastId
                         /\ cursor'[f].off > 0 => cursor'[f].inode # 0
    BY <1>1 DEF TypeOK, Ids, Named
  <1>4. stored' \subseteq Events
    BY <1>1 DEF Usable, TypeOK
  <1>5. TypeOK'
    <2>1. cursor' \in [Files -> Cursor]
      <3> DEFINE saved(f) == IF updated[f].off > 0 THEN updated[f] ELSE cursor[f]
      <3>1. \A f \in Files : saved(f) \in Cursor
        BY DEF TypeOK
      <3>2. cursor' = [f \in Files |-> saved(f)]
        BY <1>1
      <3> HIDE DEF saved
      <3> QED
        BY <3>1, <3>2
    <2>2. changed' \in BOOLEAN
      BY <1>1 DEF TypeOK
    <2>3. \A f \in Files : cursor'[f].off > 0 => cursor'[f].inode # 0
      BY <1>3
    <2> QED
      BY <1>1, <1>2, <1>4, <2>1, <2>2, <2>3 DEF TypeOK
  <1>6. Ids'
    BY <1>1, <1>3, DirectoryFrame DEF Ids
  <1> QED
    BY <1>1, <1>5, <1>6, DirectoryFrame DEF Named

LEMMA StepTypeInv == TypeInv /\ [Next]_vars => TypeInv'
  <1> SUFFICES ASSUME TypeInv, [Next]_vars PROVE TypeInv'
    OBVIOUS
  <1>1. ASSUME NEW f \in Files, Sensors(f) PROVE TypeInv'
    <2>1. CASE Create(f)
      BY <2>1, CreateTypeInv
    <2>2. CASE StartLine(f) \/ ContinueLine(f)
      BY <2>2, WriteLineTypeInv
    <2>3. CASE RotateOut(f)
      BY <2>3, RotateOutTypeInv
    <2>4. ASSUME NEW g \in Files, RotateTo(f, g) PROVE TypeInv'
      BY <2>4, RotateToTypeInv
    <2>5. CASE Truncate(f)
      BY <2>5, TruncateTypeInv
    <2> QED
      BY <1>1, <2>1, <2>2, <2>3, <2>4, <2>5 DEF Sensors
  <1>2. ASSUME NEW f \in Files, ReadOne(f) \/ ReadFails(f) PROVE TypeInv'
    BY <1>2, ReadTypeInv
  <1>3. CASE Wake \/ Sweep \/ CommitFails \/ CycleFails \/ EndRead \/ Publish
    BY <1>3, WakeTypeInv
  <1>4. CASE LoadCursors \/ Crash
    BY <1>4, LoadTypeInv
  <1>5. CASE Walk
    BY <1>5, WalkTypeInv
  <1>6. CASE Commit \/ CommitUnacknowledged
    BY <1>6, CommitTypeInv
  <1>7. CASE UNCHANGED vars
    BY <1>7 DEF vars, env, db, cycle, TypeInv, TypeOK, Listed, Ids, Named
  <1> QED
    BY <1>1, <1>2, <1>3, <1>4, <1>5, <1>6, <1>7 DEF Next

LEMMA TypeInvariant == Spec => []TypeInv
  <1> QED
    BY InitTypeInv, StepTypeInv, PTL DEF Spec

(* Every variable keeps its type, whatever the sensors and the faults do,  *)
(* and a saved offset always comes with the inode it is about, so that     *)
(* _resolve_offset can tell when the path has been rotated.                *)
THEOREM TypeCorrect == Spec => []TypeOK
  <1>1. TypeInv => TypeOK
    BY DEF TypeInv
  <1> QED
    BY <1>1, TypeInvariant, PTL

-----------------------------------------------------------------------------
(* A file is made of lines: chunk k belongs to a line whose chunks lie next *)
(* to each other, and a line begins where the one before it ended.         *)
MadeOfLines(data) ==
  \A k \in 1 .. Len(data) :
    /\ data[k].pos <= k
    /\ data[k].pos <= LineLen[data[k].ev]
    /\ data[k].pos = 1 /\ k > 1 => EndsLine(data[k - 1])
    /\ \A j \in (k - data[k].pos + 1) .. k :
         data[j] = [ev |-> data[k].ev, pos |-> data[k].pos - (k - j)]

(* An offset at which a read may start: the end of a line, or somewhere in *)
(* a line that is being given up.                                          *)
AtBoundary(data, off) ==
  \/ off = 0
  \/ EndsLine(data[off])
  \/ LineLen[data[off].ev] > MAX_BYTES_PER_FILE

(* c vouches for the content it was read from: the lines before its offset *)
(* are all in events.                                                      *)
Vouches(c, events) ==
  \A g \in Files :
    c.id # 0 /\ c.id = file[g].id =>
      /\ c.off <= Len(file[g].data)
      /\ AtBoundary(file[g].data, c.off)
      /\ Covers(events, file[g].data, c.off)

Vouching ==
  \A f \in Files :
    /\ Vouches(cursor[f], stored)
    /\ Vouches(cursors[f], stored)
    /\ Vouches(updated[f], stored \cup Usable(batch))

VouchInv ==
  /\ \A f \in Files : MadeOfLines(file[f].data)
  /\ Vouching

LEMMA ChunkFields ==
  ASSUME NEW c \in Chunk
  PROVE  /\ c = [ev |-> c.ev, pos |-> c.pos]
         /\ c.ev \in Events
         /\ c.pos \in Nat \ {0}
         /\ LineLen[c.ev] \in Nat \ {0}
  BY LinesAssumption DEF Chunk

LEMMA ChunkOf ==
  ASSUME NEW data \in Seq(Chunk), MadeOfLines(data), NEW k \in 1 .. Len(data)
  PROVE  /\ data[k] \in Chunk
         /\ data[k].ev \in Events
         /\ data[k].pos \in Nat \ {0}
         /\ data[k].pos <= k
         /\ LineLen[data[k].ev] \in Nat \ {0}
         /\ data[k].pos <= LineLen[data[k].ev]
  <1>1. data[k] \in Chunk
    OBVIOUS
  <1>2. data[k].pos <= k /\ data[k].pos <= LineLen[data[k].ev]
    BY DEF MadeOfLines
  <1> QED
    BY <1>1, <1>2, ChunkFields

(* Reading on from a boundary never starts inside a line that is kept.     *)
LEMMA NoPartialLine ==
  ASSUME NEW data \in Seq(Chunk), MadeOfLines(data),
         NEW k \in 1 .. Len(data), NEW start \in Nat,
         start < k, AtBoundary(data, start),
         LineLen[data[k].ev] <= MAX_BYTES_PER_FILE
  PROVE  k - data[k].pos >= start
  <1>1. data[k] \in Chunk /\ data[k].pos \in Nat \ {0} /\ data[k].pos <= k
    BY ChunkOf
  <1> SUFFICES ASSUME k - data[k].pos < start PROVE FALSE
    BY <1>1
  <1>2. start \in (k - data[k].pos + 1) .. k /\ start # 0
    BY <1>1
  <1>3. data[start] = [ev |-> data[k].ev, pos |-> data[k].pos - (k - start)]
    BY <1>2 DEF MadeOfLines
  <1>4. data[start].ev = data[k].ev /\ data[start].pos < data[k].pos
    BY <1>1, <1>3
  <1>5. LineLen[data[k].ev] \in Nat /\ data[k].pos <= LineLen[data[k].ev]
    BY ChunkOf
  <1>6. data[start].pos # LineLen[data[start].ev]
    <2>1. data[start].pos \in Int
      BY <1>1, <1>3
    <2> QED
      BY <1>1, <1>4, <1>5, <2>1
  <1>7. ~ (LineLen[data[start].ev] > MAX_BYTES_PER_FILE)
    BY <1>4, <1>5, LimitsAssumption
  <1> QED
    BY <1>2, <1>6, <1>7 DEF AtBoundary, EndsLine

(* A full read without a newline is inside a line that is too long.        *)
LEMMA OversizedLine ==
  ASSUME NEW data \in Seq(Chunk), MadeOfLines(data), NEW start \in Nat,
         NEW off \in 1 .. Len(data), off = start + MAX_BYTES_PER_FILE,
         \A k \in (start + 1) .. off : ~ EndsLine(data[k])
  PROVE  LineLen[data[off].ev] > MAX_BYTES_PER_FILE
  <1>0. MAX_BYTES_PER_FILE \in Nat \ {0} /\ off \in Nat
    BY LimitsAssumption
  <1>1. data[off] \in Chunk /\ data[off].pos \in Nat \ {0} /\ data[off].pos <= off
    BY ChunkOf
  <1>2. LineLen[data[off].ev] \in Nat /\ data[off].pos <= LineLen[data[off].ev]
    BY ChunkOf
  <1>3. data[off].pos # LineLen[data[off].ev]
    BY <1>0 DEF EndsLine
  <1>4. off - data[off].pos <= start
    <2> SUFFICES ASSUME off - data[off].pos > start PROVE FALSE
      BY <1>0, <1>1
    <2> DEFINE b == off - data[off].pos + 1
    <2>1. b \in (off - data[off].pos + 1) .. off /\ b \in 1 .. Len(data) /\ b > 1
      BY <1>0, <1>1
    <2>2. data[b] = [ev |-> data[off].ev, pos |-> data[off].pos - (off - b)]
      BY <2>1 DEF MadeOfLines
    <2>3. data[b].pos = 1
      BY <1>0, <1>1, <2>2
    <2>4. EndsLine(data[b - 1])
      BY <2>1, <2>3 DEF MadeOfLines
    <2>5. b - 1 \in (start + 1) .. off
      BY <1>0, <1>1
    <2> QED
      BY <2>4, <2>5
  <1> QED
    BY <1>0, <1>1, <1>2, <1>3, <1>4

(* What a new chunk does to a file made of lines.                          *)
LEMMA AppendLine ==
  ASSUME NEW data \in Seq(Chunk), MadeOfLines(data), NEW c \in Chunk,
         c.pos <= LineLen[c.ev],
         \/ c.pos = 1 /\ ~ MidLine(data)
         \/ /\ data # <<>>
            /\ c = [data[Len(data)] EXCEPT !.pos = @ + 1]
  PROVE  MadeOfLines(Append(data, c))
  <1> DEFINE n == Len(data)
             d == Append(data, c)
  <1>1. /\ n \in Nat
        /\ Len(d) = n + 1
        /\ \A k \in 1 .. n : d[k] = data[k]
        /\ d[n + 1] = c
    BY AppendProperties
  <1>2. \A k \in 1 .. n : data[k] \in Chunk /\ data[k].pos \in Nat \ {0}
    BY ChunkOf
  <1>3. \A k \in 1 .. n :
          /\ data[k].pos <= k
          /\ data[k].pos <= LineLen[data[k].ev]
          /\ data[k].pos = 1 /\ k > 1 => EndsLine(data[k - 1])
          /\ \A j \in (k - data[k].pos + 1) .. k :
               data[j] = [ev |-> data[k].ev, pos |-> data[k].pos - (k - j)]
    BY DEF MadeOfLines
  <1>4. /\ c.pos \in Nat \ {0}
        /\ c = [ev |-> c.ev, pos |-> c.pos]
    BY ChunkFields
  <1>8. \/ c.pos = 1 /\ (n = 0 \/ EndsLine(data[n]))
        \/ n > 0 /\ c = [data[n] EXCEPT !.pos = @ + 1]
    <2>1. data = <<>> \/ n > 0
      OBVIOUS
    <2>2. CASE c.pos = 1 /\ ~ MidLine(data)
      BY <2>1, <2>2 DEF MidLine
    <2>3. CASE data # <<>> /\ c = [data[Len(data)] EXCEPT !.pos = @ + 1]
      BY <2>1, <2>3
    <2> QED
      BY <2>2, <2>3
  <1> HIDE DEF n, d
  <1>5. ASSUME NEW k \in 1 .. n
        PROVE  /\ d[k].pos <= k
               /\ d[k].pos <= LineLen[d[k].ev]
               /\ d[k].pos = 1 /\ k > 1 => EndsLine(d[k - 1])
               /\ \A j \in (k - d[k].pos + 1) .. k :
                    d[j] = [ev |-> d[k].ev, pos |-> d[k].pos - (k - j)]
    <2>1. d[k] = data[k]
      BY <1>1
    <2>2. k > 1 => d[k - 1] = data[k - 1]
      BY <1>1
    <2>3. ASSUME NEW j \in (k - d[k].pos + 1) .. k
          PROVE  d[j] = [ev |-> d[k].ev, pos |-> d[k].pos - (k - j)]
      <3>1. j \in 1 .. n
        BY <1>1, <1>2, <1>3, <2>1
      <3> QED
        BY <1>1, <1>3, <2>1, <3>1
    <2> QED
      BY <1>3, <2>1, <2>2, <2>3
  <1>6. LET k == n + 1 IN
        /\ d[k].pos <= k
        /\ d[k].pos <= LineLen[d[k].ev]
        /\ d[k].pos = 1 /\ k > 1 => EndsLine(d[k - 1])
        /\ \A j \in (k - d[k].pos + 1) .. k :
             d[j] = [ev |-> d[k].ev, pos |-> d[k].pos - (k - j)]
    <2>1. CASE c.pos = 1 /\ (n = 0 \/ EndsLine(data[n]))
      BY <1>1, <1>4, <2>1
    <2>2. CASE n > 0 /\ c = [data[n] EXCEPT !.pos = @ + 1]
      <3>1. n \in 1 .. n /\ data[n] \in Chunk /\ data[n].pos \in Nat \ {0}
        BY <1>1, <1>2, <2>2
      <3>2. c.pos = data[n].pos + 1 /\ c.ev = data[n].ev
        BY <2>2, <3>1 DEF Chunk
      <3>3. c.pos <= n + 1 /\ c.pos # 1
        BY <1>1, <1>3, <3>1, <3>2
      <3>4. ASSUME NEW j \in ((n + 1) - c.pos + 1) .. (n + 1)
            PROVE  d[j] = [ev |-> c.ev, pos |-> c.pos - ((n + 1) - j)]
        <4>1. CASE j = n + 1
          BY <1>1, <1>4, <4>1
        <4>2. CASE j # n + 1
          <5>1. j \in (n - data[n].pos + 1) .. n /\ j \in 1 .. n
            BY <1>1, <1>3, <3>1, <3>2, <4>2
          <5>2. data[j] = [ev |-> data[n].ev, pos |-> data[n].pos - (n - j)]
            BY <1>3, <3>1, <5>1
          <5>3. data[n].pos - (n - j) = c.pos - ((n + 1) - j)
            BY <1>1, <3>1, <3>2
          <5> QED
            BY <1>1, <3>2, <5>1, <5>2, <5>3
        <4> QED
          BY <4>1, <4>2
      <3> QED
        BY <1>1, <3>3, <3>4
    <2> QED
      BY <1>8, <2>1, <2>2
  <1>7. ASSUME NEW k \in 1 .. (n + 1)
        PROVE  /\ d[k].pos <= k
               /\ d[k].pos <= LineLen[d[k].ev]
               /\ d[k].pos = 1 /\ k > 1 => EndsLine(d[k - 1])
               /\ \A j \in (k - d[k].pos + 1) .. k :
                    d[j] = [ev |-> d[k].ev, pos |-> d[k].pos - (k - j)]
    <2>1. CASE k = n + 1
      BY <1>6, <2>1
    <2>2. CASE k # n + 1
      <3>1. k \in 1 .. n
        BY <1>1, <2>2
      <3> QED
        BY <1>5, <3>1
    <2> QED
      BY <2>1, <2>2
  <1> QED
    BY <1>1, <1>7 DEF MadeOfLines, d

(* Sensors append to a file, move it, or start an incarnation that no      *)
(* cursor knows: what the cursors vouch for stays true.                    *)
FileGrew(g) ==
  \/ file'[g].id = 0
  \/ file'[g].id > lastId
  \/ \E h \in Files :
       /\ file[h].id = file'[g].id
       /\ Len(file[h].data) <= Len(file'[g].data)
       /\ \A k \in 1 .. Len(file[h].data) : file'[g].data[k] = file[h].data[k]

LEMMA VouchesGrowing ==
  ASSUME TypeInv, \A g \in Files : FileGrew(g),
         NEW c \in Cursor, c.id <= lastId, NEW events, Vouches(c, events)
  PROVE  Vouches(c, events)'
  <1> SUFFICES ASSUME NEW g \in Files, c.id # 0, c.id = file'[g].id
               PROVE  /\ c.off <= Len(file'[g].data)
                      /\ AtBoundary(file'[g].data, c.off)
                      /\ Covers(events, file'[g].data, c.off)
    BY DEF Vouches
  <1>1. c.id \in Nat /\ c.off \in Nat /\ lastId \in Nat
    BY DEF Cursor, TypeInv, TypeOK
  <1>2. PICK h \in Files :
          /\ file[h].id = file'[g].id
          /\ Len(file[h].data) <= Len(file'[g].data)
          /\ \A k \in 1 .. Len(file[h].data) : file'[g].data[k] = file[h].data[k]
    BY <1>1 DEF FileGrew
  <1> DEFINE old == file[h].data
             new == file'[g].data
  <1>3. /\ c.off <= Len(old)
        /\ AtBoundary(old, c.off)
        /\ Covers(events, old, c.off)
    BY <1>2 DEF Vouches
  <1>4. Len(old) \in Nat
    BY DEF TypeInv, TypeOK, File
  <1>5. \A k \in 1 .. c.off : new[k] = old[k]
    BY <1>1, <1>2, <1>3, <1>4
  <1>6. Len(old) <= Len(new)
    BY <1>2
  <1>7. c.off <= Len(new)
    BY <1>1, <1>2, <1>3, <1>4
  <1> HIDE DEF old, new
  <1>8. AtBoundary(new, c.off)
    <2>1. CASE c.off = 0
      BY <2>1 DEF AtBoundary
    <2>2. CASE c.off # 0
      <3>1. c.off \in 1 .. c.off
        BY <1>1, <2>2
      <3> QED
        BY <1>3, <1>5, <3>1 DEF AtBoundary
    <2> QED
      BY <2>1, <2>2
  <1>9. Covers(events, new, c.off)
    BY <1>3, <1>5 DEF Covers
  <1> QED
    BY <1>7, <1>8, <1>9 DEF new

LEMMA VouchingGrowing ==
  ASSUME TypeInv, Vouching, \A g \in Files : FileGrew(g),
         UNCHANGED <<cursor, stored, cursors, batch, updated>>
  PROVE  Vouching'
  <1>1. ASSUME NEW f \in Files
        PROVE  /\ Vouches(cursor[f], stored)'
               /\ Vouches(cursors[f], stored)'
               /\ Vouches(updated[f], stored \cup Usable(batch))'
    <2>1. \A c \in {cursor[f], cursors[f], updated[f]} : c \in Cursor /\ c.id <= lastId
      BY DEF TypeInv, TypeOK, Ids
    <2>2. /\ Vouches(cursor[f], stored)
          /\ Vouches(cursors[f], stored)
          /\ Vouches(updated[f], stored \cup Usable(batch))
      BY DEF Vouching
    <2> DEFINE c1 == cursor[f]
               c2 == cursors[f]
               c3 == updated[f]
               e1 == stored
               e3 == stored \cup Usable(batch)
    <2>3. \A g \in Files :
            /\ c1.id # 0 /\ c1.id = file'[g].id =>
                 /\ c1.off <= Len(file'[g].data)
                 /\ AtBoundary(file'[g].data, c1.off)
                 /\ Covers(e1, file'[g].data, c1.off)
            /\ c2.id # 0 /\ c2.id = file'[g].id =>
                 /\ c2.off <= Len(file'[g].data)
                 /\ AtBoundary(file'[g].data, c2.off)
                 /\ Covers(e1, file'[g].data, c2.off)
            /\ c3.id # 0 /\ c3.id = file'[g].id =>
                 /\ c3.off <= Len(file'[g].data)
                 /\ AtBoundary(file'[g].data, c3.off)
                 /\ Covers(e3, file'[g].data, c3.off)
      BY <2>1, <2>2, VouchesGrowing DEF Vouches
    <2> QED
      BY <2>3 DEF Vouches, Usable
  <1> QED
    BY <1>1 DEF Vouching

LEMMA EmptyMadeOfLines == MadeOfLines(<<>>)
  BY DEF MadeOfLines

LEMMA WriteVouch ==
  ASSUME TypeInv, VouchInv, NEW f \in Files, NEW c \in Chunk, Write(f, c),
         c.pos <= LineLen[c.ev],
         \/ c.pos = 1 /\ ~ MidLine(file[f].data)
         \/ /\ file[f].data # <<>>
            /\ c = [file[f].data[Len(file[f].data)] EXCEPT !.pos = @ + 1]
  PROVE  VouchInv'
  <1>1. file[f].data \in Seq(Chunk) /\ file \in [Files -> File]
    BY DEF TypeInv, TypeOK, File
  <1>2. /\ \A g \in Files \ {f} : file'[g] = file[g]
        /\ file'[f].id = file[f].id
        /\ file'[f].data = Append(file[f].data, c)
    BY <1>1 DEF Write, File
  <1>3. MadeOfLines(Append(file[f].data, c))
    BY <1>1, AppendLine DEF VouchInv
  <1>4. /\ Len(file[f].data) <= Len(file'[f].data)
        /\ \A k \in 1 .. Len(file[f].data) : file'[f].data[k] = file[f].data[k]
    BY <1>1, <1>2, AppendProperties
  <1>5. ASSUME NEW g \in Files PROVE FileGrew(g)
    <2>1. CASE g = f
      BY <1>2, <1>4, <2>1 DEF FileGrew
    <2>2. CASE g # f
      <3>1. Len(file[g].data) <= Len(file[g].data)
        BY DEF TypeInv, TypeOK, File
      <3> QED
        BY <1>2, <2>2, <3>1 DEF FileGrew
    <2> QED
      BY <2>1, <2>2
  <1>6. UNCHANGED <<cursor, stored, cursors, batch, updated>>
    BY DEF Write, db, cycle
  <1>7. Vouching'
    BY <1>5, <1>6, VouchingGrowing DEF VouchInv
  <1>8. \A g \in Files : MadeOfLines(file'[g].data)
    BY <1>2, <1>3 DEF VouchInv
  <1> QED
    BY <1>7, <1>8 DEF VouchInv, MadeOfLines

LEMMA WriteLineVouch ==
  ASSUME TypeInv, VouchInv, NEW f \in Files, StartLine(f) \/ ContinueLine(f)
  PROVE  VouchInv'
  <1>1. CASE StartLine(f)
    <2>1. PICK e \in Events : Write(f, [ev |-> e, pos |-> 1])
      BY <1>1 DEF StartLine
    <2>2. [ev |-> e, pos |-> 1] \in Chunk /\ 1 <= LineLen[e]
      BY LinesAssumption DEF Chunk
    <2>3. ~ MidLine(file[f].data)
      BY <1>1 DEF StartLine
    <2> QED
      BY <2>1, <2>2, <2>3, WriteVouch
  <1>2. CASE ContinueLine(f)
    <2> DEFINE d == file[f].data
               c == [d[Len(d)] EXCEPT !.pos = @ + 1]
    <2>1. Write(f, c) /\ d # <<>> /\ ~ EndsLine(d[Len(d)])
      BY <1>2 DEF ContinueLine, MidLine
    <2>2. d \in Seq(Chunk) /\ MadeOfLines(d)
      BY DEF TypeInv, TypeOK, File, VouchInv
    <2>3. Len(d) \in 1 .. Len(d)
      BY <2>1, <2>2
    <2>4. /\ d[Len(d)] \in Chunk
          /\ d[Len(d)].pos \in Nat
          /\ LineLen[d[Len(d)].ev] \in Nat
          /\ d[Len(d)].pos <= LineLen[d[Len(d)].ev]
      BY <2>2, <2>3, ChunkOf
    <2>5. c \in Chunk /\ c.pos = d[Len(d)].pos + 1 /\ c.ev = d[Len(d)].ev
      BY <2>4 DEF Chunk
    <2>6. c.pos <= LineLen[c.ev]
      BY <2>1, <2>4, <2>5 DEF EndsLine
    <2> QED
      BY <2>1, <2>5, <2>6, WriteVouch
  <1> QED
    BY <1>1, <1>2

(* Whatever else happens to the directory: a file's content is moved, or   *)
(* replaced by nothing.                                                    *)
LEMMA DirectoryVouch ==
  ASSUME TypeInv, VouchInv,
         NEW f \in Files,
         \/ Create(f) \/ RotateOut(f) \/ Truncate(f)
         \/ \E g \in Files : RotateTo(f, g)
  PROVE  VouchInv'
  <1> DEFINE Kept(h) == \E g \in Files : file'[h] = file[g]
             Fresh(h) == /\ file'[h].data = <<>>
                         /\ file'[h].id = 0 \/ file'[h].id > lastId
  <1>0. lastId \in Nat /\ file \in [Files -> File]
    BY DEF TypeInv, TypeOK
  <1>1. ASSUME NEW h \in Files PROVE Kept(h) \/ Fresh(h)
    <2>1. CASE Create(f)
      BY <1>0, <2>1 DEF Create
    <2>2. CASE RotateOut(f)
      BY <1>0, <2>2 DEF RotateOut, NoFile
    <2>3. CASE Truncate(f)
      BY <1>0, <2>3 DEF Truncate, File
    <2>4. ASSUME NEW g \in Files, RotateTo(f, g) PROVE Kept(h) \/ Fresh(h)
      BY <1>0, <2>4 DEF RotateTo, NoFile
    <2> QED
      BY <2>1, <2>2, <2>3, <2>4
  <1>2. UNCHANGED <<cursor, stored, cursors, batch, updated>>
    BY DEF Create, RotateOut, Truncate, RotateTo, db, cycle
  <1>3. ASSUME NEW h \in Files PROVE FileGrew(h) /\ MadeOfLines(file'[h].data)
    <2>1. CASE Fresh(h)
      BY <2>1, EmptyMadeOfLines DEF FileGrew
    <2>2. CASE Kept(h)
      <3>1. PICK g \in Files : file'[h] = file[g]
        BY <2>2
      <3>2. Len(file[g].data) <= Len(file[g].data)
        BY <1>0 DEF File
      <3> QED
        BY <3>1, <3>2 DEF FileGrew, VouchInv
    <2> QED
      BY <1>1, <2>1, <2>2
  <1>4. Vouching'
    BY <1>2, <1>3, VouchingGrowing DEF VouchInv
  <1> QED
    BY <1>3, <1>4 DEF VouchInv, MadeOfLines

LEMMA CoversMore ==
  ASSUME NEW events, NEW more, events \subseteq more, NEW data, NEW off, Covers(events, data, off)
  PROVE  Covers(more, data, off)
  BY DEF Covers

LEMMA VouchesMore ==
  ASSUME NEW events, NEW more, events \subseteq more, NEW c, Vouches(c, events)
  PROVE  Vouches(c, more)
  BY CoversMore DEF Vouches

LEMMA NoCursorVouches == ASSUME NEW events PROVE Vouches(NoCursor, events)
  BY DEF Vouches, NoCursor

LEMMA InitVouch == Init => VouchInv
  <1> SUFFICES ASSUME Init PROVE VouchInv
    OBVIOUS
  <1>1. \A f \in Files : file[f].data = <<>>
    BY DEF Init, NoFile
  <1> QED
    BY <1>1, EmptyMadeOfLines, NoCursorVouches DEF Init, VouchInv, Vouching

(* What one read leaves behind, in updated and in batch.                   *)
LEMMA ConsumeVouches ==
  ASSUME TypeInv, VouchInv, NEW f \in Files, Reading(f),
         NEW off \in 1 .. Len(file[f].data), NEW events, stored \subseteq events,
         LET start == ResolveOffset(cursors[f], Head(todo))
         IN  /\ AtBoundary(file[f].data, off)
             /\ \A k \in (start + 1) .. off :
                  /\ EndsLine(file[f].data[k])
                  /\ file[f].data[k].ev \notin Unusable
                  /\ k - file[f].data[k].pos >= start
                  => file[f].data[k].ev \in events
  PROVE  Vouches(NewCursor(f, ResolveOffset(cursors[f], Head(todo)), off), events)
  <1> DEFINE start == ResolveOffset(cursors[f], Head(todo))
             data == file[f].data
             c == NewCursor(f, start, off)
  <1>1. data \in Seq(Chunk) /\ start \in Nat /\ (start = 0 \/ start = cursors[f].off)
    BY ReadType
  <1>2. MadeOfLines(data)
    BY DEF VouchInv
  <1>3. /\ c.off = off
        /\ c.id = IF start = 0 \/ cursors[f].id = file[f].id THEN file[f].id ELSE 0
    BY DEF NewCursor
  <1>4. /\ AtBoundary(data, off)
        /\ \A k \in (start + 1) .. off :
             /\ EndsLine(data[k])
             /\ data[k].ev \notin Unusable
             /\ k - data[k].pos >= start
             => data[k].ev \in events
    OBVIOUS
  <1>5. off \in Nat /\ off <= Len(data) /\ Len(data) \in Nat
    BY <1>1
  <1> SUFFICES ASSUME NEW g \in Files, c.id # 0, c.id = file[g].id
               PROVE  /\ c.off <= Len(file[g].data)
                      /\ AtBoundary(file[g].data, c.off)
                      /\ Covers(events, file[g].data, c.off)
    BY DEF Vouches
  <1>6. c.id = file[f].id /\ g = f
    BY <1>3 DEF TypeInv, Ids
  <1>7. start = 0 \/ cursors[f].id = file[f].id
    BY <1>3, <1>6
  <1>8. start # 0 => AtBoundary(data, start) /\ Covers(stored, data, start)
    BY <1>1, <1>6, <1>7 DEF VouchInv, Vouching, Vouches
  <1>9. AtBoundary(data, start)
    BY <1>8 DEF AtBoundary
  <1> HIDE DEF start, data, c
  <1>10. ASSUME NEW k \in 1 .. off,
                EndsLine(data[k]), data[k].ev \notin Unusable,
                LineLen[data[k].ev] <= MAX_BYTES_PER_FILE
         PROVE  data[k].ev \in events
    <2>1. CASE k <= start
      <3>1. k \in 1 .. start /\ start # 0
        BY <1>1, <2>1
      <3> QED
        BY <1>8, <1>10, <3>1 DEF Covers
    <2>2. CASE ~ (k <= start)
      <3>1. k \in (start + 1) .. off /\ k \in 1 .. Len(data) /\ start < k
        BY <1>1, <1>5, <2>2
      <3>2. k - data[k].pos >= start
        BY <1>1, <1>2, <1>9, <1>10, <3>1, NoPartialLine
      <3> QED
        BY <1>4, <1>10, <3>1, <3>2
    <2> QED
      BY <2>1, <2>2
  <1>11. Covers(events, data, off)
    BY <1>10 DEF Covers
  <1> QED
    BY <1>3, <1>4, <1>5, <1>6, <1>11 DEF data

LEMMA ReadVouch ==
  ASSUME TypeInv, VouchInv, NEW f \in Files, ReadOne(f) \/ ReadFails(f)
  PROVE  VouchInv'
  <1> DEFINE start == ResolveOffset(cursors[f], Head(todo))
             data == file[f].data
             events == stored \cup Usable(batch')
  <1>1. Reading(f) /\ NextFile
    BY DEF ReadOne, ReadFails, SkipFile, SkipOversized, ConsumeLines
  <1>2. UNCHANGED <<file, cursor, stored, cursors>>
    BY <1>1 DEF NextFile, env, db
  <1>3. /\ data \in Seq(Chunk)
        /\ start \in Nat
        /\ ReadEnd(data, start) \in Nat
        /\ ReadEnd(data, start) <= Len(data)
        /\ ReadEnd(data, start) <= start + MAX_BYTES_PER_FILE
        /\ Newlines(data, start) \subseteq 1 .. Len(data)
    BY <1>1, ReadType
  <1> HIDE DEF start, data
  <1>4. /\ batch \subseteq batch'
        /\ \/ updated' = updated
           \/ \E off \in Nat : /\ updated' = [updated EXCEPT ![f] = NewCursor(f, start, off)]
                               /\ Vouches(NewCursor(f, start, off), events)
    <2>1. CASE SkipFile(f) \/ ReadFails(f)
      BY <2>1 DEF SkipFile, ReadFails
    <2>2. CASE SkipOversized(f)
      <3> DEFINE off == ReadEnd(data, start)
      <3>1. /\ Newlines(data, start) = {}
            /\ off - start = MAX_BYTES_PER_FILE
            /\ updated' = [updated EXCEPT ![f] = NewCursor(f, start, off)]
            /\ batch' = batch
        BY <2>2 DEF SkipOversized, start, data
      <3>2. MAX_BYTES_PER_FILE \in Nat \ {0}
        BY LimitsAssumption
      <3>3. off \in 1 .. Len(data) /\ off = start + MAX_BYTES_PER_FILE
        BY <1>3, <3>1, <3>2
      <3>4. \A k \in (start + 1) .. off : ~ EndsLine(data[k])
        BY <3>1 DEF Newlines
      <3> HIDE DEF off
      <3>5. AtBoundary(data, off)
        <4>1. MadeOfLines(data)
          BY DEF VouchInv, data
        <4> QED
          BY <1>3, <3>3, <3>4, <4>1, OversizedLine DEF AtBoundary
      <3>6. Vouches(NewCursor(f, start, off), events)
        BY <1>1, <3>3, <3>4, <3>5, ConsumeVouches DEF start, data
      <3>7. off \in Nat
        BY <3>3, <1>3
      <3> QED
        BY <3>1, <3>6, <3>7 DEF off
    <2>3. CASE ConsumeLines(f)
      <3>1. PICK last \in Newlines(data, start) :
              /\ \A k \in Newlines(data, start) : k <= last
              /\ batch' = batch \cup ParsedLines(data, start, last)
              /\ updated' = [updated EXCEPT ![f] = NewCursor(f, start, last)]
        BY <2>3 DEF ConsumeLines, start, data
      <3>2. last \in 1 .. Len(data) /\ last \in Nat
        BY <1>3
      <3>3. AtBoundary(data, last)
        BY DEF Newlines, AtBoundary
      <3>4. ASSUME NEW k \in (start + 1) .. last,
                   EndsLine(data[k]), data[k].ev \notin Unusable,
                   k - data[k].pos >= start
            PROVE  data[k].ev \in events
        BY <3>1, <3>4 DEF ParsedLines, Usable
      <3> HIDE DEF events
      <3>5. stored \subseteq events
        BY DEF events
      <3>6. Vouches(NewCursor(f, start, last), events)
        BY <1>1, <3>2, <3>3, <3>4, <3>5, ConsumeVouches DEF start, data
      <3> QED
        BY <3>1, <3>2, <3>6 DEF events
    <2> QED
      BY <2>1, <2>2, <2>3 DEF ReadOne
  <1>5. ASSUME NEW g \in Files
        PROVE  Vouches(updated'[g], events)
    <2>1. stored \cup Usable(batch) \subseteq events
      BY <1>4 DEF Usable
    <2>2. Vouches(updated[g], events)
      BY <2>1, VouchesMore DEF VouchInv, Vouching
    <2> QED
      BY <1>4, <2>2 DEF TypeInv, TypeOK
  <1>6. Vouching'
    BY <1>2, <1>5 DEF VouchInv, Vouching, Vouches, Usable
  <1> QED
    BY <1>2, <1>6 DEF VouchInv, MadeOfLines

LEMMA CycleVouch ==
  ASSUME TypeInv, VouchInv,
         \/ Wake \/ Sweep \/ Walk \/ EndRead \/ Publish \/ CommitFails \/ CycleFails
         \/ LoadCursors \/ Crash
         \/ Commit \/ CommitUnacknowledged
  PROVE  VouchInv'
  <1>1. file' = file
    BY DEF Wake, Sweep, Walk, EndRead, Publish, CommitFails, CycleFails,
           LoadCursors, Crash, Commit, CommitUnacknowledged, env
  <1>2. ASSUME NEW f \in Files
        PROVE  /\ Vouches(cursor'[f], stored')
               /\ Vouches(cursors'[f], stored')
               /\ Vouches(updated'[f], stored' \cup Usable(batch'))
    <2>0. /\ Vouches(cursor[f], stored)
          /\ Vouches(cursors[f], stored)
          /\ Vouches(updated[f], stored \cup Usable(batch))
      BY DEF VouchInv, Vouching
    <2>1. CASE Wake \/ Sweep \/ Walk \/ EndRead \/ Publish \/ CommitFails \/ CycleFails
      <3>1. UNCHANGED <<cursor, stored, cursors, batch, updated>>
        BY <2>1 DEF Wake, Sweep, Walk, EndRead, Publish, CommitFails, CycleFails, db, cycle
      <3> QED
        BY <2>0, <3>1
    <2>2. CASE LoadCursors \/ Crash
      <3>1. /\ UNCHANGED <<cursor, stored>>
            /\ cursors' = cursor \/ cursors' = [g \in Files |-> NoCursor]
            /\ updated' = [g \in Files |-> NoCursor]
        BY <2>2 DEF LoadCursors, Crash, EmptyCycle, db
      <3>2. updated'[f] = NoCursor /\ cursors'[f] \in {cursor[f], NoCursor}
        BY <3>1
      <3> QED
        BY <2>0, <3>1, <3>2, NoCursorVouches
    <2>3. CASE Commit \/ CommitUnacknowledged
      <3>1. /\ UNCHANGED <<cursors, batch, updated>>
            /\ stored' = stored \cup Usable(batch)
            /\ cursor' = [g \in Files |-> IF updated[g].off > 0 THEN updated[g] ELSE cursor[g]]
        BY <2>3 DEF Commit, CommitUnacknowledged, Save, cycle
      <3>2. cursor'[f] \in {updated[f], cursor[f]}
        BY <3>1
      <3>3. Vouches(cursor[f], stored') /\ Vouches(cursors[f], stored')
        BY <2>0, <3>1, VouchesMore
      <3>4. stored' = stored' \cup Usable(batch')
        BY <3>1
      <3> QED
        BY <2>0, <3>1, <3>2, <3>3, <3>4
    <2> QED
      BY <2>1, <2>2, <2>3
  <1>3. Vouching'
    BY <1>1, <1>2 DEF Vouching, Vouches, Usable
  <1> QED
    BY <1>1, <1>3 DEF VouchInv, MadeOfLines

LEMMA StepVouch == TypeInv /\ VouchInv /\ [Next]_vars => VouchInv'
  <1> SUFFICES ASSUME TypeInv, VouchInv, [Next]_vars PROVE VouchInv'
    OBVIOUS
  <1>1. ASSUME NEW f \in Files, Sensors(f) PROVE VouchInv'
    <2>1. CASE StartLine(f) \/ ContinueLine(f)
      BY <2>1, WriteLineVouch
    <2>2. CASE Create(f) \/ RotateOut(f) \/ Truncate(f) \/ \E g \in Files : RotateTo(f, g)
      BY <2>2, DirectoryVouch
    <2> QED
      BY <1>1, <2>1, <2>2 DEF Sensors
  <1>2. ASSUME NEW f \in Files, ReadOne(f) \/ ReadFails(f) PROVE VouchInv'
    BY <1>2, ReadVouch
  <1>3. CASE UNCHANGED vars
    BY <1>3 DEF vars, env, db, cycle, VouchInv, Vouching, Vouches, Usable, MadeOfLines
  <1> QED
    BY <1>1, <1>2, <1>3, CycleVouch DEF Next

(* For the very content it was read from, a saved offset never runs ahead  *)
(* of the rows: whatever interleaving of writers, rotations, failed        *)
(* transactions and crashes, every line before it is in the database.      *)
THEOREM OffsetsAreSafe == Spec => []CursorVouches
  <1>1. TypeInv /\ VouchInv => CursorVouches
    BY DEF VouchInv, Vouching, Vouches, CursorVouches
  <1>2. Spec => []VouchInv
    BY InitVouch, StepVouch, TypeInvariant, PTL DEF Spec
  <1> QED
    BY <1>1, <1>2, TypeInvariant, PTL

-----------------------------------------------------------------------------
(* A path meets an incarnation once: what is renamed stays in an archive   *)
(* name, so an inode that was at f and is elsewhere now never comes back.  *)
Seen(f, inode) ==
  /\ inode <= lastId
  /\ \A g \in Files \ {f} : file[g].inode = inode => g \in Archive

(* A cursor of f with the inode of a file that was not emptied in place    *)
(* was read from that very file.                                           *)
Home(f, c) ==
  /\ c.off > 0 => c.inode # 0
  /\ c.inode # 0 =>
       /\ Seen(f, c.inode)
       /\ c.inode = file[f].inode /\ Intact(f) => c.id = file[f].id

Inodes ==
  /\ \A f \in Files : file[f].inode <= lastId
  /\ \A f, g \in Files : file[f].inode = file[g].inode /\ file[f].inode # 0 => f = g

HomeInv ==
  /\ Inodes
  /\ \A k \in 1 .. Len(todo) : Seen(todo[k].key, todo[k].inode)
  /\ \A f \in Files : Home(f, cursor[f]) /\ Home(f, cursors[f]) /\ Home(f, updated[f])

LEMMA Entries ==
  ASSUME NEW S, NEW s \in Seq(S)
  PROVE  /\ Len(s) \in Nat
         /\ \A k \in 1 .. Len(s) : s[k] \in S
         /\ s # <<>> => 1 \in 1 .. Len(s) /\ Head(s) = s[1]
  OBVIOUS

LEMMA FileNumbers ==
  ASSUME TypeInv, NEW f \in Files
  PROVE  /\ lastId \in Nat /\ file[f].inode \in Nat /\ file[f].id \in Nat
         /\ cursor[f].inode \in Nat /\ cursors[f].inode \in Nat /\ updated[f].inode \in Nat
  BY DEF TypeInv, TypeOK, File, Cursor

(* The directory changes: a path keeps its inode, and is intact only if it *)
(* was, with the same id; or it is empty; or holds a new inode; or is an   *)
(* archive name that now holds what was at a live one.                     *)
KeepsFile(h) ==
  /\ file'[h].inode = file[h].inode
  /\ file'[h].id = file'[h].inode => file'[h].id = file[h].id

Receives(h) == h \in Archive /\ \E g \in Live : file'[h].inode = file[g].inode

DirectoryMoves ==
  /\ UNCHANGED <<cursor, cursors, updated, todo>>
  /\ lastId' \in Nat /\ lastId <= lastId'
  /\ \A h \in Files :
       \/ file'[h].inode = 0
       \/ KeepsFile(h)
       \/ file'[h].inode > lastId /\ file'[h].inode <= lastId'
       \/ Receives(h)

LEMMA SeenStays ==
  ASSUME TypeInv, HomeInv, DirectoryMoves, NEW f \in Files, NEW i \in Nat \ {0}, Seen(f, i)
  PROVE  Seen(f, i)'
  <1>1. lastId \in Nat /\ lastId' \in Nat /\ lastId <= lastId' /\ i <= lastId
    BY FileNumbers DEF DirectoryMoves, Seen
  <1>2. ASSUME NEW h \in Files \ {f}, file'[h].inode = i PROVE h \in Archive
    <2>1. CASE KeepsFile(h)
      BY <1>2, <2>1 DEF KeepsFile, Seen
    <2>2. CASE Receives(h)
      BY <2>2 DEF Receives
    <2>3. ~ (file'[h].inode = 0) /\ ~ (file'[h].inode > lastId)
      BY <1>1, <1>2
    <2> QED
      BY <2>1, <2>2, <2>3 DEF DirectoryMoves
  <1> QED
    BY <1>1, <1>2 DEF Seen

LEMMA HomeStays ==
  ASSUME TypeInv, HomeInv, DirectoryMoves, NEW f \in Files, NEW c,
         c.inode \in Nat, Home(f, c)
  PROVE  Home(f, c)'
  <1> SUFFICES ASSUME c.inode # 0
               PROVE  /\ Seen(f, c.inode)'
                      /\ c.inode = file'[f].inode /\ file'[f].id = file'[f].inode
                         => c.id = file'[f].id
    BY DEF Home, Intact
  <1>1. Seen(f, c.inode)
    BY DEF Home
  <1>2. Seen(f, c.inode)'
    BY <1>1, SeenStays
  <1>3. ASSUME c.inode = file'[f].inode, file'[f].id = file'[f].inode
        PROVE  c.id = file'[f].id
    <2>1. CASE KeepsFile(f)
      BY <1>3, <2>1 DEF KeepsFile, Home, Intact
    <2>2. CASE Receives(f)
      <3>1. PICK g \in Live : file'[f].inode = file[g].inode
        BY <2>2 DEF Receives
      <3>2. f \in Archive /\ g \notin Archive /\ g \in Files \ {f}
        BY <2>2, FilesAssumption DEF Receives, Files
      <3> QED
        BY <1>1, <1>3, <3>1, <3>2 DEF Seen
    <2>3. ~ (file'[f].inode = 0) /\ ~ (file'[f].inode > lastId)
      BY <1>1, <1>3, FileNumbers DEF Seen
    <2> QED
      BY <2>1, <2>2, <2>3 DEF DirectoryMoves
  <1> QED
    BY <1>2, <1>3

LEMMA DirectoryHome ==
  ASSUME TypeInv, HomeInv, DirectoryMoves, Inodes'
  PROVE  HomeInv'
  <1>1. (\A k \in 1 .. Len(todo) : Seen(todo[k].key, todo[k].inode))'
    <2> SUFFICES ASSUME NEW k \in 1 .. Len(todo')
                 PROVE  \E f, i : f = todo'[k].key /\ i = todo'[k].inode /\ Seen(f, i)'
      BY DEF DirectoryMoves
    <2>1. todo' = todo
      BY DEF DirectoryMoves
    <2>2. PICK f, i : f = todo[k].key /\ i = todo[k].inode
      OBVIOUS
    <2>3. f \in Files /\ i \in Nat \ {0}
      <3>1. todo \in Seq([key : Files, inode : Nat \ {0}, size : Nat])
        BY DEF TypeInv, TypeOK
      <3>2. k \in 1 .. Len(todo)
        BY <2>1
      <3>3. todo[k] \in [key : Files, inode : Nat \ {0}, size : Nat]
        BY <3>1, <3>2, Entries
      <3> QED
        BY <2>2, <3>3
    <2>4. Seen(f, i)
      BY <2>1, <2>2 DEF HomeInv
    <2>5. Seen(f, i)'
      BY <2>3, <2>4, SeenStays
    <2>6. f = todo'[k].key /\ i = todo'[k].inode
      BY <2>1, <2>2
    <2> QED
      BY <2>5, <2>6
  <1>2. ASSUME NEW f \in Files
        PROVE  Home(f, cursor[f])' /\ Home(f, cursors[f])' /\ Home(f, updated[f])'
    <2>1. /\ cursor[f].inode \in Nat /\ cursors[f].inode \in Nat /\ updated[f].inode \in Nat
          /\ UNCHANGED <<cursor, cursors, updated>>
      BY FileNumbers DEF DirectoryMoves
    <2>2. PICK c1, c2, c3 : c1 = cursor[f] /\ c2 = cursors[f] /\ c3 = updated[f]
      OBVIOUS
    <2>3. c1 = cursor'[f] /\ c2 = cursors'[f] /\ c3 = updated'[f]
      BY <2>1, <2>2
    <2>4. Home(f, c1)' /\ Home(f, c2)' /\ Home(f, c3)'
      BY <2>1, <2>2, HomeStays DEF HomeInv
    <2> QED
      BY <2>3, <2>4
  <1> QED
    BY <1>1, <1>2 DEF HomeInv

LEMMA SensorHome ==
  ASSUME TypeInv, HomeInv, NEW f \in Files, Sensors(f)
  PROVE  HomeInv'
  <1>1. /\ file \in [Files -> File] /\ lastId \in Nat
        /\ \A h \in Files : file[h].inode \in Nat /\ file[h].id \in Nat
    BY FileNumbers DEF TypeInv, TypeOK
  <1>2. Inodes
    BY DEF HomeInv
  <1>3. CASE Create(f)
    <2>1. /\ lastId' = lastId + 1 /\ UNCHANGED <<cursor, cursors, updated, todo>>
          /\ file'[f].inode = lastId + 1
          /\ \A h \in Files \ {f} : file'[h] = file[h]
      BY <1>1, <1>3 DEF Create, db, cycle
    <2>2. lastId' \in Nat /\ lastId <= lastId'
      BY <1>1, <2>1
    <2>3. DirectoryMoves
      <3>1. ASSUME NEW h \in Files
            PROVE  KeepsFile(h) \/ (file'[h].inode > lastId /\ file'[h].inode <= lastId')
        BY <1>1, <2>1 DEF KeepsFile
      <3> QED
        BY <2>1, <2>2, <3>1 DEF DirectoryMoves
    <2>4. Inodes'
      <3>1. \A h \in Files : file'[h].inode <= lastId'
        BY <1>1, <1>2, <2>1 DEF Inodes
      <3>2. ASSUME NEW g \in Files, NEW h \in Files,
                   file'[g].inode = file'[h].inode, file'[g].inode # 0
            PROVE  g = h
        BY <1>1, <1>2, <2>1, <3>2 DEF Inodes
      <3> QED
        BY <3>1, <3>2 DEF Inodes
    <2> QED
      BY <2>3, <2>4, DirectoryHome
  <1>4. CASE StartLine(f) \/ ContinueLine(f)
    <2>1. PICK c : Write(f, c)
      BY <1>4 DEF StartLine, ContinueLine
    <2>2. /\ lastId' = lastId /\ UNCHANGED <<cursor, cursors, updated, todo>>
          /\ \A h \in Files : file'[h].inode = file[h].inode /\ file'[h].id = file[h].id
      BY <1>1, <2>1 DEF Write, db, cycle, File
    <2>3. DirectoryMoves
      BY <1>1, <2>2 DEF DirectoryMoves, KeepsFile
    <2>4. Inodes'
      BY <1>2, <2>2 DEF Inodes
    <2> QED
      BY <2>3, <2>4, DirectoryHome
  <1>5. CASE RotateOut(f)
    <2>1. /\ lastId' = lastId /\ UNCHANGED <<cursor, cursors, updated, todo>>
          /\ file'[f].inode = 0
          /\ \A h \in Files \ {f} : file'[h] = file[h]
      BY <1>1, <1>5 DEF RotateOut, db, cycle, NoFile
    <2>2. DirectoryMoves
      BY <1>1, <2>1 DEF DirectoryMoves, KeepsFile
    <2>3. Inodes'
      BY <1>1, <1>2, <2>1 DEF Inodes
    <2> QED
      BY <2>2, <2>3, DirectoryHome
  <1>6. ASSUME NEW g \in Files, RotateTo(f, g) PROVE HomeInv'
    <2>1. f \in Live /\ g \in Archive /\ f # g
      BY <1>6, FilesAssumption DEF RotateTo
    <2>2. /\ lastId' = lastId /\ UNCHANGED <<cursor, cursors, updated, todo>>
          /\ file'[f].inode = 0 /\ file'[g] = file[f]
          /\ \A h \in Files \ {f, g} : file'[h] = file[h]
      BY <1>1, <1>6, <2>1 DEF RotateTo, db, cycle, NoFile
    <2>3. Receives(g)
      BY <2>1, <2>2 DEF Receives
    <2>4. DirectoryMoves
      BY <1>1, <2>2, <2>3 DEF DirectoryMoves, KeepsFile
    <2>5. Inodes'
      <3>1. \A h \in Files : file'[h].inode <= lastId'
        BY <1>1, <1>2, <2>2 DEF Inodes
      <3>2. ASSUME NEW h \in Files, NEW k \in Files,
                   file'[h].inode = file'[k].inode, file'[h].inode # 0
            PROVE  h = k
        BY <1>2, <2>1, <2>2, <3>2 DEF Inodes
      <3> QED
        BY <3>1, <3>2 DEF Inodes
    <2> QED
      BY <2>4, <2>5, DirectoryHome
  <1>7. CASE Truncate(f)
    <2>1. /\ lastId' = lastId + 1 /\ UNCHANGED <<cursor, cursors, updated, todo>>
          /\ file'[f].inode = file[f].inode /\ file'[f].id = lastId + 1
          /\ \A h \in Files \ {f} : file'[h] = file[h]
      BY <1>1, <1>7 DEF Truncate, db, cycle, File
    <2>2. file[f].inode <= lastId
      BY <1>2 DEF Inodes
    <2>3. \A h \in Files : KeepsFile(h)
      BY <1>1, <2>1, <2>2 DEF KeepsFile
    <2>4. DirectoryMoves
      BY <1>1, <2>1, <2>3 DEF DirectoryMoves
    <2>5. Inodes'
      <3>1. \A h \in Files : file'[h].inode = file[h].inode
        BY <2>1
      <3> QED
        BY <1>1, <1>2, <2>1, <3>1 DEF Inodes
    <2> QED
      BY <2>4, <2>5, DirectoryHome
  <1> QED
    BY <1>3, <1>4, <1>5, <1>6, <1>7 DEF Sensors

(* The directory stays as it is, and with it what is known of inodes.      *)
LEMMA SameDirectory ==
  ASSUME HomeInv, UNCHANGED <<file, lastId>>
  PROVE  /\ Inodes'
         /\ \A f, i : Seen(f, i) => Seen(f, i)'
         /\ \A f, c : Home(f, c) => Home(f, c)'
  BY DEF HomeInv, Inodes, Seen, Home, Intact

LEMMA NoCursorHome == \A f \in Files : Home(f, NoCursor)
  BY DEF Home, NoCursor

(* The cursor a read leaves: an offset the read went on from was home.     *)
LEMMA NewCursorHome ==
  ASSUME TypeInv, HomeInv, NEW f \in Files, Reading(f), NEW off \in Nat
  PROVE  Home(f, NewCursor(f, ResolveOffset(cursors[f], Head(todo)), off))
  <1> DEFINE Stat == [key : Files, inode : Nat \ {0}, size : Nat]
  <1>1. PICK start, stat : start = ResolveOffset(cursors[f], stat) /\ stat = Head(todo)
    OBVIOUS
  <1>2. PICK c : c = NewCursor(f, start, off)
    OBVIOUS
  <1>3. todo \in Seq(Stat) /\ todo # <<>>
    BY DEF TypeInv, TypeOK, Reading
  <1>4. stat \in Stat /\ stat = todo[1] /\ 1 \in 1 .. Len(todo) /\ stat.key = f
    <2>1. \A k \in 1 .. Len(todo) : todo[k] \in Stat
      BY <1>3, Entries
    <2>2. 1 \in 1 .. Len(todo) /\ Head(todo) = todo[1]
      BY <1>3, Entries
    <2> QED
      BY <1>1, <2>1, <2>2 DEF Reading
  <1>5. stat.inode # 0 /\ Seen(f, stat.inode)
    BY <1>4 DEF HomeInv
  <1>6. /\ c.inode = stat.inode
        /\ c.id = IF start = 0 \/ cursors[f].id = file[f].id THEN file[f].id ELSE 0
    BY <1>1, <1>2 DEF NewCursor
  <1>7. ASSUME stat.inode = file[f].inode, Intact(f) PROVE c.id = file[f].id
    <2>1. CASE start = 0
      BY <1>6, <2>1
    <2>2. CASE start # 0
      <3>1. start = cursors[f].off /\ (cursors[f].inode = 0 \/ cursors[f].inode = stat.inode)
        BY <1>1, <2>2 DEF ResolveOffset
      <3>2. cursors[f].off \in Nat
        BY DEF TypeInv, TypeOK, Cursor
      <3>3. Home(f, cursors[f])
        BY DEF HomeInv
      <3>4. cursors[f].inode # 0
        BY <2>2, <3>1, <3>2, <3>3 DEF Home
      <3>5. cursors[f].id = file[f].id
        BY <1>7, <3>1, <3>3, <3>4 DEF Home
      <3> QED
        BY <1>6, <3>5
    <2> QED
      BY <2>1, <2>2
  <1>8. Home(f, c)
    BY <1>5, <1>6, <1>7 DEF Home
  <1> QED
    BY <1>1, <1>2, <1>8

LEMMA ReadHome ==
  ASSUME TypeInv, HomeInv, NEW f \in Files, ReadOne(f) \/ ReadFails(f)
  PROVE  HomeInv'
  <1> DEFINE start == ResolveOffset(cursors[f], Head(todo))
             data == file[f].data
             Stat == [key : Files, inode : Nat \ {0}, size : Nat]
  <1>1. Reading(f) /\ NextFile
    BY DEF ReadOne, ReadFails, SkipFile, SkipOversized, ConsumeLines
  <1>2. /\ UNCHANGED <<file, lastId, cursor, cursors>>
        /\ todo' = Tail(todo)
    BY <1>1 DEF NextFile, env, db
  <1>3. /\ ReadEnd(data, start) \in Nat
        /\ Newlines(data, start) \subseteq 1 .. Len(data)
        /\ data \in Seq(Chunk)
    BY <1>1, ReadType
  <1> HIDE DEF start, data
  <1>4. \/ updated' = updated
        \/ \E off \in Nat : updated' = [updated EXCEPT ![f] = NewCursor(f, start, off)]
    <2>1. CASE SkipFile(f) \/ ReadFails(f)
      BY <2>1 DEF SkipFile, ReadFails
    <2>2. CASE SkipOversized(f)
      BY <1>3, <2>2 DEF SkipOversized, start, data
    <2>3. CASE ConsumeLines(f)
      <3>1. PICK last \in Newlines(data, start) :
              updated' = [updated EXCEPT ![f] = NewCursor(f, start, last)]
        BY <2>3 DEF ConsumeLines, start, data
      <3>2. last \in Nat
        BY <1>3
      <3> QED
        BY <3>1, <3>2
    <2> QED
      BY <2>1, <2>2, <2>3 DEF ReadOne
  <1>5. ASSUME NEW g \in Files PROVE Home(g, updated'[g])
    <2>1. Home(g, updated[g])
      BY DEF HomeInv
    <2>2. updated'[g] = updated[g]
          \/ (g = f /\ \E off \in Nat : updated'[g] = NewCursor(f, start, off))
      BY <1>4 DEF TypeInv, TypeOK
    <2>3. \A off \in Nat : Home(f, NewCursor(f, start, off))
      BY <1>1, NewCursorHome DEF start
    <2> QED
      BY <2>1, <2>2, <2>3
  <1>6. \A k \in 1 .. Len(todo') : Seen(todo'[k].key, todo'[k].inode)
    <2>1. todo \in Seq(Stat) /\ todo # <<>>
      BY <1>1 DEF TypeInv, TypeOK, Reading
    <2>2. /\ Len(todo') = Len(todo) - 1 /\ Len(todo) \in Nat
          /\ \A k \in 1 .. Len(todo') : todo'[k] = todo[k + 1]
      BY <1>2, <2>1, HeadTailProperties
    <2>3. \A k \in 1 .. Len(todo') : k + 1 \in 1 .. Len(todo)
      BY <2>2
    <2> QED
      BY <2>2, <2>3 DEF HomeInv
  <1>7. /\ Inodes'
        /\ \A g, i : Seen(g, i) => Seen(g, i)'
        /\ \A g, c : Home(g, c) => Home(g, c)'
    BY <1>2, SameDirectory
  <1>8. \A g \in Files : Home(g, cursor'[g]) /\ Home(g, cursors'[g])
    BY <1>2 DEF HomeInv
  <1> QED
    BY <1>5, <1>6, <1>7, <1>8 DEF HomeInv

LEMMA WalkHome ==
  ASSUME TypeInv, HomeInv, Walk
  PROVE  HomeInv'
  <1>1. UNCHANGED <<file, lastId, cursor, cursors, updated>>
    BY DEF Walk, env, db
  <1>2. PICK n : n = Lesser(Len(order), MAX_FILES_PER_CYCLE)
    OBVIOUS
  <1>3. order \in Seq(Files) /\ n \in Nat /\ n <= Len(order)
    BY <1>2, LesserType, LimitsAssumption DEF TypeInv, TypeOK
  <1>4. ASSUME NEW k \in 1 .. Len(todo') PROVE Seen(todo'[k].key, todo'[k].inode)
    <2>1. todo' = [i \in 1 .. n |-> [key   |-> order[i],
                                     inode |-> file[order[i]].inode,
                                     size  |-> Len(file[order[i]].data)]]
      BY <1>2 DEF Walk
    <2>2. Len(todo') = n
      BY <1>3, <2>1
    <2>3. k \in 1 .. n /\ k \in 1 .. Len(order)
      BY <1>3, <2>2
    <2>4. todo'[k].key = order[k] /\ todo'[k].inode = file[order[k]].inode
      BY <2>1, <2>3
    <2>5. order[k] \in Files /\ file[order[k]].inode # 0
      BY <1>3, <2>3 DEF TypeInv, Listed
    <2>6. Seen(order[k], file[order[k]].inode)
      BY <2>5 DEF HomeInv, Inodes, Seen
    <2> QED
      BY <2>4, <2>6
  <1>5. /\ Inodes'
        /\ \A g, i : Seen(g, i) => Seen(g, i)'
        /\ \A g, c : Home(g, c) => Home(g, c)'
    BY <1>1, SameDirectory
  <1>6. \A g \in Files : /\ Home(g, cursor'[g]) /\ Home(g, cursors'[g])
                         /\ Home(g, updated'[g])
    BY <1>1 DEF HomeInv
  <1> QED
    BY <1>4, <1>5, <1>6 DEF HomeInv

LEMMA CycleHome ==
  ASSUME TypeInv, HomeInv,
         \/ Wake \/ Sweep \/ EndRead \/ Publish \/ CommitFails \/ CycleFails
         \/ LoadCursors \/ Crash
         \/ Commit \/ CommitUnacknowledged
         \/ UNCHANGED vars
  PROVE  HomeInv'
  <1>1. UNCHANGED <<file, lastId>>
    BY DEF Wake, Sweep, EndRead, Publish, CommitFails, CycleFails,
           LoadCursors, Crash, Commit, CommitUnacknowledged, vars, env
  <1>2. todo' = todo \/ todo' = <<>>
    BY DEF Wake, Sweep, EndRead, Publish, CommitFails, CycleFails, EmptyCycle,
           LoadCursors, Crash, Commit, CommitUnacknowledged, vars, cycle
  <1>3. ASSUME NEW f \in Files
        PROVE  /\ cursor'[f] \in {cursor[f], updated[f]}
               /\ cursors'[f] \in {cursors[f], cursor[f], NoCursor}
               /\ updated'[f] \in {updated[f], NoCursor}
    <2>1. CASE Wake \/ Sweep \/ EndRead \/ Publish \/ CommitFails \/ CycleFails \/ UNCHANGED vars
      BY <2>1 DEF Wake, Sweep, EndRead, Publish, CommitFails, CycleFails, vars, db, cycle
    <2>2. CASE LoadCursors \/ Crash
      BY <2>2 DEF LoadCursors, Crash, EmptyCycle, db
    <2>3. CASE Commit \/ CommitUnacknowledged
      BY <2>3 DEF Commit, CommitUnacknowledged, Save, cycle
    <2> QED
      BY <2>1, <2>2, <2>3
  <1>4. \A f \in Files : /\ Home(f, cursor'[f]) /\ Home(f, cursors'[f])
                         /\ Home(f, updated'[f])
    BY <1>3, NoCursorHome DEF HomeInv
  <1>5. \A k \in 1 .. Len(todo') : Seen(todo'[k].key, todo'[k].inode)
    BY <1>2 DEF HomeInv
  <1>6. /\ Inodes'
        /\ \A g, i : Seen(g, i) => Seen(g, i)'
        /\ \A g, c : Home(g, c) => Home(g, c)'
    BY <1>1, SameDirectory
  <1> QED
    BY <1>4, <1>5, <1>6 DEF HomeInv

LEMMA InitHome == Init => HomeInv
  <1> SUFFICES ASSUME Init PROVE HomeInv
    OBVIOUS
  <1>1. /\ lastId = 0 /\ todo = <<>>
        /\ \A f \in Files : /\ file[f].inode = 0 /\ cursor[f] = NoCursor
                            /\ cursors[f] = NoCursor /\ updated[f] = NoCursor
    BY DEF Init, NoFile
  <1> QED
    BY <1>1, NoCursorHome DEF HomeInv, Inodes

LEMMA StepHome == TypeInv /\ HomeInv /\ [Next]_vars => HomeInv'
  BY SensorHome, ReadHome, WalkHome, CycleHome DEF Next

(* The inode and the size are enough to resume by: when they do not show   *)
(* that the path holds another file, nothing before the saved offset is    *)
(* missing from the database, unless the log was emptied in place          *)
(* (_resolve_offset).  The stat and the read of a file are two steps, and  *)
(* a rotation may come between them, for any number of files and names.    *)
THEOREM ResumesWhereItStopped == Spec => []NothingSkipped
  <1>1. TypeInv /\ VouchInv /\ HomeInv => NothingSkipped
    <2> SUFFICES ASSUME TypeInv, VouchInv, HomeInv, NEW f \in Files, Exists(f), Intact(f),
                        cursor[f].inode = file[f].inode
                 PROVE  Covers(stored, file[f].data, cursor[f].off)
      BY DEF NothingSkipped
    <2>1. file[f].id # 0 /\ cursor[f].inode # 0
      BY DEF Exists, Intact
    <2>2. cursor[f].id = file[f].id
      BY <2>1 DEF HomeInv, Home
    <2> QED
      BY <2>1, <2>2 DEF VouchInv, Vouching, Vouches
  <1>2. Spec => []VouchInv
    BY InitVouch, StepVouch, TypeInvariant, PTL DEF Spec
  <1>3. Spec => []HomeInv
    BY InitHome, StepHome, TypeInvariant, PTL DEF Spec
  <1> QED
    BY <1>1, <1>2, <1>3, TypeInvariant, PTL

-----------------------------------------------------------------------------
(* The collector implements the durable feed.                              *)

(* Only what has been committed is waiting to be published.                *)
Durable == pc = "publish" => Usable(batch) \subseteq stored

LEMMA InitFeed == Init => Durable /\ Feed!Init
  BY DEF Init, Durable, Feed!Init

LEMMA StepFeed ==
  TypeInv /\ Durable /\ [Next]_vars => Durable' /\ [Feed!Next]_<<stored, published>>
  <1> SUFFICES ASSUME TypeInv, Durable, [Next]_vars
               PROVE  Durable' /\ [Feed!Next]_<<stored, published>>
    OBVIOUS
  <1>1. Usable(batch) \subseteq Events
    BY DEF TypeInv, TypeOK, Usable
  <1>2. ASSUME NEW f \in Files, Sensors(f)
        PROVE  UNCHANGED <<stored, published, pc, batch>>
    BY <1>2 DEF Sensors, Create, StartLine, ContinueLine, Write, RotateOut, RotateTo, Truncate,
                db, cycle
  <1>3. ASSUME NEW f \in Files, ReadOne(f) \/ ReadFails(f)
        PROVE  UNCHANGED <<stored, published>> /\ pc' # "publish"
    BY <1>3 DEF ReadOne, ReadFails, SkipFile, SkipOversized, ConsumeLines, Reading, NextFile, db
  <1>4. CASE Wake \/ Sweep \/ LoadCursors \/ Walk \/ EndRead \/ CommitFails \/ CycleFails \/ Crash
    <2>1. UNCHANGED <<stored, published>> /\ pc' # "publish"
      BY <1>4 DEF Wake, Sweep, LoadCursors, Walk, EndRead, CommitFails, CycleFails, Crash, db
    <2> QED
      BY <2>1 DEF Durable
  <1>5. CASE Commit \/ CommitUnacknowledged
    <2>1. /\ stored' = stored \cup Usable(batch)
          /\ UNCHANGED <<published, batch>>
      BY <1>5 DEF Commit, CommitUnacknowledged, Save, cycle
    <2>2. Feed!Store
      BY <1>1, <2>1 DEF Feed!Store
    <2> QED
      BY <2>1, <2>2 DEF Durable, Usable, Feed!Next
  <1>6. CASE Publish
    <2>1. /\ published' = published \cup Usable(batch)
          /\ UNCHANGED stored
          /\ Usable(batch) \subseteq stored
          /\ pc' = "waiting"
      BY <1>6 DEF Publish, db, Durable
    <2>2. Feed!Deliver
      BY <2>1 DEF Feed!Deliver
    <2> QED
      BY <2>1, <2>2 DEF Durable, Feed!Next
  <1>7. CASE UNCHANGED vars
    BY <1>7 DEF vars, db, cycle, Durable, Usable
  <1>8. ASSUME NEW f \in Files, Sensors(f) \/ ReadOne(f) \/ ReadFails(f)
        PROVE  Durable' /\ [Feed!Next]_<<stored, published>>
    BY <1>2, <1>3, <1>8 DEF Durable, Usable
  <1> QED
    BY <1>4, <1>5, <1>6, <1>7, <1>8 DEF Next

(* The live feed only ever shows events whose rows are committed, and no   *)
(* committed event is lost, whichever transactions fail and whenever the   *)
(* process dies: every step is a step of DurableFeed or a stutter.         *)
THEOREM CollectorImplementsFeed == Spec => FeedIsDurable
  <1>1. Init => Durable /\ Feed!Init
    BY InitFeed
  <1>2. TypeInv /\ Durable /\ [Next]_vars => Durable' /\ [Feed!Next]_<<stored, published>>
    BY StepFeed
  <1> QED
    BY <1>1, <1>2, TypeInvariant, PTL DEF Spec, FeedIsDurable, Feed!Spec
=============================================================================
