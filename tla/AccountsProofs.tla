--------------------------- MODULE AccountsProofs ---------------------------
(* Theorems about accounts and their links, for every set of accounts,     *)
(* links and requests and every limit.                                     *)
EXTENDS Accounts, TLAPS

(* The shapes of the rows and of a request.                                *)
IsRow(row) == DOMAIN row = {"role", "status", "code", "otp"}

IsToken(t) == t = [name |-> t.name, used |-> t.used, audit |-> t.audit]

IsRequest(q) ==
  /\ q = [op |-> q.op, by |-> q.by, on |-> q.on, link |-> q.link, users |-> q.users,
          version |-> q.version, tokens |-> q.tokens, recent |-> q.recent]
  /\ q.by \in Users /\ q.on \in Users
  /\ q.op = "reset" => q.link \in Links

UsersType ==
  /\ users = [u \in DOMAIN users |-> users[u]]
  /\ DOMAIN users \subseteq Users
  /\ \A u \in DOMAIN users : IsRow(users[u])

RequestsType ==
  /\ req = [r \in Requests |-> req[r]]
  /\ \A r \in Requests : req[r] # NoRequest => IsRequest(req[r])

(* A snapshot agrees with the table in every row whose version it shares.  *)
Agrees(q) ==
  \A u \in Users :
    /\ q.version[u] \in Nat /\ q.version[u] <= version[u]
    /\ /\ q.version[u] = version[u]
       /\ u \in DOMAIN users /\ u \in DOMAIN q.users
       => users[u] = q.users[u]

SnapInv ==
  /\ UsersType
  /\ RequestsType
  /\ version \in [Users -> Nat]
  /\ \A r \in Requests : req[r] # NoRequest => Agrees(req[r])

-----------------------------------------------------------------------------
(* What a step does to the accounts and to the requests.                   *)

Kept == /\ req' = [r \in Requests |-> req'[r]]
        /\ \A r \in Requests : req'[r] = NoRequest \/ req'[r] = req[r]

UserWrite(u) ==
  /\ u \in Users
  /\ version' = [version EXCEPT ![u] = @ + 1]
  /\ UsersType'
  /\ \A x \in Users \ {u} :
       /\ x \in DOMAIN users' <=> x \in DOMAIN users
       /\ x \in DOMAIN users => users'[x] = users[x]

LEMMA DoneKeeps ==
  ASSUME SnapInv, NEW r \in Requests, req' = [req EXCEPT ![r] = NoRequest]
  PROVE  Kept
  BY DEF Kept, SnapInv, RequestsType

LEMMA WriteUserWrites ==
  ASSUME SnapInv, NEW u \in DOMAIN users, NEW row, IsRow(row), WriteUser(u, row)
  PROVE  /\ UserWrite(u)
         /\ DOMAIN users' = DOMAIN users /\ users'[u] = row
         /\ \A x \in DOMAIN users \ {u} : users'[x] = users[x]
  BY DEF WriteUser, Touched, UserWrite, SnapInv, UsersType

LEMMA InsertWrites ==
  ASSUME SnapInv, NEW u \in Users, NEW row, IsRow(row), Insert(u, row)
  PROVE  /\ UserWrite(u)
         /\ u \notin DOMAIN users
         /\ DOMAIN users' = DOMAIN users \cup {u} /\ users'[u] = row
         /\ \A x \in DOMAIN users : users'[x] = users[x]
  <1>1. /\ DOMAIN users' = DOMAIN users \cup {u} /\ users'[u] = row
        /\ \A x \in DOMAIN users : users'[x] = users[x]
        /\ u \notin DOMAIN users
    BY DEF Insert
  <1>2. UsersType'
    BY <1>1 DEF Insert, SnapInv, UsersType
  <1> QED
    BY <1>1, <1>2 DEF Insert, Touched, UserWrite

LEMMA DiscardWrites ==
  ASSUME SnapInv, NEW u \in Users, Discard(u)
  PROVE  /\ UserWrite(u)
         /\ DOMAIN users' = DOMAIN users \ {u}
         /\ \A x \in DOMAIN users' : users'[x] = users[x]
  BY DEF Discard, Touched, UserWrite, SnapInv, UsersType

-----------------------------------------------------------------------------
(* Snapshots stay right.                                                   *)

LEMMA AgreesStill ==
  ASSUME SnapInv, Kept, UNCHANGED <<users, version>>
  PROVE  SnapInv'
  BY DEF SnapInv, Kept, UsersType, RequestsType, Agrees

LEMMA AgreesAfterWrite ==
  ASSUME SnapInv, Kept, NEW u, UserWrite(u)
  PROVE  SnapInv'
  <1>1. RequestsType'
    BY DEF SnapInv, Kept, RequestsType
  <1>2. version' \in [Users -> Nat] /\ version'[u] = version[u] + 1
        /\ \A x \in Users \ {u} : version'[x] = version[x]
    BY DEF SnapInv, UserWrite
  <1>3. ASSUME NEW r \in Requests, req'[r] # NoRequest
        PROVE  Agrees(req[r])' 
    <2>1. req'[r] = req[r] /\ Agrees(req[r])
      BY <1>3 DEF Kept, SnapInv
    <2>2. ASSUME NEW x \in Users
          PROVE  /\ req[r].version[x] \in Nat /\ req[r].version[x] <= version'[x]
                 /\ /\ req[r].version[x] = version'[x]
                    /\ x \in DOMAIN users' /\ x \in DOMAIN req[r].users
                    => users'[x] = req[r].users[x]
      <3>0. version[x] \in Nat
        BY DEF SnapInv
      <3>1. CASE x = u
        BY <2>1, <1>2, <3>0, <3>1 DEF Agrees
      <3>2. CASE x # u
        BY <2>1, <1>2, <3>2 DEF Agrees, UserWrite
      <3> QED BY <3>1, <3>2
    <2> QED
      BY <2>1, <2>2 DEF Agrees
  <1> QED
    BY <1>1, <1>2, <1>3 DEF SnapInv, UserWrite

LEMMA BeginAgrees ==
  ASSUME SnapInv, NEW r \in Requests, Begin(r)
  PROVE  SnapInv'
  <1>1. PICK c \in Public \cup Linked \cup Managing \cup Credential :
          req' = [req EXCEPT ![r] =
                    [op |-> c.op, by |-> c.by, on |-> c.on, link |-> c.link,
                     users |-> users, version |-> version, tokens |-> tokens,
                     recent |-> recent[c.by]]]
    BY DEF Begin
  <1>2. /\ c.by \in Users /\ c.on \in Users
        /\ c.op = "reset" => c.link \in Links
    BY AccountsAssumption DEF Public, Linked, Managing, Credential
  <1>3. UNCHANGED <<users, version>>
    BY DEF Begin, tables
  <1>4. IsRequest(req'[r]) /\ req'[r].users = users /\ req'[r].version = version
    BY <1>1, <1>2 DEF IsRequest, SnapInv, RequestsType
  <1>5. /\ req' = [x \in Requests |-> req'[x]]
        /\ \A x \in Requests \ {r} : req'[x] = req[x]
    BY <1>1 DEF SnapInv, RequestsType
  <1>6. UsersType' /\ RequestsType' /\ version' \in [Users -> Nat]
    BY <1>3, <1>4, <1>5 DEF SnapInv, UsersType, RequestsType
  <1>7. Agrees(req[r])'
    BY <1>3, <1>4 DEF SnapInv, Agrees
  <1>8. \A x \in Requests \ {r} : req'[x] # NoRequest => Agrees(req[x])'
    BY <1>3, <1>5 DEF SnapInv, Agrees
  <1> QED
    BY <1>6, <1>7, <1>8 DEF SnapInv

LEMMA SendAgrees ==
  ASSUME SnapInv, NEW r \in Requests, SendCredentials(r)
  PROVE  SnapInv'
  <1>1. PICK l \in Unissued : req' = [req EXCEPT ![r].link = l]
    BY DEF SendCredentials
  <1>2. req[r].op = "issue" /\ req[r] # NoRequest /\ IsRequest(req[r])
    BY DEF SendCredentials, Serving, SnapInv, RequestsType
  <1>3. req'[r] = [op |-> req[r].op, by |-> req[r].by, on |-> req[r].on, link |-> l,
                   users |-> req[r].users, version |-> req[r].version,
                   tokens |-> req[r].tokens, recent |-> req[r].recent]
    BY <1>1, <1>2 DEF SnapInv, RequestsType, IsRequest
  <1>4. /\ req' = [x \in Requests |-> req'[x]]
        /\ \A x \in Requests \ {r} : req'[x] = req[x]
    BY <1>1 DEF SnapInv, RequestsType
  <1>5. UNCHANGED <<users, version>>
    BY DEF SendCredentials, tables
  <1>6. IsRequest(req'[r])
    BY <1>2, <1>3 DEF IsRequest
  <1>7. UsersType' /\ RequestsType' /\ version' \in [Users -> Nat]
    BY <1>4, <1>5, <1>6 DEF SnapInv, UsersType, RequestsType
  <1>8. Agrees(req[r])'
    BY <1>2, <1>3, <1>5 DEF SnapInv, Agrees
  <1>9. \A x \in Requests \ {r} : req'[x] # NoRequest => Agrees(req[x])'
    BY <1>4, <1>5 DEF SnapInv, Agrees
  <1> QED
    BY <1>7, <1>8, <1>9 DEF SnapInv

-----------------------------------------------------------------------------
(* What a request does to the accounts when it ends.                       *)

(* The step of BlockHolds.                                                 *)
BlockStep ==
  StaleRefused =>
     \A u \in DOMAIN users \cap DOMAIN users' :
       users[u].status = "BLOCKED" /\ users'[u].status = "ACTIVE" =>
         \E r \in Requests :
           /\ req[r] # NoRequest /\ req'[r] = NoRequest
           /\ req[r].op \in {"approve", "update", "bypass"}
           /\ req[r].users[u].status = "BLOCKED"

UserStep == /\ Kept
            /\ UNCHANGED <<users, version>> \/ \E u \in Users : UserWrite(u)
            /\ BlockStep

(* No account comes to hold a link that it did not hold.                   *)
OtpsKept ==
  \A u \in DOMAIN users' :
    \/ users'[u].otp = NoLink
    \/ u \in DOMAIN users /\ users'[u].otp = users[u].otp

LEMMA FreshAgrees ==
  ASSUME SnapInv, NEW r \in Requests, req[r] # NoRequest, NEW u, Fresh(r, u), Known(r, u),
         StaleRefused
  PROVE  users[u] = req[r].users[u]
  <1>1. u \in Users /\ u \in DOMAIN users /\ u \in DOMAIN req[r].users
    BY DEF Fresh, Known, SnapInv, UsersType
  <1>2. version[u] = req[r].version[u]
    BY DEF Fresh
  <1> QED
    BY <1>1, <1>2 DEF SnapInv, Agrees

LEMMA StandStill ==
  ASSUME SnapInv, Kept, UNCHANGED <<users, version>>
  PROVE  UserStep /\ OtpsKept
  BY DEF UserStep, BlockStep, OtpsKept

LEMMA RowWritten ==
  ASSUME SnapInv, NEW r \in Requests, req[r] # NoRequest, Done(r),
         NEW u \in DOMAIN users, NEW row, IsRow(row), WriteUser(u, row),
         /\ StaleRefused
         /\ row.status = "ACTIVE" /\ users[u].status = "BLOCKED"
         => /\ req[r].op \in {"approve", "update", "bypass"}
            /\ req[r].users[u].status = "BLOCKED"
  PROVE  /\ UserStep
         /\ row.otp \in {users[u].otp, NoLink} => OtpsKept
  <1>1. Kept /\ req'[r] = NoRequest
    BY DoneKeeps DEF Done, SnapInv, RequestsType
  <1>2. /\ UserWrite(u) /\ u \in Users
        /\ DOMAIN users' = DOMAIN users /\ users'[u] = row
        /\ \A x \in DOMAIN users \ {u} : users'[x] = users[x]
    BY WriteUserWrites DEF UserWrite
  <1>3. ASSUME StaleRefused, NEW x \in DOMAIN users \cap DOMAIN users',
               users[x].status = "BLOCKED", users'[x].status = "ACTIVE"
        PROVE  \E q \in Requests :
                 /\ req[q] # NoRequest /\ req'[q] = NoRequest
                 /\ req[q].op \in {"approve", "update", "bypass"}
                 /\ req[q].users[x].status = "BLOCKED"
    <2>1. x = u
      BY <1>2, <1>3
    <2> QED
      BY <1>1, <1>2, <1>3, <2>1
  <1>4. BlockStep
    BY <1>3 DEF BlockStep
  <1> QED
    BY <1>1, <1>2, <1>4 DEF UserStep, OtpsKept

LEMMA RowInserted ==
  ASSUME SnapInv, Kept, NEW u \in Users, NEW row, IsRow(row), Insert(u, row), row.otp = NoLink
  PROVE  UserStep /\ OtpsKept
  BY InsertWrites DEF UserStep, BlockStep, OtpsKept

LEMMA RowDiscarded ==
  ASSUME SnapInv, Kept, NEW u \in Users, Discard(u)
  PROVE  UserStep /\ OtpsKept
  BY DiscardWrites DEF UserStep, BlockStep, OtpsKept

LEMMA NewAccount ==
  ASSUME NEW role, NEW status
  PROVE  IsRow(Account(role, status)) /\ Account(role, status).otp = NoLink
  BY DEF IsRow, Account

LEMMA Served ==
  ASSUME SnapInv, NEW r \in Requests, NEW op, Serving(r, op)
  PROVE  req[r] # NoRequest /\ req[r].op = op /\ req[r].on \in Users /\ req[r].by \in Users
  BY DEF Serving, SnapInv, RequestsType, IsRequest

-----------------------------------------------------------------------------
(* The requests that neither bring a link nor send one.                    *)

LEMMA InsertingRequests ==
  ASSUME SnapInv, NEW r \in Requests, Register(r) \/ CreateUser(r)
  PROVE  UserStep /\ OtpsKept
  <1>1. Kept
    BY DoneKeeps DEF Register, CreateUser, Done
  <1>2. PICK role, status : Insert(req[r].on, Account(role, status))
    BY DEF Register, CreateUser
  <1>3. req[r].on \in Users
    BY Served DEF Register, CreateUser
  <1> QED
    BY <1>1, <1>2, <1>3, NewAccount, RowInserted

LEMMA DiscardingRequests ==
  ASSUME SnapInv, NEW r \in Requests, DeleteUser(r) \/ DenyUser(r)
  PROVE  UserStep /\ OtpsKept
  <1>1. Kept
    BY DoneKeeps DEF DeleteUser, DenyUser, Done
  <1>2. req[r].on \in Users /\ Discard(req[r].on)
    BY Served DEF DeleteUser, DenyUser
  <1> QED
    BY <1>1, <1>2, RowDiscarded

LEMMA Logins ==
  ASSUME SnapInv, NEW r \in Requests, Login(r) \/ AdminLogin(r)
  PROVE  UserStep /\ OtpsKept
  <1> DEFINE u == req[r].on
  <1>1. req[r] # NoRequest /\ Done(r) /\ u \in DOMAIN users /\ WriteUser(u, users[u])
    BY Served DEF Login, AdminLogin, Fresh
  <1>2. IsRow(users[u])
    BY <1>1 DEF SnapInv, UsersType
  <1>3. ~ (users[u].status = "ACTIVE" /\ users[u].status = "BLOCKED")
    OBVIOUS
  <1> HIDE DEF u
  <1> QED
    BY <1>1, <1>2, <1>3, RowWritten

LEMMA Regenerating ==
  ASSUME SnapInv, NEW r \in Requests, RegenerateAdminCode(r)
  PROVE  UserStep /\ OtpsKept
  <1> DEFINE u == req[r].on
             row == [users[u] EXCEPT !.code = TRUE]
  <1>1. req[r] # NoRequest /\ Done(r) /\ u \in DOMAIN users /\ WriteUser(u, row)
    BY Served DEF RegenerateAdminCode, Fresh
  <1>2. IsRow(users[u])
    BY <1>1 DEF SnapInv, UsersType
  <1>3. IsRow(row) /\ row.status = users[u].status /\ row.otp = users[u].otp
    BY <1>2 DEF IsRow
  <1> HIDE DEF u, row
  <1>4. ~ (row.status = "ACTIVE" /\ users[u].status = "BLOCKED")
    BY <1>3
  <1> QED
    BY <1>1, <1>3, <1>4, RowWritten

LEMMA Approving ==
  ASSUME SnapInv, NEW r \in Requests, ApproveUser(r)
  PROVE  UserStep /\ OtpsKept
  <1> DEFINE u == req[r].on
  <1>1. PICK role \in Roles :
          WriteUser(u, [users[u] EXCEPT !.status = "ACTIVE", !.role = role,
                                        !.code = @ \/ role \in AdminRoles])
    BY DEF ApproveUser
  <1> DEFINE row == [users[u] EXCEPT !.status = "ACTIVE", !.role = role,
                                     !.code = @ \/ role \in AdminRoles]
  <1>2. /\ req[r] # NoRequest /\ req[r].op = "approve" /\ Done(r)
        /\ Fresh(r, u) /\ Known(r, u) /\ u \in DOMAIN users
    BY Served DEF ApproveUser, Fresh
  <1>3. IsRow(users[u])
    BY <1>2 DEF SnapInv, UsersType
  <1>4. IsRow(row) /\ row.otp = users[u].otp
    BY <1>3 DEF IsRow
  <1>5. StaleRefused => req[r].users[u] = users[u]
    BY <1>2, FreshAgrees
  <1> HIDE DEF u, row
  <1>6. WriteUser(u, row)
    BY <1>1 DEF u, row
  <1> QED
    BY <1>2, <1>4, <1>5, <1>6, RowWritten

LEMMA Updating ==
  ASSUME SnapInv, NEW r \in Requests, UpdateUser(r)
  PROVE  UserStep /\ OtpsKept
  <1> DEFINE u == req[r].on
             old == req[r].users[u]
  <1>1. PICK role \in Roles, status \in Statuses :
          IF role = old.role /\ status = old.status
          THEN UNCHANGED <<users, version>>
          ELSE /\ Fresh(r, u)
               /\ WriteUser(u, [users[u] EXCEPT
                                  !.role = IF role # old.role THEN role ELSE @,
                                  !.status = IF status # old.status THEN status ELSE @])
    BY DEF UpdateUser
  <1> DEFINE row == [users[u] EXCEPT !.role = IF role # old.role THEN role ELSE @,
                                     !.status = IF status # old.status THEN status ELSE @]
  <1>2. req[r] # NoRequest /\ req[r].op = "update" /\ Done(r) /\ Known(r, u)
    BY Served DEF UpdateUser
  <1>3. CASE UNCHANGED <<users, version>>
    BY <1>2, <1>3, DoneKeeps, StandStill DEF Done
  <1>4. CASE Fresh(r, u) /\ WriteUser(u, row)
    <2>1. u \in DOMAIN users
      BY <1>4 DEF Fresh
    <2>2. IsRow(users[u])
      BY <2>1 DEF SnapInv, UsersType
    <2>3. IsRow(row) /\ row.otp = users[u].otp
      BY <2>2 DEF IsRow
    <2>4. StaleRefused => req[r].users[u] = users[u]
      BY <1>2, <1>4, FreshAgrees
    <2>5. WriteUser(u, row)
      BY <1>4
    <2> HIDE DEF u, row
    <2> QED
      BY <1>2, <2>1, <2>3, <2>4, <2>5, RowWritten
  <1> QED
    BY <1>1, <1>3, <1>4

LEMMA Bypassing ==
  ASSUME SnapInv, NEW r \in Requests, DevBypass(r)
  PROVE  UserStep /\ OtpsKept
  <1>1. req[r] # NoRequest /\ req[r].op = "bypass" /\ Done(r) /\ Kept /\ Root \in Users
    BY Served, DoneKeeps, AccountsAssumption DEF DevBypass, Done
  <1>2. CASE UNCHANGED <<users, version>>
    BY <1>1, <1>2, StandStill
  <1>3. CASE Insert(Root, [Account("SUPER_ADMIN", "ACTIVE") EXCEPT !.code = TRUE])
    <2> DEFINE row == [Account("SUPER_ADMIN", "ACTIVE") EXCEPT !.code = TRUE]
    <2>1. IsRow(row) /\ row.otp = NoLink
      BY DEF Account, IsRow
    <2> HIDE DEF row
    <2>2. Insert(Root, row)
      BY <1>3 DEF row
    <2> QED
      BY <1>1, <2>1, <2>2, RowInserted
  <1>4. ASSUME NEW demoted \in BOOLEAN, Known(r, Root), Fresh(r, Root),
               WriteUser(Root, [users[Root] EXCEPT
                                  !.status = IF demoted THEN "ACTIVE" ELSE @,
                                  !.role = IF demoted THEN "SUPER_ADMIN" ELSE @,
                                  !.code = TRUE])
        PROVE  UserStep /\ OtpsKept
    <2> DEFINE row == [users[Root] EXCEPT !.status = IF demoted THEN "ACTIVE" ELSE @,
                                          !.role = IF demoted THEN "SUPER_ADMIN" ELSE @,
                                          !.code = TRUE]
    <2>1. Root \in DOMAIN users
      BY <1>4 DEF Fresh
    <2>2. IsRow(users[Root])
      BY <2>1 DEF SnapInv, UsersType
    <2>3. IsRow(row) /\ row.otp = users[Root].otp
      BY <2>2 DEF IsRow
    <2>4. StaleRefused => req[r].users[Root] = users[Root]
      BY <1>1, <1>4, FreshAgrees
    <2>5. WriteUser(Root, row)
      BY <1>4
    <2> HIDE DEF row
    <2> QED
      BY <1>1, <2>1, <2>3, <2>4, <2>5, RowWritten
  <1> QED
    BY <1>2, <1>3, <1>4 DEF DevBypass

-----------------------------------------------------------------------------
(* The requests that bring a link or send one.                             *)

LEMMA Forgetting ==
  ASSUME SnapInv, NEW r \in Requests, ForgotPassword(r)
  PROVE  UserStep
  <1> DEFINE u == req[r].on
  <1>1. PICK l : WriteUser(u, [users[u] EXCEPT !.otp = l])
    BY DEF ForgotPassword
  <1> DEFINE row == [users[u] EXCEPT !.otp = l]
  <1>2. req[r] # NoRequest /\ Done(r) /\ u \in DOMAIN users
    BY Served DEF ForgotPassword, Fresh
  <1>3. IsRow(users[u])
    BY <1>2 DEF SnapInv, UsersType
  <1>4. IsRow(row) /\ row.status = users[u].status
    BY <1>3 DEF IsRow
  <1>5. WriteUser(u, row)
    BY <1>1
  <1> HIDE DEF u, row
  <1>6. ~ (row.status = "ACTIVE" /\ users[u].status = "BLOCKED")
    BY <1>4
  <1> QED
    BY <1>2, <1>4, <1>5, <1>6, RowWritten

LEMMA Resetting ==
  ASSUME SnapInv, NEW r \in Requests, ResetPassword(r)
  PROVE  UserStep /\ OtpsKept
  <1>1. PICK u : Fresh(r, u) /\ WriteUser(u, [users[u] EXCEPT !.otp = NoLink])
    BY DEF ResetPassword
  <1> DEFINE row == [users[u] EXCEPT !.otp = NoLink]
  <1>2. req[r] # NoRequest /\ Done(r) /\ u \in DOMAIN users
    BY <1>1, Served DEF ResetPassword, Fresh
  <1>3. IsRow(users[u])
    BY <1>2 DEF SnapInv, UsersType
  <1>4. IsRow(row) /\ row.status = users[u].status /\ row.otp = NoLink
    BY <1>3 DEF IsRow
  <1>5. WriteUser(u, row)
    BY <1>1
  <1> HIDE DEF row
  <1>6. ~ (row.status = "ACTIVE" /\ users[u].status = "BLOCKED")
    BY <1>4
  <1> QED
    BY <1>2, <1>4, <1>5, <1>6, RowWritten

LEMMA Activating ==
  ASSUME SnapInv, NEW r \in Requests, ActivateAccount(r)
  PROVE  UserStep /\ OtpsKept
  <1> DEFINE u == req[r].tokens[req[r].link].name
             row == IF req[r].users[u].status = "PENDING"
                    THEN [users[u] EXCEPT !.status = "ACTIVE"] ELSE users[u]
  <1>1. /\ req[r] # NoRequest /\ Done(r) /\ u \in DOMAIN users
        /\ Fresh(r, u) /\ Known(r, u) /\ WriteUser(u, row)
    BY Served DEF ActivateAccount, Fresh
  <1>2. IsRow(users[u])
    BY <1>1 DEF SnapInv, UsersType
  <1>3. IsRow(row) /\ row.otp = users[u].otp
    BY <1>2 DEF IsRow
  <1>4. StaleRefused => users[u] = req[r].users[u]
    BY <1>1, FreshAgrees
  <1>5. ~ (StaleRefused /\ row.status = "ACTIVE" /\ users[u].status = "BLOCKED")
    BY <1>4
  <1> HIDE DEF u, row
  <1> QED
    BY <1>1, <1>3, <1>5, RowWritten

-----------------------------------------------------------------------------
(* The other steps, and snapshots in every step.                           *)

LEMMA TokenRequests ==
  ASSUME SnapInv, NEW r \in Requests,
         Refuse(r) \/ IssueCredentials(r) \/ ResendCredentials(r) \/ ValidateToken(r)
  PROVE  UserStep /\ OtpsKept
  <1>1. Kept
    BY DoneKeeps DEF Refuse, IssueCredentials, ResendCredentials, ValidateToken, Done
  <1>2. UNCHANGED <<users, version>>
    BY DEF Refuse, IssueCredentials, ResendCredentials, ValidateToken, tables
  <1> QED
    BY <1>1, <1>2, StandStill

LEMMA TimeSteps ==
  ASSUME SnapInv, (\E l \in Links : Expire(l)) \/ HourPasses \/ UNCHANGED accountsVars
  PROVE  UserStep /\ OtpsKept
  <1>1. UNCHANGED <<users, version, req>>
    BY DEF Expire, HourPasses, accountsVars, tables
  <1>2. Kept
    BY <1>1 DEF Kept, SnapInv, RequestsType
  <1> QED
    BY <1>1, <1>2, StandStill

LEMMA Restarting ==
  ASSUME SnapInv, Restart
  PROVE  UserStep /\ OtpsKept
  <1>1. Kept
    BY DEF Restart, Kept
  <1>2. CASE UNCHANGED <<users, version>>
    BY <1>1, <1>2, StandStill
  <1>3. CASE Insert(Root, Account("SUPER_ADMIN", "ACTIVE"))
    BY <1>1, <1>3, NewAccount, RowInserted, AccountsAssumption
  <1> QED
    BY <1>2, <1>3 DEF Restart

(* The steps that give no account a link: all but ForgotPassword and the   *)
(* two after which requests have a new snapshot or link.                   *)
LEMMA QuietHandlers ==
  ASSUME SnapInv, NEW r \in Requests, Handle(r), ~ ForgotPassword(r), ~ SendCredentials(r)
  PROVE  UserStep /\ OtpsKept
  BY InsertingRequests, DiscardingRequests, Logins, Regenerating, Approving, Updating,
     Bypassing, Resetting, Activating, TokenRequests
  DEF Handle

LEMMA StandingAccounts ==
  ASSUME SnapInv, NEW r \in Requests, Begin(r) \/ SendCredentials(r)
  PROVE  BlockStep
  BY DEF Begin, SendCredentials, tables, BlockStep

LEMMA UserSteps ==
  ASSUME SnapInv, UserStep
  PROVE  SnapInv'
  BY AgreesStill, AgreesAfterWrite DEF UserStep

LEMMA InitSnap == AccountsInit => SnapInv
  <1> SUFFICES ASSUME AccountsInit PROVE SnapInv
    OBVIOUS
  <1>1. UsersType
    <2>1. PICK others \in SUBSET (Users \ {Root}), status \in Statuses :
            users = [x \in others \cup {Root} |->
                       IF x = Root THEN Account("SUPER_ADMIN", "ACTIVE")
                       ELSE Account("OPERATIVE", status)]
      BY DEF AccountsInit
    <2> QED
      BY <2>1, AccountsAssumption, NewAccount DEF UsersType
  <1>2. RequestsType /\ version \in [Users -> Nat]
    BY DEF AccountsInit, RequestsType
  <1> QED
    BY <1>1, <1>2 DEF AccountsInit, SnapInv

LEMMA StepSnap == SnapInv /\ [AccountsNext]_accountsVars => SnapInv' /\ BlockStep
  <1> SUFFICES ASSUME SnapInv, [AccountsNext]_accountsVars PROVE SnapInv' /\ BlockStep
    OBVIOUS
  <1>1. ASSUME NEW r \in Requests, Begin(r) \/ Handle(r) \/ Refuse(r)
        PROVE  SnapInv' /\ BlockStep
    <2>1. CASE Begin(r)
      BY <2>1, BeginAgrees, StandingAccounts
    <2>2. CASE SendCredentials(r)
      BY <2>2, SendAgrees, StandingAccounts
    <2>3. CASE ForgotPassword(r)
      BY <2>3, Forgetting, UserSteps DEF UserStep
    <2>4. CASE Handle(r) /\ ~ ForgotPassword(r) /\ ~ SendCredentials(r)
      BY <2>4, QuietHandlers, UserSteps DEF UserStep
    <2>5. CASE Refuse(r)
      BY <2>5, TokenRequests, UserSteps DEF UserStep
    <2> QED
      BY <1>1, <2>1, <2>2, <2>3, <2>4, <2>5
  <1>2. CASE (\E l \in Links : Expire(l)) \/ HourPasses \/ UNCHANGED accountsVars
    BY <1>2, TimeSteps, UserSteps DEF UserStep
  <1>3. CASE Restart
    BY <1>3, Restarting, UserSteps DEF UserStep
  <1> QED
    BY <1>1, <1>2, <1>3 DEF AccountsNext

(* A blocked account becomes active only through a request of an           *)
(* administrator, or of the dev bypass, that saw it blocked: what another  *)
(* request read before the block, its commit does not write over it        *)
(* (approve_user, update_user, dev_bypass, activate_account).              *)
THEOREM BlocksHold == AccountsSpec => BlockHolds
  <1>1. SnapInv /\ [AccountsNext]_accountsVars => [BlockStep]_accountsVars
    BY StepSnap
  <1> QED
    BY <1>1, InitSnap, StepSnap, PTL DEF AccountsSpec, BlockHolds, BlockStep

-----------------------------------------------------------------------------
(* Where a link is: in the table of tokens, in an account that forgot its  *)
(* password, or in a request that has mailed it and not yet committed; in  *)
(* one place at a time, and there only once it has been drawn.             *)

Pending(r) == req[r] # NoRequest /\ req[r].op = "issue" /\ req[r].link # NoLink

LinksType ==
  /\ issued \subseteq Links
  /\ tokens = [l \in DOMAIN tokens |-> tokens[l]]
  /\ \A l \in DOMAIN tokens : DOMAIN tokens[l] = {"name", "used", "audit"}
  /\ spent \in [Links -> Nat]

Apart ==
  /\ DOMAIN tokens \subseteq issued
  /\ \A u \in DOMAIN users : users[u].otp # NoLink => users[u].otp \in issued \ DOMAIN tokens
  /\ \A u, v \in DOMAIN users :
       users[u].otp # NoLink /\ users[u].otp = users[v].otp => u = v
  /\ \A r \in Requests : Pending(r) =>
       /\ req[r].link \in issued \ DOMAIN tokens
       /\ \A u \in DOMAIN users : users[u].otp # req[r].link
  /\ \A r, s \in Requests : Pending(r) /\ Pending(s) /\ req[r].link = req[s].link => r = s

(* No password has been set through a link that still can set one.         *)
Unspent ==
  /\ \A l \in Links \ issued : spent[l] = 0
  /\ \A l \in DOMAIN tokens : ~ tokens[l].used => spent[l] = 0
  /\ \A u \in DOMAIN users : users[u].otp # NoLink => spent[users[u].otp] = 0
  /\ \A r \in Requests : Pending(r) => spent[req[r].link] = 0
  /\ \A l \in Links : spent[l] <= 1

LinkInv == LinksType /\ Apart /\ (StaleRefused => Unspent)

PendingKept ==
  \A r \in Requests : Pending(r)' => Pending(r) /\ req'[r].link = req[r].link

LEMMA KeptPending ==
  ASSUME Kept
  PROVE  PendingKept
  BY DEF Kept, PendingKept, Pending

LEMMA LinksStill ==
  ASSUME LinkInv, OtpsKept, PendingKept, UNCHANGED <<tokens, issued, spent>>
  PROVE  LinkInv'
  <1>1. LinksType'
    BY DEF LinkInv, LinksType
  <1>2. \A u \in DOMAIN users' : users'[u].otp # NoLink =>
          u \in DOMAIN users /\ users'[u].otp = users[u].otp
    BY DEF OtpsKept
  <1>3. \A r \in Requests : Pending(r)' => Pending(r) /\ req'[r].link = req[r].link
    BY DEF PendingKept
  <1>4. \A r \in Requests : Pending(r) => req[r].link # NoLink
    BY DEF Pending
  <1>5. Apart'
    BY <1>2, <1>3, <1>4 DEF LinkInv, Apart
  <1>6. StaleRefused => Unspent'
    BY <1>2, <1>3 DEF LinkInv, Unspent
  <1> QED
    BY <1>1, <1>5, <1>6 DEF LinkInv

LEMMA BeginPending ==
  ASSUME SnapInv, NEW r \in Requests, Begin(r)
  PROVE  PendingKept /\ OtpsKept /\ UNCHANGED <<tokens, issued, spent>>
  <1>1. PICK c \in Public \cup Linked \cup Managing \cup Credential :
          req' = [req EXCEPT ![r] =
                    [op |-> c.op, by |-> c.by, on |-> c.on, link |-> c.link,
                     users |-> users, version |-> version, tokens |-> tokens,
                     recent |-> recent[c.by]]]
    BY DEF Begin
  <1>2. c.op = "issue" => c.link = NoLink
    BY DEF Public, Linked, Managing, Credential
  <1>3. /\ req'[r].op = c.op /\ req'[r].link = c.link
        /\ \A x \in Requests \ {r} : req'[x] = req[x]
    BY <1>1 DEF SnapInv, RequestsType
  <1>4. PendingKept
    BY <1>2, <1>3 DEF PendingKept, Pending
  <1> QED
    BY <1>4 DEF Begin, tables, outside, OtpsKept

LEMMA SendLinks ==
  ASSUME SnapInv, LinkInv, NEW r \in Requests, SendCredentials(r)
  PROVE  LinkInv'
  <1>1. PICK l \in Unissued : req' = [req EXCEPT ![r].link = l] /\ issued' = issued \cup {l}
    BY DEF SendCredentials
  <1>2. l \in Links \ issued
    BY DEF Unissued
  <1>3. req[r].op = "issue" /\ req[r] # NoRequest /\ IsRequest(req[r])
    BY DEF SendCredentials, Serving, SnapInv, RequestsType
  <1>4. req'[r].op = "issue" /\ req'[r].link = l
    BY <1>1, <1>3 DEF SnapInv, RequestsType, IsRequest
  <1>5. \A x \in Requests \ {r} : req'[x] = req[x]
    BY <1>1 DEF SnapInv, RequestsType
  <1>6. \A x \in Requests \ {r} : Pending(x)' <=> Pending(x)
    BY <1>5 DEF Pending
  <1>7. UNCHANGED <<users, tokens, spent>>
    BY DEF SendCredentials, tables
  <1>8. LinksType'
    <2>1. issued' \subseteq Links
      BY <1>1, <1>2 DEF LinkInv, LinksType
    <2> QED
      BY <1>7, <2>1 DEF LinkInv, LinksType
  <1>9. Apart'
    <2>1. l \notin DOMAIN tokens /\ \A u \in DOMAIN users : users[u].otp # l
      <3>1. l # NoLink
        BY <1>2, AccountsAssumption
      <3> QED
        BY <1>2, <3>1 DEF LinkInv, Apart
    <2>2. \A x \in Requests \ {r} : Pending(x) => req[x].link # l
      BY <1>2 DEF LinkInv, Apart
    <2>3. /\ DOMAIN tokens \subseteq issued'
          /\ \A u \in DOMAIN users : users[u].otp # NoLink =>
               users[u].otp \in issued' \ DOMAIN tokens
      BY <1>1 DEF LinkInv, Apart
    <2>4. \A x \in Requests : Pending(x)' =>
            /\ req'[x].link \in issued' \ DOMAIN tokens
            /\ \A u \in DOMAIN users : users[u].otp # req'[x].link
      BY <1>1, <1>4, <1>5, <1>6, <2>1 DEF LinkInv, Apart
    <2>5. \A x, y \in Requests :
            Pending(x)' /\ Pending(y)' /\ req'[x].link = req'[y].link => x = y
      BY <1>4, <1>5, <1>6, <2>2 DEF LinkInv, Apart
    <2> QED
      BY <1>7, <2>3, <2>4, <2>5 DEF LinkInv, Apart
  <1>10. StaleRefused => Unspent'
    BY <1>1, <1>2, <1>4, <1>5, <1>6, <1>7 DEF LinkInv, Unspent
  <1> QED
    BY <1>8, <1>9, <1>10 DEF LinkInv

LEMMA ForgetLinks ==
  ASSUME SnapInv, LinkInv, NEW r \in Requests, ForgotPassword(r)
  PROVE  LinkInv'
  <1> DEFINE u == req[r].on
  <1>1. PICK l \in Unissued : WriteUser(u, [users[u] EXCEPT !.otp = l]) /\ issued' = issued \cup {l}
    BY DEF ForgotPassword
  <1>2. l \in Links \ issued
    BY DEF Unissued
  <1>3. u \in DOMAIN users /\ Done(r) /\ UNCHANGED <<tokens, spent>>
    BY DEF ForgotPassword, Fresh
  <1>4. IsRow(users[u])
    BY <1>3 DEF SnapInv, UsersType
  <1>5. /\ DOMAIN users' = DOMAIN users /\ users'[u].otp = l
        /\ \A x \in DOMAIN users \ {u} : users'[x] = users[x]
    BY <1>1, <1>3, <1>4 DEF WriteUser, IsRow, SnapInv, UsersType
  <1>6. PendingKept
    BY <1>3, DoneKeeps, KeptPending DEF Done
  <1> HIDE DEF u
  <1>7. LinksType'
    BY <1>1, <1>2, <1>3 DEF LinkInv, LinksType
  <1>8. Apart'
    BY <1>1, <1>2, <1>3, <1>5, <1>6 DEF LinkInv, Apart, PendingKept
  <1>9. StaleRefused => Unspent'
    BY <1>1, <1>2, <1>3, <1>5, <1>6 DEF LinkInv, Unspent, PendingKept
  <1> QED
    BY <1>7, <1>8, <1>9 DEF LinkInv

(* The link is the account's own, as a commit that is not refused read it: *)
(* no other account, token or request holds it.                            *)
LEMMA ResetLinks ==
  ASSUME SnapInv, LinkInv, NEW r \in Requests, ResetPassword(r)
  PROVE  LinkInv'
  <1> DEFINE l == req[r].link
  <1>1. PICK u \in DOMAIN req[r].users :
          /\ req[r].users[u].otp = l /\ Fresh(r, u)
          /\ WriteUser(u, [users[u] EXCEPT !.otp = NoLink])
    BY DEF ResetPassword
  <1>2. /\ req[r] # NoRequest /\ u \in DOMAIN users /\ Done(r) /\ UNCHANGED <<tokens, issued>>
        /\ spent' = [spent EXCEPT ![l] = @ + 1]
    BY <1>1 DEF ResetPassword, Serving, Fresh, outside
  <1>3. l \in Links
    BY DEF ResetPassword, Serving, SnapInv, RequestsType, IsRequest
  <1>4. IsRow(users[u])
    BY <1>2 DEF SnapInv, UsersType
  <1>5. /\ DOMAIN users' = DOMAIN users /\ users'[u].otp = NoLink
        /\ \A x \in DOMAIN users \ {u} : users'[x] = users[x]
    BY <1>1, <1>2, <1>4 DEF WriteUser, IsRow, SnapInv, UsersType
  <1>6. PendingKept
    BY <1>2, DoneKeeps, KeptPending DEF Done
  <1>7. StaleRefused => users[u].otp = l
    BY <1>1, <1>2, FreshAgrees DEF Known
  <1> HIDE DEF l
  <1>8. LinksType'
    <2>1. spent' \in [Links -> Nat]
      <3>1. spent \in [Links -> Nat]
        BY DEF LinkInv, LinksType
      <3> QED
        BY <1>2, <1>3, <3>1
    <2> QED
      BY <1>2, <2>1 DEF LinkInv, LinksType
  <1>9. Apart'
    BY <1>2, <1>5, <1>6 DEF LinkInv, Apart, PendingKept, Pending
  <1>10. ASSUME StaleRefused PROVE Unspent'
    <2>1. l # NoLink
      BY <1>3, AccountsAssumption
    <2>2. users[u].otp = l
      BY <1>7, <1>10
    <2>3. spent[l] = 0 /\ l \in issued \ DOMAIN tokens
      BY <1>2, <1>10, <2>1, <2>2 DEF LinkInv, Unspent, Apart
    <2>4. spent'[l] = 1 /\ \A k \in Links \ {l} : spent'[k] = spent[k]
      BY <1>2, <1>3, <2>3 DEF LinkInv, LinksType
    <2>5. \A x \in DOMAIN users' : users'[x].otp # NoLink =>
            x # u /\ users'[x].otp = users[x].otp /\ users[x].otp # l /\ users[x].otp \in Links
      BY <1>2, <1>5, <2>1, <2>2 DEF LinkInv, Apart, LinksType
    <2>6. \A x \in Requests : Pending(x)' =>
            Pending(x) /\ req'[x].link = req[x].link /\ req[x].link \in Links \ {l}
      BY <1>2, <1>6, <2>2 DEF LinkInv, Apart, PendingKept, LinksType
    <2>7. DOMAIN tokens \subseteq Links
      BY DEF LinkInv, Apart, LinksType
    <2> QED
      BY <1>2, <1>5, <1>10, <2>3, <2>4, <2>5, <2>6, <2>7 DEF LinkInv, Unspent
  <1> QED
    BY <1>8, <1>9, <1>10 DEF LinkInv

LEMMA ActivateLinks ==
  ASSUME SnapInv, LinkInv, NEW r \in Requests, ActivateAccount(r)
  PROVE  LinkInv'
  <1> DEFINE l == req[r].link
  <1>1. /\ l \in DOMAIN tokens /\ Done(r) /\ UNCHANGED issued
        /\ tokens' = [tokens EXCEPT ![l].used = TRUE]
        /\ spent' = [spent EXCEPT ![l] = @ + 1]
    BY DEF ActivateAccount, FreshToken, outside
  <1>2. StaleRefused => ~ tokens[l].used
    BY DEF ActivateAccount, Usable, FreshToken
  <1>3. OtpsKept /\ PendingKept
    BY <1>1, Activating, DoneKeeps, KeptPending DEF Done
  <1> HIDE DEF l
  <1>4. l \in Links /\ DOMAIN tokens \subseteq Links
    BY <1>1 DEF LinkInv, LinksType, Apart
  <1>5. /\ DOMAIN tokens' = DOMAIN tokens /\ tokens'[l].used
        /\ \A k \in DOMAIN tokens \ {l} : tokens'[k] = tokens[k]
        /\ \A k \in DOMAIN tokens : DOMAIN tokens'[k] = DOMAIN tokens[k]
    BY <1>1 DEF LinkInv, LinksType
  <1>6. LinksType'
    <2>1. tokens' = [k \in DOMAIN tokens' |-> tokens'[k]]
      BY <1>1
    <2>2. spent' \in [Links -> Nat]
      <3>1. spent \in [Links -> Nat]
        BY DEF LinkInv, LinksType
      <3> QED
        BY <1>1, <1>4, <3>1
    <2> QED
      BY <1>1, <1>5, <2>1, <2>2 DEF LinkInv, LinksType
  <1>7. Apart'
    <2>1. \A u \in DOMAIN users' : users'[u].otp # NoLink =>
            u \in DOMAIN users /\ users'[u].otp = users[u].otp
      BY <1>3 DEF OtpsKept
    <2>2. \A x \in Requests : Pending(x)' => Pending(x) /\ req'[x].link = req[x].link
      BY <1>3 DEF PendingKept
    <2>3. \A x \in Requests : Pending(x) => req[x].link # NoLink
      BY DEF Pending
    <2> QED
      BY <1>1, <1>5, <2>1, <2>2, <2>3 DEF LinkInv, Apart
  <1>8. ASSUME StaleRefused PROVE Unspent'
    <2>1. spent[l] = 0
      BY <1>1, <1>2, <1>8 DEF LinkInv, Unspent
    <2>2. spent'[l] = 1 /\ \A k \in Links \ {l} : spent'[k] = spent[k]
      BY <1>1, <1>4, <2>1 DEF LinkInv, LinksType
    <2>3. \A u \in DOMAIN users' : users'[u].otp # NoLink =>
            u \in DOMAIN users /\ users'[u].otp = users[u].otp /\ users[u].otp \in Links \ {l}
      BY <1>1, <1>3 DEF OtpsKept, LinkInv, Apart, LinksType
    <2>4. \A x \in Requests : Pending(x)' =>
            Pending(x) /\ req'[x].link = req[x].link /\ req[x].link \in Links \ {l}
      BY <1>1, <1>3 DEF PendingKept, LinkInv, Apart, LinksType
    <2>5. l \in issued
      BY <1>1 DEF LinkInv, Apart
    <2> QED
      BY <1>1, <1>4, <1>5, <1>8, <2>2, <2>3, <2>4, <2>5 DEF LinkInv, Unspent
  <1> QED
    BY <1>6, <1>7, <1>8 DEF LinkInv

LEMMA IssueLinks ==
  ASSUME SnapInv, LinkInv, NEW r \in Requests, IssueCredentials(r)
  PROVE  LinkInv'
  <1> DEFINE l == req[r].link
  <1>1. /\ Pending(r) /\ Done(r) /\ UNCHANGED <<users, issued, spent>>
        /\ tokens' = [k \in DOMAIN tokens \cup {l} |->
                        IF k = l THEN [name |-> req[r].on, used |-> FALSE, audit |-> "GENERATED"]
                        ELSE tokens[k]]
    BY DEF IssueCredentials, Serving, Pending
  <1>2. l \in issued \ DOMAIN tokens /\ \A u \in DOMAIN users : users[u].otp # l
    BY <1>1 DEF LinkInv, Apart
  <1>3. ~ Pending(r)' /\ PendingKept
    BY <1>1, DoneKeeps, KeptPending DEF Done, Pending, SnapInv, RequestsType
  <1>4. \A x \in Requests : Pending(x)' =>
          Pending(x) /\ req'[x].link = req[x].link /\ req[x].link # l
    BY <1>1, <1>3 DEF PendingKept, LinkInv, Apart
  <1>5. DOMAIN tokens' = DOMAIN tokens \cup {l}
        /\ DOMAIN tokens'[l] = {"name", "used", "audit"}
        /\ \A k \in DOMAIN tokens : tokens'[k] = tokens[k]
    BY <1>1, <1>2
  <1>6. StaleRefused => spent[l] = 0
    BY <1>1 DEF LinkInv, Unspent
  <1> HIDE DEF l
  <1>7. LinksType'
    BY <1>1, <1>5 DEF LinkInv, LinksType
  <1>8. Apart'
    BY <1>1, <1>2, <1>4, <1>5 DEF LinkInv, Apart
  <1>9. StaleRefused => Unspent'
    BY <1>1, <1>4, <1>5, <1>6 DEF LinkInv, Unspent
  <1> QED
    BY <1>7, <1>8, <1>9 DEF LinkInv

LEMMA ValidateLinks ==
  ASSUME SnapInv, LinkInv, NEW r \in Requests, ValidateToken(r)
  PROVE  LinkInv'
  <1> DEFINE l == req[r].link
  <1>1. /\ l \in DOMAIN tokens /\ Done(r) /\ UNCHANGED <<users, issued, spent>>
        /\ tokens' = [tokens EXCEPT ![l].used = TRUE, ![l].audit = "USED"]
    BY DEF ValidateToken, FreshToken
  <1>2. PendingKept
    BY <1>1, DoneKeeps, KeptPending DEF Done
  <1> HIDE DEF l
  <1>3. /\ DOMAIN tokens' = DOMAIN tokens /\ tokens'[l].used
        /\ \A k \in DOMAIN tokens \ {l} : tokens'[k] = tokens[k]
        /\ DOMAIN tokens'[l] = DOMAIN tokens[l]
    BY <1>1 DEF LinkInv, LinksType
  <1>4. LinksType'
    <2>1. tokens' = [k \in DOMAIN tokens' |-> tokens'[k]]
      BY <1>1
    <2> QED
      BY <1>1, <1>3, <2>1 DEF LinkInv, LinksType
  <1>5. Apart'
    BY <1>1, <1>2, <1>3 DEF LinkInv, Apart, PendingKept
  <1>6. StaleRefused => Unspent'
    BY <1>1, <1>2, <1>3 DEF LinkInv, Unspent, PendingKept
  <1> QED
    BY <1>4, <1>5, <1>6 DEF LinkInv

-----------------------------------------------------------------------------
LEMMA InitLinks == AccountsInit => LinkInv
  <1> SUFFICES ASSUME AccountsInit PROVE LinkInv
    OBVIOUS
  <1>1. PICK others \in SUBSET (Users \ {Root}), status \in Statuses, u \in Users,
             sent \in {{}, {CHOOSE l \in Links : TRUE}} :
          /\ sent # {} => u \in others
          /\ users = [x \in others \cup {Root} |->
                        IF x = Root THEN Account("SUPER_ADMIN", "ACTIVE")
                        ELSE Account("OPERATIVE", status)]
          /\ tokens = [l \in sent |-> [name |-> u, used |-> FALSE, audit |-> "GENERATED"]]
          /\ issued = sent /\ mailed = sent
          /\ referenced = IF sent = {} THEN {} ELSE {Root}
    BY Zenon DEF AccountsInit
  <1>2. sent \subseteq Links
    BY AccountsAssumption
  <1>3. spent = [l \in Links |-> 0] /\ \A r \in Requests : ~ Pending(r)
    BY DEF AccountsInit, Pending
  <1>4. \A x \in DOMAIN users : users[x].otp = NoLink
    BY <1>1, NewAccount
  <1>5. LinksType
    BY <1>1, <1>2, <1>3 DEF LinksType
  <1>6. Apart
    BY <1>1, <1>3, <1>4 DEF Apart
  <1>7. Unspent
    BY <1>1, <1>2, <1>3, <1>4 DEF Unspent
  <1> QED
    BY <1>5, <1>6, <1>7 DEF LinkInv

LEMMA StillHandlers ==
  ASSUME NEW r \in Requests,
         \/ Register(r) \/ Login(r) \/ AdminLogin(r) \/ DevBypass(r)
         \/ CreateUser(r) \/ UpdateUser(r) \/ ApproveUser(r)
         \/ RegenerateAdminCode(r) \/ DeleteUser(r) \/ DenyUser(r)
         \/ ResendCredentials(r) \/ Refuse(r)
  PROVE  UNCHANGED <<tokens, issued, spent>>
  BY DEF Register, Login, AdminLogin, DevBypass, CreateUser, UpdateUser, ApproveUser,
         RegenerateAdminCode, DeleteUser, DenyUser, ResendCredentials, Refuse, tables, outside

LEMMA StepLinks == SnapInv /\ LinkInv /\ [AccountsNext]_accountsVars => LinkInv'
  <1> SUFFICES ASSUME SnapInv, LinkInv, [AccountsNext]_accountsVars PROVE LinkInv'
    OBVIOUS
  <1>1. ASSUME NEW r \in Requests, Begin(r) \/ Handle(r) \/ Refuse(r)
        PROVE  LinkInv'
    <2>1. CASE Begin(r)
      BY <2>1, BeginPending, LinksStill
    <2>2. CASE \/ SendCredentials(r) \/ ForgotPassword(r) \/ ResetPassword(r)
               \/ ActivateAccount(r) \/ IssueCredentials(r) \/ ValidateToken(r)
      BY <2>2, SendLinks, ForgetLinks, ResetLinks, ActivateLinks, IssueLinks, ValidateLinks
    <2>3. CASE \/ Register(r) \/ Login(r) \/ AdminLogin(r) \/ DevBypass(r)
               \/ CreateUser(r) \/ UpdateUser(r) \/ ApproveUser(r)
               \/ RegenerateAdminCode(r) \/ DeleteUser(r) \/ DenyUser(r)
               \/ ResendCredentials(r) \/ Refuse(r)
      <3>1. UserStep /\ OtpsKept
        BY <2>3, InsertingRequests, DiscardingRequests, Logins, Regenerating, Approving,
           Updating, Bypassing, TokenRequests
      <3> QED
        BY <2>3, <3>1, StillHandlers, KeptPending, LinksStill DEF UserStep
    <2> QED
      BY <1>1, <2>1, <2>2, <2>3 DEF Handle
  <1>2. CASE (\E l \in Links : Expire(l)) \/ HourPasses \/ UNCHANGED accountsVars
    <2>1. UserStep /\ OtpsKept
      BY <1>2, TimeSteps
    <2>2. UNCHANGED <<tokens, issued, spent>>
      BY <1>2 DEF Expire, HourPasses, accountsVars, tables, outside
    <2> QED
      BY <2>1, <2>2, KeptPending, LinksStill DEF UserStep
  <1>3. CASE Restart
    <2>1. UserStep /\ OtpsKept
      BY <1>3, Restarting
    <2>2. UNCHANGED <<tokens, issued, spent>>
      BY <1>3 DEF Restart, outside
    <2> QED
      BY <2>1, <2>2, KeptPending, LinksStill DEF UserStep
  <1> QED
    BY <1>1, <1>2, <1>3 DEF AccountsNext

(* A link sets a password once, whatever requests bring it at the same     *)
(* time and whoever else's it might be: a commit that is not refused found *)
(* it where it was read (activate_account, reset_password).                *)
THEOREM LinksWorkOnce == AccountsSpec => []SingleUse
  <1>1. LinkInv => SingleUse
    BY DEF LinkInv, Unspent, SingleUse
  <1> QED
    BY <1>1, InitSnap, InitLinks, StepSnap, StepLinks, PTL DEF AccountsSpec
=============================================================================
