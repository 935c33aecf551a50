------------------------------ MODULE Accounts ------------------------------
(***************************************************************************)
(* User accounts, their one-time links and the administrators' operations  *)
(* on them: services/auth_service.py, services/credential_service.py and   *)
(* the endpoints auth.py, users.py and credentials_api.py.                 *)
(*                                                                         *)
(* A request is a transaction.  It begins with its first read, sees that   *)
(* snapshot until its end, and writes the columns it changed when it       *)
(* commits.  A commit is refused when a row it writes has changed since    *)
(* the snapshot (StaleRefused).  Passwords, names and mail texts are left  *)
(* out; a link stands for the token in it.                                 *)
(***************************************************************************)
EXTENDS Naturals, FiniteSets

CONSTANTS
  Users,         \* accounts, by e-mail address
  Root,          \* the seeded administrator, also the one of the dev bypass
  Links,         \* one-time links: credential tokens and password resets
  Requests,      \* requests served at the same time
  NoRequest,     \* no request
  NoLink,        \* no link
  RateLimit,     \* credential operations of one administrator in an hour
  StaleRefused,  \* a write to a row changed since the snapshot is an error
  MaxRequests    \* bound on the requests

ASSUME AccountsAssumption ==
  /\ Root \in Users
  /\ Links # {} /\ NoLink \notin Links
  /\ RateLimit \in Nat /\ MaxRequests \in Nat
  /\ StaleRefused \in BOOLEAN

VARIABLES
  users,       \* the users table: row by account
  version,     \* how often an account's row was written, deletions included
  tokens,      \* the credential_tokens table: row by link
  referenced,  \* accounts that rows of other tables refer to
  recent,      \* credential operations of an administrator in this hour
  issued,      \* links drawn so far
  mailed,      \* links that reached a mailbox
  expired,     \* links past their expiry
  forms,       \* links for which the portal shows "Activate account"
  req,         \* requests being served, each with its snapshot
  asked,       \* requests so far
  spent        \* history: passwords set through a link

tables == <<users, version, tokens, referenced>>
outside == <<recent, issued, mailed, expired, forms>>
accountsVars == <<tables, outside, req, asked, spent>>

Statuses == {"ACTIVE", "PENDING", "BLOCKED"}
Requestable == {"OPERATIVE", "OVERSEER"}
AdminRoles == {"SUPER_ADMIN", "OVERSEER"}
Roles == AdminRoles \cup Requestable

Account(role, status) == [role |-> role, status |-> status, code |-> FALSE, otp |-> NoLink]

-----------------------------------------------------------------------------
(* Requests.                                                               *)

Public == [op : {"register", "login", "adminLogin", "forgot", "bypass"},
           by : {Root}, on : Users, link : {NoLink}]
Linked == [op : {"open", "activate", "reset"}, by : {Root}, on : {Root}, link : Links]
Managing == [op : {"create", "approve", "update", "delete", "deny", "regenerate"},
             by : Users, on : Users, link : {NoLink}]
Credential == [op : {"issue"}, by : Users, on : Users, link : {NoLink}]
              \cup [op : {"resend"}, by : Users, on : {Root}, link : Links]

IsActive(u) == u \in DOMAIN users /\ users[u].status = "ACTIVE"

(* get_current_user and require_role: the first read of the request.       *)
Allowed(c) ==
  \/ c \in Public
  \/ c \in Linked /\ c.link \in mailed
  \/ c \in Managing /\ IsActive(c.by) /\ users[c.by].role = "SUPER_ADMIN"
  \/ /\ c \in Credential /\ IsActive(c.by) /\ users[c.by].role \in AdminRoles
     /\ c.op = "resend" => c.link \in DOMAIN tokens

Begin(r) ==
  /\ req[r] = NoRequest /\ asked < MaxRequests
  /\ \E c \in Public \cup Linked \cup Managing \cup Credential :
       /\ Allowed(c)
       /\ req' = [req EXCEPT ![r] =
                    [op |-> c.op, by |-> c.by, on |-> c.on, link |-> c.link,
                     users |-> users, version |-> version, tokens |-> tokens,
                     recent |-> recent[c.by]]]
  /\ asked' = asked + 1
  /\ UNCHANGED <<tables, outside, spent>>

Serving(r, op) == req[r] # NoRequest /\ req[r].op = op

(* A check fails, the commit is refused, the database is away.             *)
Refuse(r) ==
  /\ req[r] # NoRequest
  /\ req' = [req EXCEPT ![r] = NoRequest]
  /\ UNCHANGED <<tables, outside, asked, spent>>

Done(r) == req' = [req EXCEPT ![r] = NoRequest] /\ UNCHANGED asked

-----------------------------------------------------------------------------
(* Writes.                                                                 *)

Known(r, u) == u \in DOMAIN req[r].users

(* An UPDATE of account u's row goes through.                              *)
Fresh(r, u) == /\ u \in DOMAIN users
               /\ StaleRefused => version[u] = req[r].version[u]

Touched(u) == version' = [version EXCEPT ![u] = @ + 1]

WriteUser(u, row) == users' = [users EXCEPT ![u] = row] /\ Touched(u)

Insert(u, row) ==
  /\ u \notin DOMAIN users
  /\ users' = [x \in DOMAIN users \cup {u} |-> IF x = u THEN row ELSE users[x]]
  /\ Touched(u)

Discard(u) ==
  /\ users' = [x \in DOMAIN users \ {u} |-> users[x]]
  /\ Touched(u)

FreshToken(r, l) == /\ l \in DOMAIN tokens
                    /\ StaleRefused => tokens[l] = req[r].tokens[l]

(* Faulty: a link works until it expires, whether it was used or not.     *)
UsableUntilExpired(r, l) == l \in DOMAIN req[r].tokens /\ l \notin expired

Usable(r, l) == l \in DOMAIN req[r].tokens /\ ~ req[r].tokens[l].used /\ l \notin expired

Unissued == Links \ issued

(* A message arrives or does not; its sender hardly minds.                 *)
Send(l) == mailed' \in {mailed, mailed \cup {l}}

LogActivity(q) ==
  /\ q.by \in DOMAIN users
  /\ recent' = [recent EXCEPT ![q.by] = @ + 1]
  /\ referenced' = referenced \cup {q.by}

-----------------------------------------------------------------------------
(* services/auth_service.py and endpoints/auth.py.                         *)

Register(r) ==
  LET u == req[r].on
  IN  /\ Serving(r, "register") /\ ~ Known(r, u)
      /\ \E role \in Requestable : Insert(u, Account(role, "PENDING"))
      /\ Done(r)
      /\ UNCHANGED <<tokens, referenced, outside, spent>>

(* Both logins write last_login.                                           *)
Login(r) ==
  LET u == req[r].on
  IN  /\ Serving(r, "login") /\ Known(r, u)
      /\ req[r].users[u].status \notin {"PENDING", "BLOCKED"}
      /\ Fresh(r, u) /\ WriteUser(u, users[u])
      /\ Done(r)
      /\ UNCHANGED <<tokens, referenced, outside, spent>>

AdminLogin(r) ==
  LET u == req[r].on
  IN  /\ Serving(r, "adminLogin") /\ Known(r, u)
      /\ req[r].users[u].status = "ACTIVE" /\ req[r].users[u].role \in AdminRoles
      /\ req[r].users[u].code
      /\ Fresh(r, u) /\ WriteUser(u, users[u])
      /\ Done(r)
      /\ UNCHANGED <<tokens, referenced, outside, spent>>

ForgotPassword(r) ==
  LET u == req[r].on
  IN  /\ Serving(r, "forgot") /\ Known(r, u) /\ Fresh(r, u)
      /\ \E l \in Unissued :
           /\ WriteUser(u, [users[u] EXCEPT !.otp = l])
           /\ issued' = issued \cup {l}
           /\ Send(l)
      /\ Done(r)
      /\ UNCHANGED <<tokens, referenced, recent, expired, forms, spent>>

ResetPassword(r) ==
  LET l == req[r].link
  IN  /\ Serving(r, "reset") /\ l \notin expired
      /\ \E u \in DOMAIN req[r].users :
           /\ req[r].users[u].otp = l /\ Fresh(r, u)
           /\ WriteUser(u, [users[u] EXCEPT !.otp = NoLink])
      /\ spent' = [spent EXCEPT ![l] = @ + 1]
      /\ Done(r)
      /\ UNCHANGED <<tokens, referenced, outside>>

(* Faulty: whatever the account's status was, the link makes it active.    *)
ActivateAnyAccount(r) ==
  LET l == req[r].link  u == req[r].tokens[l].name
  IN  /\ Serving(r, "activate") /\ Usable(r, l) /\ Known(r, u)
      /\ Fresh(r, u) /\ FreshToken(r, l)
      /\ WriteUser(u, [users[u] EXCEPT !.status = "ACTIVE"])
      /\ tokens' = [tokens EXCEPT ![l].used = TRUE]
      /\ spent' = [spent EXCEPT ![l] = @ + 1]
      /\ Done(r)
      /\ UNCHANGED <<referenced, outside>>

(* The account is found by the name the credentials were issued for.       *)
ActivateAccount(r) ==
  LET l == req[r].link  u == req[r].tokens[l].name
  IN  /\ Serving(r, "activate") /\ Usable(r, l) /\ Known(r, u)
      /\ Fresh(r, u) /\ FreshToken(r, l)
      /\ WriteUser(u, IF req[r].users[u].status = "PENDING"
                      THEN [users[u] EXCEPT !.status = "ACTIVE"] ELSE users[u])
      /\ tokens' = [tokens EXCEPT ![l].used = TRUE]
      /\ spent' = [spent EXCEPT ![l] = @ + 1]
      /\ Done(r)
      /\ UNCHANGED <<referenced, outside>>

DevBypass(r) ==
  /\ Serving(r, "bypass")
  /\ IF Known(r, Root)
     THEN LET old == req[r].users[Root]
              demoted == old.status # "ACTIVE" \/ old.role # "SUPER_ADMIN"
          IN  IF demoted \/ ~ old.code
              THEN /\ Fresh(r, Root)
                   /\ WriteUser(Root,
                        [users[Root] EXCEPT
                           !.status = IF demoted THEN "ACTIVE" ELSE @,
                           !.role = IF demoted THEN "SUPER_ADMIN" ELSE @,
                           !.code = TRUE])
              ELSE UNCHANGED <<users, version>>
     ELSE Insert(Root, [Account("SUPER_ADMIN", "ACTIVE") EXCEPT !.code = TRUE])
  /\ Done(r)
  /\ UNCHANGED <<tokens, referenced, outside, spent>>

-----------------------------------------------------------------------------
(* endpoints/users.py.                                                     *)

CreateUser(r) ==
  LET u == req[r].on
  IN  /\ Serving(r, "create") /\ ~ Known(r, u)
      /\ \E role \in Roles : Insert(u, Account(role, "ACTIVE"))
      /\ Done(r)
      /\ UNCHANGED <<tokens, referenced, outside, spent>>

(* Columns set to what the snapshot holds are not written.                 *)
UpdateUser(r) ==
  LET u == req[r].on
  IN  /\ Serving(r, "update") /\ Known(r, u)
      /\ \E role \in Roles, status \in Statuses :
           LET old == req[r].users[u]
           IN  IF role = old.role /\ status = old.status
               THEN UNCHANGED <<users, version>>
               ELSE /\ Fresh(r, u)
                    /\ WriteUser(u, [users[u] EXCEPT
                                       !.role = IF role # old.role THEN role ELSE @,
                                       !.status = IF status # old.status THEN status ELSE @])
      /\ Done(r)
      /\ UNCHANGED <<tokens, referenced, outside, spent>>

(* The entry in the access log refers to both accounts.                    *)
ApproveUser(r) ==
  LET u == req[r].on
  IN  /\ Serving(r, "approve") /\ Known(r, u)
      /\ Fresh(r, u) /\ req[r].by \in DOMAIN users
      /\ \E role \in Roles :
           WriteUser(u, [users[u] EXCEPT !.status = "ACTIVE", !.role = role,
                                         !.code = @ \/ role \in AdminRoles])
      /\ referenced' = referenced \cup {u, req[r].by}
      /\ Done(r)
      /\ UNCHANGED <<tokens, outside, spent>>

RegenerateAdminCode(r) ==
  LET u == req[r].on
  IN  /\ Serving(r, "regenerate") /\ Known(r, u) /\ Fresh(r, u)
      /\ WriteUser(u, [users[u] EXCEPT !.code = TRUE])
      /\ Done(r)
      /\ UNCHANGED <<tokens, referenced, outside, spent>>

(* Rows that refer to the account keep it.                                 *)
DeleteUser(r) ==
  LET u == req[r].on
  IN  /\ Serving(r, "delete") /\ Known(r, u) /\ Fresh(r, u) /\ u \notin referenced
      /\ Discard(u)
      /\ Done(r)
      /\ UNCHANGED <<tokens, referenced, outside, spent>>

(* The entry in the access log refers to the administrator.                *)
DenyUser(r) ==
  LET u == req[r].on
  IN  /\ Serving(r, "deny") /\ Known(r, u) /\ Fresh(r, u) /\ u \notin referenced
      /\ req[r].by \in DOMAIN users \ {u}
      /\ Discard(u)
      /\ referenced' = referenced \cup {req[r].by}
      /\ Done(r)
      /\ UNCHANGED <<tokens, outside, spent>>

-----------------------------------------------------------------------------
(* services/credential_service.py.                                         *)

(* issue_credentials sends its messages before it commits.                 *)
SendCredentials(r) ==
  /\ Serving(r, "issue") /\ req[r].link = NoLink /\ req[r].recent < RateLimit
  /\ \E l \in Unissued :
       /\ issued' = issued \cup {l}
       /\ Send(l)
       /\ req' = [req EXCEPT ![r].link = l]
  /\ UNCHANGED <<tables, recent, expired, forms, asked, spent>>

IssueCredentials(r) ==
  LET q == req[r]
  IN  /\ Serving(r, "issue") /\ q.link # NoLink
      /\ tokens' = [l \in DOMAIN tokens \cup {q.link} |->
                      IF l = q.link THEN [name |-> q.on, used |-> FALSE, audit |-> "GENERATED"]
                      ELSE tokens[l]]
      /\ LogActivity(q)
      /\ Done(r)
      /\ UNCHANGED <<users, version, issued, mailed, expired, forms, spent>>

(* The message is sent even if the commit is then refused; one without its *)
(* link is of no consequence.                                              *)
ResendCredentials(r) ==
  LET q == req[r]
  IN  /\ Serving(r, "resend") /\ q.recent < RateLimit
      /\ IF Usable(r, q.link) THEN Send(q.link) ELSE UNCHANGED mailed
      /\ LogActivity(q) \/ UNCHANGED <<recent, referenced>>
      /\ Done(r)
      /\ UNCHANGED <<users, version, tokens, issued, expired, forms, spent>>

(* The portal's page asks whether the link is valid as soon as it loads.   *)
ValidateToken(r) ==
  LET l == req[r].link
  IN  /\ Serving(r, "open") /\ Usable(r, l) /\ FreshToken(r, l)
      /\ tokens' = [tokens EXCEPT ![l].used = TRUE, ![l].audit = "USED"]
      /\ forms' = forms \cup {l}
      /\ Done(r)
      /\ UNCHANGED <<users, version, referenced, recent, issued, mailed, expired, spent>>

-----------------------------------------------------------------------------
(* Time.                                                                   *)

Expire(l) ==
  /\ l \in issued \ expired
  /\ expired' = expired \cup {l}
  /\ UNCHANGED <<tables, recent, issued, mailed, forms, req, asked, spent>>

HourPasses ==
  /\ recent' = [u \in Users |-> 0] /\ recent # recent'
  /\ UNCHANGED <<tables, issued, mailed, expired, forms, req, asked, spent>>

(* A restart forgets the requests; init_db seeds an administrator when     *)
(* there is none, and does not get past a Root that is no longer one.      *)
Restart ==
  /\ \E r \in Requests : req[r] # NoRequest
  /\ IF \E u \in DOMAIN users : users[u].role = "SUPER_ADMIN"
     THEN UNCHANGED <<users, version>>
     ELSE Insert(Root, Account("SUPER_ADMIN", "ACTIVE"))
  /\ req' = [r \in Requests |-> NoRequest]
  /\ UNCHANGED <<tokens, referenced, outside, asked, spent>>

(* A database with the seeded account, and others in any state; a link may *)
(* have been sent to one of them.                                          *)
AccountsInit ==
  /\ \E others \in SUBSET (Users \ {Root}), status \in Statuses, u \in Users,
        sent \in {{}, {CHOOSE l \in Links : TRUE}} :
       /\ sent # {} => u \in others
       /\ users = [x \in others \cup {Root} |->
                     IF x = Root THEN Account("SUPER_ADMIN", "ACTIVE")
                     ELSE Account("OPERATIVE", status)]
       /\ tokens = [l \in sent |-> [name |-> u, used |-> FALSE, audit |-> "GENERATED"]]
       /\ issued = sent /\ mailed = sent
       /\ referenced = IF sent = {} THEN {} ELSE {Root}
  /\ version = [u \in Users |-> 0] /\ recent = [u \in Users |-> 0]
  /\ expired = {} /\ forms = {}
  /\ req = [r \in Requests |-> NoRequest] /\ asked = 0
  /\ spent = [l \in Links |-> 0]

Handle(r) ==
  \/ Register(r) \/ Login(r) \/ AdminLogin(r) \/ ForgotPassword(r) \/ ResetPassword(r)
  \/ ActivateAccount(r) \/ DevBypass(r)
  \/ CreateUser(r) \/ UpdateUser(r) \/ ApproveUser(r)
  \/ RegenerateAdminCode(r) \/ DeleteUser(r) \/ DenyUser(r)
  \/ SendCredentials(r) \/ IssueCredentials(r) \/ ResendCredentials(r)
  \/ ValidateToken(r)

AccountsNext ==
  \/ \E r \in Requests : Begin(r) \/ Handle(r) \/ Refuse(r)
  \/ \E l \in Links : Expire(l)
  \/ HourPasses
  \/ Restart

AccountsSpec == AccountsInit /\ [][AccountsNext]_accountsVars

-----------------------------------------------------------------------------
(* Properties.                                                             *)

(* A one-time link sets a password once, however many requests bring it at *)
(* the same time: each reads it unused, and all but one commit of them is  *)
(* refused (activate_account, reset_password).                             *)
SingleUse == StaleRefused => \A l \in Links : spent[l] <= 1

(* A blocked account becomes active again only through a request that saw  *)
(* it blocked, an administrator's or the dev bypass's: an activation or an *)
(* approval that read the account before it was blocked does not undo it.  *)
BlockHolds ==
  [][StaleRefused =>
     \A u \in DOMAIN users \cap DOMAIN users' :
       users[u].status = "BLOCKED" /\ users'[u].status = "ACTIVE" =>
         \E r \in Requests :
           /\ req[r] # NoRequest /\ req'[r] = NoRequest
           /\ req[r].op \in {"approve", "update", "bypass"}
           /\ req[r].users[u].status = "BLOCKED"]_accountsVars

(* A link for which the portal shows "Activate account" activates it, as   *)
(* long as it has not been used to do so: the page that asked whether the  *)
(* link is valid can still send the new password.                          *)
FormsActivate ==
  \A l \in forms : spent[l] = 0 => ~ tokens[l].used

=============================================================================
