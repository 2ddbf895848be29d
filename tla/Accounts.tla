-------------------------------- MODULE Accounts --------------------------------
(***************************************************************************)
(* User accounts, and the audit trail of their access levels, under        *)
(* overlapping administrators' requests.                                   *)
(*                                                                         *)
(* A request is a READ COMMITTED transaction in three statements' worth of *)
(* steps: the guard reads the caller's account, the service reads the      *)
(* account it is about (and looks for the email it would take), and the    *)
(* flush writes what differs from that reading, with the audit event, and  *)
(* commits.  The ORM writes changed columns only.                          *)
(*                                                                         *)
(* Names, passwords, tokens and login times are left out.  `logged' is the *)
(* audit log as a reader folds it: what the last events about a user say   *)
(* of its access levels and of its activation.                             *)
(***************************************************************************)
EXTENDS Naturals

CONSTANTS
    Ids,            \* ids; a deleted one is never given out again
    Emails,
    Levels,         \* the members of UserRole that matter
    Admin,          \* UserRole.ADMIN
    Requests,       \* connections, each serving one request at a time
    Bodies,         \* the bodies of create and update requests, some of Changes
    InUse,          \* users a row of another module refers to with ON DELETE RESTRICT
    Keep,           \* a field the body leaves out
    NoActor,        \* the command line: nobody is signed in
    NoAccount       \* no account under this id: not yet, or not any more

VARIABLES
    account,        \* users: the row of an id, or NoAccount
    spent,          \* ids that have had an account
    logged,         \* audit_events, folded per user
    request,        \* what a connection is serving
    phase,          \* how far it is: "idle", "admitted" or "read"
    seen            \* the row its service has read

rows == <<account, spent, logged>>
avars == <<rows, request, phase, seen>>

-----------------------------------------------------------------------------
Account == [email : Emails, roles : SUBSET Levels, active : BOOLEAN]
Changes == [email : {Keep} \cup Emails, roles : {Keep} \cup SUBSET Levels,
            active : {Keep} \cup BOOLEAN]
Fields  == {"email", "roles", "active"}
Access  == [roles : SUBSET Levels, active : BOOLEAN]
\* A create request names the email and the levels; an account is made active.
Creates(change) == change.email # Keep /\ change.roles # Keep /\ change.active = Keep

Request == [actor : Ids \cup {NoActor}, op : {"create", "update", "delete"},
            user : Ids, change : Changes]

ASSUME AccountsAssumption ==
    /\ Admin \in Levels
    /\ Bodies \subseteq Changes
    /\ InUse \subseteq Ids
    /\ NoActor \notin Ids
    /\ NoAccount \notin Account
    /\ NoAccount \notin Access
    /\ Keep \notin Emails
    /\ \A roles \in SUBSET Levels : Keep # roles
    /\ Keep # TRUE /\ Keep # FALSE

AccountTypes ==
    /\ account \in [Ids -> {NoAccount} \cup Account]
    /\ spent \subseteq Ids
    /\ logged \in [Ids -> {NoAccount} \cup Access]
    /\ phase \in [Requests -> {"idle", "admitted", "read"}]
    /\ request \in [Requests -> {NoAccount} \cup Request]
    /\ seen \in [Requests -> {NoAccount} \cup Account]
    /\ \A r \in Requests : phase[r] # "idle" =>
           /\ request[r] \in Request
           /\ request[r].op = "create" => Creates(request[r].change)
    /\ \A r \in Requests :
           phase[r] = "read" /\ request[r].op = "update" => seen[r] \in Account

Live(u) == account[u] # NoAccount

IsAdmin(u) == Live(u) /\ account[u].active /\ Admin \in account[u].roles

AccessOf(row) == [roles |-> row.roles, active |-> row.active]

\* create-admin has made the first administrators; their creation is logged.
InitAccounts ==
    /\ account \in [Ids -> {NoAccount} \cup Account]
    /\ \E u \in Ids : Live(u)
    /\ \A u \in Ids : Live(u) => account[u].active /\ Admin \in account[u].roles
    /\ \A u, v \in Ids :
           Live(u) /\ Live(v) /\ account[u].email = account[v].email => u = v
    /\ spent = {u \in Ids : Live(u)}
    /\ logged = [u \in Ids |-> IF Live(u) THEN AccessOf(account[u]) ELSE NoAccount]
    /\ phase = [r \in Requests |-> "idle"]
    /\ request = [r \in Requests |-> NoAccount]
    /\ seen = [r \in Requests |-> NoAccount]

-----------------------------------------------------------------------------
Taken(email, but) == \E u \in Ids \ {but} : Live(u) /\ account[u].email = email

\* The guard reads the caller's row on every request: active, and an administrator.
Admitted(q) == q.actor # NoActor => IsAdmin(q.actor)

\* Mutant of SelfModification: only the levels are looked at.
SelfModification_LevelOnly(q, row) ==
    /\ q.user = q.actor
    /\ q.change.roles # Keep /\ Admin \in row.roles /\ Admin \notin q.change.roles

\* Users may not deactivate themselves, or drop their own administrator level.
SelfModification(q, row) ==
    /\ q.user = q.actor
    /\ \/ q.change.active = FALSE
       \/ q.change.roles # Keep /\ Admin \in row.roles /\ Admin \notin q.change.roles

\* Mutant of Changed: every field of the form is written, as a PUT would.
Changed_Everything(q, row) ==
    [f \in Fields |->
        IF q.change[f] = Keep THEN row[f] ELSE q.change[f]]

\* The columns the flush writes: those given that differ from the row as read.
Changed(q, row) ==
    [f \in Fields |->
        IF q.change[f] = row[f] THEN Keep ELSE q.change[f]]

Written(row, change) ==
    [email  |-> IF change.email = Keep THEN row.email ELSE change.email,
     roles  |-> IF change.roles = Keep THEN row.roles ELSE change.roles,
     active |-> IF change.active = Keep THEN row.active ELSE change.active]

\* Mutant of Recorded: one event a request, that of the access levels first.
Recorded_FirstOnly(entry, change) ==
    [roles  |-> IF change.roles = Keep THEN entry.roles ELSE change.roles,
     active |-> IF change.active = Keep \/ change.roles # Keep
                THEN entry.active ELSE change.active]

\* USER_ROLES_CHANGED if the levels changed, USER_ACTIVATED or _DEACTIVATED if the
\* activation did.
Recorded(entry, change) ==
    [roles  |-> IF change.roles = Keep THEN entry.roles ELSE change.roles,
     active |-> IF change.active = Keep THEN entry.active ELSE change.active]

-----------------------------------------------------------------------------
\* The transaction ends and its session is closed.
Idle(r) ==
    /\ phase' = [phase EXCEPT ![r] = "idle"]
    /\ request' = [request EXCEPT ![r] = NoAccount]
    /\ seen' = [seen EXCEPT ![r] = NoAccount]

\* Request and guard: the caller must still be an active administrator.
Arrive(r) ==
    /\ phase[r] = "idle"
    /\ \E actor \in Ids \cup {NoActor}, op \in {"create", "update", "delete"},
          u \in Ids, change \in Bodies :
           LET q == [actor |-> actor, op |-> op, user |-> u, change |-> change]
           IN  /\ Admitted(q)
               /\ op = "create" => u \notin spent /\ Creates(change)
               /\ op # "create" => actor # NoActor
               /\ op = "delete" => \A f \in Fields : change[f] = Keep
               /\ request' = [request EXCEPT ![r] = q]
    /\ phase' = [phase EXCEPT ![r] = "admitted"]
    /\ UNCHANGED <<rows, seen>>

\* The service reads the account and looks for the email the request would take.
Read(r) ==
    LET q == request[r] IN
    /\ phase[r] = "admitted"
    /\ q.op = "create" => ~ Taken(q.change.email, q.user)
    /\ q.op = "update" =>
           /\ Live(q.user)
           /\ ~ SelfModification(q, account[q.user])
           /\ q.change.email \notin {Keep, account[q.user].email} =>
                  ~ Taken(q.change.email, q.user)
    /\ q.op = "delete" => Live(q.user) /\ q.user # q.actor
    /\ seen' = [seen EXCEPT ![r] = account[q.user]]
    /\ phase' = [phase EXCEPT ![r] = "read"]
    /\ UNCHANGED <<rows, request>>

\* The row that records the event refers to its actor.
ActorStands(q) == q.actor # NoActor => Live(q.actor)

\* Mutant of Create: no unique index behind the look at the emails.
Create_NoIndex(r) ==
    LET q == request[r] IN
    /\ phase[r] = "read"
    /\ q.op = "create"
    /\ q.user \notin spent
    /\ ActorStands(q)
    /\ LET row == [email |-> q.change.email, roles |-> q.change.roles, active |-> TRUE]
       IN  /\ account' = [account EXCEPT ![q.user] = row]
           /\ logged' = [logged EXCEPT ![q.user] = AccessOf(row)]
    /\ spent' = spent \cup {q.user}
    /\ Idle(r)

\* CreateUser: the unique index on the email decides, whatever was read.
Create(r) ==
    LET q == request[r] IN
    /\ phase[r] = "read"
    /\ q.op = "create"
    /\ q.user \notin spent
    /\ ~ Taken(q.change.email, q.user)
    /\ ActorStands(q)
    /\ LET row == [email |-> q.change.email, roles |-> q.change.roles, active |-> TRUE]
       IN  /\ account' = [account EXCEPT ![q.user] = row]
           /\ logged' = [logged EXCEPT ![q.user] = AccessOf(row)]
    /\ spent' = spent \cup {q.user}
    /\ Idle(r)

\* UpdateUser: changed columns only, and an event for each change the log keeps.
Update(r) ==
    LET q == request[r]
        change == Changed(q, seen[r])
    IN
    /\ phase[r] = "read"
    /\ q.op = "update"
    /\ Live(q.user)
    /\ change.email # Keep => ~ Taken(change.email, q.user)
    /\ change.roles # Keep \/ change.active # Keep => ActorStands(q)
    /\ account' = [account EXCEPT ![q.user] = Written(@, change)]
    /\ logged' = [logged EXCEPT ![q.user] = Recorded(@, change)]
    /\ Idle(r)
    /\ UNCHANGED spent

\* DeleteUser, run by the admin module: the foreign keys decide.
Delete(r) ==
    LET q == request[r] IN
    /\ phase[r] = "read"
    /\ q.op = "delete"
    /\ Live(q.user)
    /\ q.user \notin InUse
    /\ ActorStands(q)
    /\ account' = [account EXCEPT ![q.user] = NoAccount]
    /\ logged' = [logged EXCEPT ![q.user] = NoAccount]
    /\ Idle(r)
    /\ UNCHANGED spent

\* A domain error, a constraint, a row gone by the time it is written, or the
\* client's hanging up: the transaction rolls back.
RollBack(r) ==
    /\ phase[r] # "idle"
    /\ Idle(r)
    /\ UNCHANGED rows

NextAccounts == \E r \in Requests :
    Arrive(r) \/ Read(r) \/ Create(r) \/ Update(r) \/ Delete(r) \/ RollBack(r)

SpecAccounts == InitAccounts /\ [][NextAccounts]_avars

-----------------------------------------------------------------------------
(* Properties *)

\* users/handlers.py:104-137, audit/models.py: the log, read from its last events,
\* tells the access levels and the activation every account has now, however the
\* requests that changed them overlapped.
AuditTellsTheState ==
    \A u \in Ids : logged[u] = IF Live(u) THEN AccessOf(account[u]) ELSE NoAccount

\* users/contracts.py:110: "fields left as None are not changed".  A request that
\* read an account before another changed it never puts a field back it does not
\* name: an account deactivated meanwhile stays deactivated.
OtherFieldsStay ==
    [][\A u \in Ids : account[u] # NoAccount /\ account'[u] # NoAccount =>
          \A f \in Fields : account'[u][f] # account[u][f] =>
              \E r \in Requests : /\ phase[r] = "read"
                                  /\ phase'[r] = "idle"
                                  /\ request[r].user = u
                                  /\ request[r].change[f] # Keep]_avars

\* users/models.py:30: no two accounts share an email, though two requests may both
\* find it free.
EmailsUnique ==
    \A u, v \in Ids : Live(u) /\ Live(v) /\ account[u].email = account[v].email => u = v

\* users/service.py:60-66: the check on one's own account keeps an administrator who
\* acts alone in the application.  The last one goes only by a request that was
\* overtaken: its actor had been revoked or deleted, by another, since it was admitted.
Overtaken(r) ==
    LET q == request[r] IN
    ~ IsAdmin(q.actor) \/ (q.user = q.actor /\ Admin \notin seen[r].roles)

LastAdminOvertaken ==
    [][(\E u \in Ids : IsAdmin(u)) /\ ~ (\E u \in Ids : IsAdmin(u))' =>
          \E r \in Requests : phase[r] = "read" /\ phase'[r] = "idle" /\ Overtaken(r)]_avars
=============================================================================
