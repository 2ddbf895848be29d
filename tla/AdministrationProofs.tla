-------------------------- MODULE AdministrationProofs --------------------------
(* What stays true however users, customers, projects and items are removed    *)
(* (Administration), and what overlapping requests cannot do to an account or  *)
(* to the audit log (Accounts), for any number of them.                        *)
EXTENDS Accounts, Administration, FiniteSetTheorems, TLAPS

-----------------------------------------------------------------------------
(* Accounts *)

\* A step of the users module is a request that goes on, or a stutter.
LEMMA StepCases ==
    ASSUME [NextAccounts]_avars
    PROVE  \/ \E r \in Requests :
                Arrive(r) \/ Read(r) \/ Create(r) \/ Update(r) \/ Delete(r) \/ RollBack(r)
           \/ UNCHANGED avars
  BY DEF NextAccounts

-----------------------------------------------------------------------------
(* Records *)

\* What the flush writes of a row read is again a change, and names no field the
\* body leaves out.
LEMMA ChangedIsChange ==
    ASSUME NEW q \in Request, NEW row \in Account
    PROVE  /\ Changed(q, row).email \in {Keep} \cup Emails
           /\ Changed(q, row).roles \in {Keep} \cup SUBSET Levels
           /\ Changed(q, row).active \in {Keep} \cup BOOLEAN
           /\ \A f \in Fields : q.change[f] = Keep => Changed(q, row)[f] = Keep
<1>1. /\ q.change.email \in {Keep} \cup Emails
      /\ q.change.roles \in {Keep} \cup SUBSET Levels
      /\ q.change.active \in {Keep} \cup BOOLEAN
  BY DEF Request, Changes
<1>2. \A f \in Fields : Changed(q, row)[f] = IF q.change[f] = row[f] THEN Keep ELSE q.change[f]
  BY DEF Changed, Fields
<1>3. "email" \in Fields /\ "roles" \in Fields /\ "active" \in Fields
  BY DEF Fields
<1>4. Changed(q, row).email = IF q.change.email = row.email THEN Keep ELSE q.change.email
  BY <1>2, <1>3
<1>5. Changed(q, row).roles = IF q.change.roles = row.roles THEN Keep ELSE q.change.roles
  BY <1>2, <1>3
<1>6. Changed(q, row).active = IF q.change.active = row.active THEN Keep ELSE q.change.active
  BY <1>2, <1>3
<1>7. \A f \in Fields : q.change[f] = Keep => Changed(q, row)[f] = Keep
  BY <1>2
<1>8. Changed(q, row).email \in {Keep} \cup Emails
  BY <1>1, <1>4
<1>9. Changed(q, row).roles \in {Keep} \cup SUBSET Levels
  BY <1>1, <1>5
<1>10. Changed(q, row).active \in {Keep} \cup BOOLEAN
  BY <1>1, <1>6
<1> QED BY <1>7, <1>8, <1>9, <1>10

\* A row with a well-formed change written over it is a row.
LEMMA WrittenIsRow ==
    ASSUME NEW row \in Account, NEW change,
           change.email \in {Keep} \cup Emails,
           change.roles \in {Keep} \cup SUBSET Levels,
           change.active \in {Keep} \cup BOOLEAN
    PROVE  Written(row, change) \in Account
<1>1. row.email \in Emails /\ row.roles \in SUBSET Levels /\ row.active \in BOOLEAN
  BY DEF Account
<1>2. (IF change.email = Keep THEN row.email ELSE change.email) \in Emails
  BY <1>1
<1>3. (IF change.roles = Keep THEN row.roles ELSE change.roles) \in SUBSET Levels
  BY <1>1
<1>4. (IF change.active = Keep THEN row.active ELSE change.active) \in BOOLEAN
  BY <1>1
<1> QED BY <1>2, <1>3, <1>4 DEF Written, Account

\* What an event adds to the log of a user is an access again.
LEMMA RecordedIsAccess ==
    ASSUME NEW told \in Access, NEW change,
           change.roles \in {Keep} \cup SUBSET Levels,
           change.active \in {Keep} \cup BOOLEAN
    PROVE  Recorded(told, change) \in Access
<1>1. told.roles \in SUBSET Levels /\ told.active \in BOOLEAN
  BY DEF Access
<1>2. (IF change.roles = Keep THEN told.roles ELSE change.roles) \in SUBSET Levels
  BY <1>1
<1>3. (IF change.active = Keep THEN told.active ELSE change.active) \in BOOLEAN
  BY <1>1
<1> QED BY <1>2, <1>3 DEF Recorded, Access

\* The event tells the change the flush makes: folding it into the log and writing
\* the row commute.
LEMMA LogFollowsRow ==
    ASSUME NEW row, NEW change
    PROVE  Recorded(AccessOf(row), change) = AccessOf(Written(row, change))
  BY DEF Recorded, AccessOf, Written

\* A row says what its user may do.
LEMMA AccessOfIsAccess == ASSUME NEW row \in Account PROVE AccessOf(row) \in Access
  BY DEF AccessOf, Access, Account

-----------------------------------------------------------------------------
(* The inductive invariant: types, and the log that tells the state *)
IInv == AccountTypes /\ AuditTellsTheState

\* It holds of the first administrator alone.
LEMMA IInvInit == InitAccounts => IInv
<1> SUFFICES ASSUME InitAccounts PROVE IInv
  OBVIOUS
<1> USE AccountsAssumption DEF AccountsAssumption
<1>1. \A u \in Ids : logged[u] \in {NoAccount} \cup Access
  <2> SUFFICES ASSUME NEW u \in Ids PROVE logged[u] \in {NoAccount} \cup Access
    OBVIOUS
  <2>1. CASE Live(u)
    BY <2>1, AccessOfIsAccess DEF InitAccounts, Live
  <2>2. CASE ~ Live(u)
    BY <2>2 DEF InitAccounts
  <2> QED BY <2>1, <2>2
<1>2. logged \in [Ids -> {NoAccount} \cup Access]
  BY <1>1 DEF InitAccounts
<1>3. AccountTypes
  BY <1>2 DEF InitAccounts, AccountTypes
<1>4. AuditTellsTheState
  BY DEF InitAccounts, AuditTellsTheState
<1> QED BY <1>3, <1>4 DEF IInv

\* What the ways of ending a request have in common.
LEMMA IdleTypes ==
    ASSUME AccountTypes, NEW r \in Requests, Idle(r)
    PROVE  /\ phase' \in [Requests -> {"idle", "admitted", "read"}]
           /\ request' \in [Requests -> {NoAccount} \cup Request]
           /\ seen' \in [Requests -> {NoAccount} \cup Account]
           /\ \A q \in Requests : phase'[q] # "idle" =>
                  /\ request'[q] \in Request
                  /\ request'[q].op = "create" => Creates(request'[q].change)
           /\ \A q \in Requests :
                  phase'[q] = "read" /\ request'[q].op = "update" => seen'[q] \in Account
<1>1. \A q \in Requests : phase'[q] # "idle" =>
          phase'[q] = phase[q] /\ request'[q] = request[q] /\ seen'[q] = seen[q]
  BY DEF Idle, AccountTypes
<1> QED BY <1>1 DEF AccountTypes, Idle

\* A creation writes the row and its event in one commit.
LEMMA CreateKeepsIInv ==
    ASSUME IInv, NEW r \in Requests, Create(r)
    PROVE  IInv'
<1> DEFINE q == request[r]
           row == [email |-> q.change.email, roles |-> q.change.roles, active |-> TRUE]
<1>1. q \in Request /\ Creates(q.change)
  BY DEF IInv, AccountTypes, Create
<1>2. /\ q.user \in Ids
      /\ account' = [account EXCEPT ![q.user] = row]
      /\ logged' = [logged EXCEPT ![q.user] = AccessOf(row)]
      /\ spent' = spent \cup {q.user}
      /\ Idle(r)
  BY <1>1 DEF Create, Request
<1>3. row \in Account
  BY <1>1 DEF Request, Changes, Account, Creates
<1>4. AccessOf(row) \in Access
  BY <1>3, AccessOfIsAccess
<1> HIDE DEF row, q
<1>5. AccountTypes'
  BY <1>2, <1>3, <1>4, IdleTypes DEF IInv, AccountTypes
<1>6. AuditTellsTheState'
  BY <1>2, <1>3, AccountsAssumption DEF IInv, AccountTypes, AuditTellsTheState, Live, AccountsAssumption
<1> QED BY <1>5, <1>6 DEF IInv

\* An update writes only what it names, and its event names what it wrote.
LEMMA UpdateKeepsIInv ==
    ASSUME IInv, NEW r \in Requests, Update(r)
    PROVE  IInv'
<1> DEFINE q == request[r]
           change == Changed(q, seen[r])
           row == Written(account[q.user], change)
<1>1. q \in Request /\ seen[r] \in Account
  BY DEF IInv, AccountTypes, Update
<1>2. /\ q.user \in Ids
      /\ account[q.user] # NoAccount
      /\ account' = [account EXCEPT ![q.user] = row]
      /\ logged' = [logged EXCEPT ![q.user] = Recorded(logged[q.user], change)]
      /\ UNCHANGED spent
      /\ Idle(r)
  BY <1>1 DEF Update, Request, IInv, AccountTypes, Live
<1>3. /\ change.email \in {Keep} \cup Emails
      /\ change.roles \in {Keep} \cup SUBSET Levels
      /\ change.active \in {Keep} \cup BOOLEAN
  BY <1>1, ChangedIsChange
<1>4. account[q.user] \in Account
  BY <1>2 DEF IInv, AccountTypes
<1> HIDE DEF change, q
<1>5. row \in Account
  BY <1>3, <1>4, WrittenIsRow
<1>6. logged[q.user] = AccessOf(account[q.user])
  BY <1>2 DEF IInv, AuditTellsTheState, Live
<1>7. Recorded(logged[q.user], change) = AccessOf(row)
  BY <1>6, LogFollowsRow
<1>8. AccessOf(row) \in Access
  BY <1>5, AccessOfIsAccess
<1> HIDE DEF row
<1>9. AccountTypes'
  BY <1>2, <1>5, <1>7, <1>8, IdleTypes DEF IInv, AccountTypes
<1>10. AuditTellsTheState'
  BY <1>2, <1>5, <1>7, AccountsAssumption
     DEF IInv, AccountTypes, AuditTellsTheState, Live, AccountsAssumption
<1> QED BY <1>9, <1>10 DEF IInv

\* A deletion ends the row and what is told of it together.
LEMMA DeleteKeepsIInv ==
    ASSUME IInv, NEW r \in Requests, Delete(r)
    PROVE  IInv'
<1> DEFINE u == request[r].user
<1>1. request[r] \in Request
  BY DEF IInv, AccountTypes, Delete
<1>2. /\ u \in Ids
      /\ account' = [account EXCEPT ![u] = NoAccount]
      /\ logged' = [logged EXCEPT ![u] = NoAccount]
      /\ UNCHANGED spent
      /\ Idle(r)
  BY <1>1 DEF Delete, Request
<1> HIDE DEF u
<1>3. AccountTypes'
  BY <1>2, IdleTypes DEF IInv, AccountTypes
<1>4. AuditTellsTheState'
  BY <1>2 DEF IInv, AccountTypes, AuditTellsTheState, Live
<1> QED BY <1>3, <1>4 DEF IInv

\* Nothing is written by a request that arrives, reads or rolls back.
LEMMA OthersKeepIInv ==
    ASSUME IInv, NEW r \in Requests, Arrive(r) \/ Read(r) \/ RollBack(r)
    PROVE  IInv'
<1>1. UNCHANGED rows
  BY DEF Arrive, Read, RollBack
<1>2. AuditTellsTheState'
  BY <1>1 DEF IInv, AuditTellsTheState, Live, rows
<1>3. CASE Arrive(r)
  <2>1. PICK q : /\ q \in Request
                 /\ q.op = "create" => Creates(q.change)
                 /\ request' = [request EXCEPT ![r] = q]
    BY <1>3, AccountsAssumption DEF Arrive, Request, AccountsAssumption
  <2>2. /\ phase' = [phase EXCEPT ![r] = "admitted"]
        /\ seen' = seen
    BY <1>3 DEF Arrive
  <2>3. AccountTypes'
    BY <2>1, <2>2, <1>1 DEF IInv, AccountTypes, rows
  <2> QED BY <1>2, <2>3 DEF IInv
<1>4. CASE Read(r)
  <2> DEFINE q == request[r]
  <2>1. /\ q \in Request
        /\ phase[r] = "admitted"
        /\ q.op = "create" => Creates(q.change)
        /\ phase' = [phase EXCEPT ![r] = "read"]
        /\ seen' = [seen EXCEPT ![r] = account[q.user]]
        /\ request' = request
        /\ q.op = "update" => account[q.user] # NoAccount
    BY <1>4 DEF Read, IInv, AccountTypes, Live
  <2>2. account[q.user] \in {NoAccount} \cup Account
    BY <2>1 DEF IInv, AccountTypes, Request
  <2>3. AccountTypes'
    BY <2>1, <2>2, <1>1 DEF IInv, AccountTypes, rows
  <2> QED BY <1>2, <2>3 DEF IInv
<1>5. CASE RollBack(r)
  <2>1. AccountTypes'
    BY <1>5, <1>1, IdleTypes DEF RollBack, IInv, AccountTypes, rows
  <2> QED BY <1>2, <2>1 DEF IInv
<1> QED BY <1>3, <1>4, <1>5

\* Every step of a request keeps it.
LEMMA IInvStep == IInv /\ [NextAccounts]_avars => IInv'
<1> SUFFICES ASSUME IInv, [NextAccounts]_avars PROVE IInv'
  OBVIOUS
<1>1. CASE UNCHANGED avars
  BY <1>1 DEF IInv, AccountTypes, AuditTellsTheState, Live, avars, rows
<1>2. ASSUME NEW r \in Requests,
             Arrive(r) \/ Read(r) \/ Create(r) \/ Update(r) \/ Delete(r) \/ RollBack(r)
      PROVE  IInv'
  BY <1>2, CreateKeepsIInv, UpdateKeepsIInv, DeleteKeepsIInv, OthersKeepIInv
<1> QED BY <1>1, <1>2, StepCases

\* So it holds always.
LEMMA IInvAlways == SpecAccounts => []IInv
  BY IInvInit, IInvStep, PTL DEF SpecAccounts

\* An id is spent when it is given an account, and stays so.
IdsSpent == \A u \in Ids : Live(u) => u \in spent

\* No account ever has an id that is free to be given out.
LEMMA IdsStaySpent == SpecAccounts => []IdsSpent
<1>1. InitAccounts => IdsSpent
  BY DEF InitAccounts, IdsSpent
<1>2. IInv /\ IdsSpent /\ [NextAccounts]_avars => IdsSpent'
  <2> SUFFICES ASSUME IInv, IdsSpent, [NextAccounts]_avars PROVE IdsSpent'
    OBVIOUS
  <2> USE DEF IInv, AccountTypes, IdsSpent, Live
  <2>1. ASSUME NEW r \in Requests, Arrive(r) \/ Read(r) \/ RollBack(r) PROVE IdsSpent'
    BY <2>1 DEF Arrive, Read, RollBack, rows
  <2>2. ASSUME NEW r \in Requests, Create(r) PROVE IdsSpent'
    <3>1. \A u \in Ids : u # request[r].user => account'[u] = account[u]
      BY <2>2 DEF Create
    <3> QED BY <2>2, <3>1 DEF Create
  <2>3. ASSUME NEW r \in Requests, Update(r) PROVE IdsSpent'
    BY <2>3 DEF Update
  <2>4. ASSUME NEW r \in Requests, Delete(r) PROVE IdsSpent'
    BY <2>4 DEF Delete
  <2>5. CASE UNCHANGED avars
    BY <2>5 DEF avars, rows
  <2> QED BY <2>1, <2>2, <2>3, <2>4, <2>5, StepCases
<1> QED BY <1>1, <1>2, IInvAlways, PTL DEF SpecAccounts

-----------------------------------------------------------------------------
(* Theorems *)

\* The rows and the requests in flight have their types, for any accounts, bodies
\* and number of requests.
THEOREM AccountsAreTyped == SpecAccounts => []AccountTypes
<1>1. IInv => AccountTypes
  BY DEF IInv
<1> QED BY <1>1, IInvAlways, PTL

\* However many requests overlap, the audit log tells the access levels and the
\* activation each account has.
THEOREM AuditTells == SpecAccounts => []AuditTellsTheState
<1>1. IInv => AuditTellsTheState
  BY DEF IInv
<1> QED BY <1>1, IInvAlways, PTL

\* The step property below is that of one request's flush.
LEMMA UpdateTouchesNamed ==
    ASSUME IInv, NEW r \in Requests, Update(r), NEW f \in Fields, NEW u \in Ids,
           account[u] # NoAccount, account'[u][f] # account[u][f]
    PROVE  /\ phase[r] = "read"
           /\ phase'[r] = "idle"
           /\ request[r].user = u
           /\ request[r].change[f] # Keep
<1> DEFINE q == request[r]
           change == Changed(q, seen[r])
<1>1. q \in Request /\ seen[r] \in Account
  BY DEF IInv, AccountTypes, Update
<1>2. q.user \in Ids /\ account' = [account EXCEPT ![q.user] = Written(account[q.user], change)]
  BY <1>1 DEF Update, Request, IInv, AccountTypes
<1>3. phase[r] = "read" /\ phase'[r] = "idle"
  BY DEF Update, Idle, IInv, AccountTypes
<1>4. q.user = u
  BY <1>2 DEF IInv, AccountTypes
<1>5. account'[u] = Written(account[u], change)
  BY <1>2, <1>4 DEF IInv, AccountTypes
<1>6. account[u] \in Account
  BY DEF IInv, AccountTypes
<1>7. change[f] = Keep => Written(account[u], change)[f] = account[u][f]
  BY <1>6 DEF Written, Fields, Account
<1>8. q.change[f] # Keep
  BY <1>1, <1>5, <1>7, ChangedIsChange
<1> QED BY <1>3, <1>4, <1>8

\* A request changes only the fields its body names, whatever it had read: no
\* request undoes what another has done meanwhile to the rest of the row.
THEOREM UnnamedFieldsStay == SpecAccounts => OtherFieldsStay
<1> DEFINE Step == \A u \in Ids : account[u] # NoAccount /\ account'[u] # NoAccount =>
          \A f \in Fields : account'[u][f] # account[u][f] =>
              \E r \in Requests : /\ phase[r] = "read"
                                  /\ phase'[r] = "idle"
                                  /\ request[r].user = u
                                  /\ request[r].change[f] # Keep
<1>1. IInv /\ IdsSpent /\ [NextAccounts]_avars => [Step]_avars
  <2> SUFFICES ASSUME IInv, IdsSpent, [NextAccounts]_avars, NEW u \in Ids, account[u] # NoAccount,
                      account'[u] # NoAccount, NEW f \in Fields,
                      account'[u][f] # account[u][f]
               PROVE  \E r \in Requests : /\ phase[r] = "read"
                                          /\ phase'[r] = "idle"
                                          /\ request[r].user = u
                                          /\ request[r].change[f] # Keep
    OBVIOUS
  <2>1. CASE UNCHANGED avars
    BY <2>1 DEF avars, rows
  <2>2. ASSUME NEW r \in Requests, Arrive(r) \/ Read(r) \/ RollBack(r)
        PROVE  FALSE
    BY <2>2 DEF Arrive, Read, RollBack, rows
  <2>3. ASSUME NEW r \in Requests, Create(r)
        PROVE  FALSE
    <3>1. request[r] \in Request
      BY <2>3 DEF IInv, AccountTypes, Create
    <3>2. request[r].user # u => account'[u] = account[u]
      BY <2>3, <3>1 DEF Create, Request, IInv, AccountTypes
    <3> QED BY <2>3, <3>2 DEF Create, IdsSpent, Live
  <2>4. ASSUME NEW r \in Requests, Delete(r)
        PROVE  FALSE
    BY <2>4 DEF Delete, IInv, AccountTypes
  <2>5. ASSUME NEW r \in Requests, Update(r)
        PROVE  \E s \in Requests : /\ phase[s] = "read"
                                   /\ phase'[s] = "idle"
                                   /\ request[s].user = u
                                   /\ request[s].change[f] # Keep
    BY <2>5, UpdateTouchesNamed
  <2> QED BY <2>1, <2>2, <2>3, <2>4, <2>5, StepCases
<1> QED BY <1>1, IInvAlways, IdsStaySpent, PTL DEF SpecAccounts, OtherFieldsStay

\* No interleaving of look and write gives one email to two accounts.
THEOREM EmailsStayUnique == SpecAccounts => []EmailsUnique
<1>1. InitAccounts => EmailsUnique
  BY DEF InitAccounts, EmailsUnique
<1>2. IInv /\ EmailsUnique /\ [NextAccounts]_avars => EmailsUnique'
  <2> SUFFICES ASSUME IInv, EmailsUnique, [NextAccounts]_avars PROVE EmailsUnique'
    OBVIOUS
  <2> USE DEF IInv, AccountTypes, EmailsUnique, Live
  <2>1. ASSUME NEW r \in Requests, Arrive(r) \/ Read(r) \/ RollBack(r) PROVE EmailsUnique'
    BY <2>1 DEF Arrive, Read, RollBack, rows
  <2>2. ASSUME NEW r \in Requests, Create(r) PROVE EmailsUnique'
    <3> DEFINE q == request[r]
    <3>1. q \in Request
      BY <2>2 DEF Create
    <3>2. /\ q.user \in Ids
          /\ \A u \in Ids : u # q.user => account'[u] = account[u]
          /\ account'[q.user].email = q.change.email
          /\ \A u \in Ids \ {q.user} : account[u] # NoAccount => account[u].email # q.change.email
      BY <2>2, <3>1 DEF Create, Request, Taken
    <3> QED BY <3>2
  <2>3. ASSUME NEW r \in Requests, Update(r) PROVE EmailsUnique'
    <3> DEFINE q == request[r]
               change == Changed(q, seen[r])
    <3>1. q \in Request
      BY <2>3 DEF Update
    <3>2. /\ q.user \in Ids
          /\ account[q.user] # NoAccount
          /\ \A u \in Ids : u # q.user => account'[u] = account[u]
          /\ account'[q.user] = Written(account[q.user], change)
          /\ change.email # Keep => ~ Taken(change.email, q.user)
      BY <2>3, <3>1 DEF Update, Request
    <3>3. account'[q.user].email = IF change.email = Keep THEN account[q.user].email ELSE change.email
      BY <3>2 DEF Written
    <3> HIDE DEF change, q
    <3>4. CASE change.email = Keep
      BY <3>2, <3>3, <3>4
    <3>5. CASE change.email # Keep
      BY <3>2, <3>3, <3>5 DEF Taken
    <3> QED BY <3>4, <3>5
  <2>4. ASSUME NEW r \in Requests, Delete(r) PROVE EmailsUnique'
    <3>1. \A u \in Ids : account'[u] = account[u] \/ account'[u] = NoAccount
      BY <2>4 DEF Delete
    <3> QED BY <3>1
  <2>5. CASE UNCHANGED avars
    BY <2>5 DEF avars, rows
  <2> QED BY <2>1, <2>2, <2>3, <2>4, <2>5, StepCases
<1> QED BY <1>1, <1>2, IInvAlways, PTL DEF SpecAccounts

-----------------------------------------------------------------------------
(* The last administrator *)

\* What a request has read still allows it to be about its own actor.
SelfChecked ==
    /\ \A r \in Requests : phase[r] = "read" =>
           /\ request[r].op = "update" => ~ SelfModification(request[r], seen[r])
           /\ request[r].op = "delete" => request[r].user # request[r].actor
    /\ \A r \in Requests :
           phase[r] # "idle" /\ request[r].op # "create" => request[r].actor # NoActor

\* A request that got past the check of its service was not about its own caller.
LEMMA SelfCheckedAlways == SpecAccounts => []SelfChecked
<1>1. InitAccounts => SelfChecked
  BY DEF InitAccounts, SelfChecked
<1>2. IInv /\ SelfChecked /\ [NextAccounts]_avars => SelfChecked'
  <2> SUFFICES ASSUME IInv, SelfChecked, [NextAccounts]_avars PROVE SelfChecked'
    OBVIOUS
  <2> USE DEF IInv, AccountTypes
  <2>1. ASSUME NEW r \in Requests, Arrive(r) PROVE SelfChecked'
    <3>1. \A q \in Requests : phase'[q] = "read" =>
             phase[q] = "read" /\ request'[q] = request[q] /\ seen'[q] = seen[q]
      BY <2>1 DEF Arrive
    <3>2. \A q \in Requests : q # r => phase'[q] = phase[q] /\ request'[q] = request[q]
      BY <2>1 DEF Arrive
    <3>3. request'[r].op # "create" => request'[r].actor # NoActor
      BY <2>1 DEF Arrive
    <3> QED BY <3>1, <3>2, <3>3 DEF SelfChecked, SelfModification
  <2>2. ASSUME NEW r \in Requests, Read(r) PROVE SelfChecked'
    <3>1. /\ request' = request
          /\ \A q \in Requests : phase'[q] = "read" =>
                q = r \/ (phase[q] = "read" /\ seen'[q] = seen[q])
          /\ seen'[r] = account[request[r].user]
          /\ \A q \in Requests : phase'[q] # "idle" => phase[q] # "idle"
      BY <2>2 DEF Read
    <3>2. /\ request[r].op = "update" => ~ SelfModification(request[r], account[request[r].user])
          /\ request[r].op = "delete" => request[r].user # request[r].actor
      BY <2>2 DEF Read
    <3> QED BY <3>1, <3>2 DEF SelfChecked, SelfModification
  <2>3. ASSUME NEW r \in Requests, Idle(r) PROVE SelfChecked'
    <3>1. \A q \in Requests : phase'[q] = "read" =>
             phase[q] = "read" /\ request'[q] = request[q] /\ seen'[q] = seen[q]
      BY <2>3 DEF Idle
    <3>2. \A q \in Requests : phase'[q] # "idle" =>
             phase[q] # "idle" /\ request'[q] = request[q]
      BY <2>3 DEF Idle
    <3> QED BY <3>1, <3>2 DEF SelfChecked, SelfModification
  <2>4. CASE UNCHANGED avars
    BY <2>4 DEF avars, rows, SelfChecked, SelfModification
  <2> QED BY <2>1, <2>2, <2>3, <2>4, StepCases DEF Create, Update, Delete, RollBack
<1> QED BY <1>1, <1>2, IInvAlways, PTL DEF SpecAccounts

\* A change that is no SelfModification of an administrator's row leaves one.
LEMMA OwnChangeKeepsAdmin ==
    ASSUME NEW q \in Request, NEW row \in Account, NEW read \in Account,
           q.user = q.actor, ~ SelfModification(q, read),
           Admin \in read.roles, Admin \in row.roles, row.active
    PROVE  /\ Written(row, Changed(q, read)).active
           /\ Admin \in Written(row, Changed(q, read)).roles
<1> DEFINE change == Changed(q, read)
<1>1. /\ q.change.roles \in {Keep} \cup SUBSET Levels
      /\ q.change.active \in {Keep} \cup BOOLEAN
  BY DEF Request, Changes
<1>2. /\ "roles" \in Fields /\ "active" \in Fields
      /\ change.roles = IF q.change.roles = read.roles THEN Keep ELSE q.change.roles
      /\ change.active = IF q.change.active = read.active THEN Keep ELSE q.change.active
  BY DEF Changed, Fields
<1>3. q.change.active # FALSE /\ (q.change.roles # Keep => Admin \in q.change.roles)
  BY DEF SelfModification
<1>4. /\ Written(row, change).roles = IF change.roles = Keep THEN row.roles ELSE change.roles
      /\ Written(row, change).active = IF change.active = Keep THEN row.active ELSE change.active
  BY DEF Written
<1> HIDE DEF change
<1>5. Admin \in Written(row, change).roles
  BY <1>2, <1>3, <1>4
<1>6. change.active = Keep \/ change.active = TRUE
  BY <1>1, <1>2, <1>3
<1>7. Written(row, change).active
  BY <1>4, <1>6
<1> QED BY <1>5, <1>7 DEF change

\* An administrator who acts alone cannot leave the application without one: only a
\* request whose actor was revoked by another, between its guard and its commit, can.
THEOREM LastAdminGoesOvertaken == SpecAccounts => LastAdminOvertaken
<1> DEFINE Step == (\E u \in Ids : IsAdmin(u)) /\ ~ (\E u \in Ids : IsAdmin(u))' =>
          \E r \in Requests : phase[r] = "read" /\ phase'[r] = "idle" /\ Overtaken(r)
<1>1. IInv /\ IdsSpent /\ SelfChecked /\ [NextAccounts]_avars => [Step]_avars
  <2> SUFFICES ASSUME IInv, IdsSpent, SelfChecked, [NextAccounts]_avars,
                      \E u \in Ids : IsAdmin(u), ~ (\E u \in Ids : IsAdmin(u))'
               PROVE  \E r \in Requests : phase[r] = "read" /\ phase'[r] = "idle" /\ Overtaken(r)
    OBVIOUS
  <2>1. account' # account
    BY DEF IsAdmin, Live
  <2>2. PICK r \in Requests : Create(r) \/ Update(r) \/ Delete(r)
    BY <2>1, StepCases DEF Arrive, Read, RollBack, rows, avars
  <2> DEFINE q == request[r]
  <2>3. /\ q \in Request
        /\ phase[r] = "read"
        /\ phase'[r] = "idle"
        /\ account \in [Ids -> {NoAccount} \cup Account]
        /\ q.user \in Ids
    BY <2>2 DEF Create, Update, Delete, Idle, IInv, AccountTypes, Request
  <2>4. \A u \in Ids : u # q.user => account'[u] = account[u]
    BY <2>2, <2>3 DEF Create, Update, Delete
  <2>5. SUFFICES ASSUME IsAdmin(q.actor), q.user = q.actor => Admin \in seen[r].roles
                 PROVE  FALSE
    BY <2>3 DEF Overtaken
  <2>6. CASE q.actor \notin Ids
    <3>1. PICK u \in Ids : IsAdmin(u)
      OBVIOUS
    <3>2. q.actor = NoActor
      BY <2>3, <2>6 DEF Request
    <3>3. Create(r)
      BY <2>2, <3>2 DEF Update, Delete, SelfChecked
    <3>4. account[q.user] = NoAccount
      BY <2>3, <3>3 DEF Create, IdsSpent, Live
    <3>5. account'[u] = account[u]
      BY <2>4, <3>1, <3>4 DEF IsAdmin, Live
    <3> QED BY <3>1, <3>5 DEF IsAdmin, Live
  <2>7. CASE q.actor \in Ids /\ q.user # q.actor
    BY <2>4, <2>5, <2>7 DEF IsAdmin, Live
  <2>8. CASE q.actor \in Ids /\ q.user = q.actor
    <3>1. CASE Create(r)
      BY <3>1, <2>8, <2>5, <2>3 DEF Create, IsAdmin, Live, IdsSpent
    <3>2. CASE Delete(r)
      BY <3>2, <2>8, <2>3 DEF Delete, SelfChecked
    <3>3. CASE Update(r)
      <4>1. /\ seen[r] \in Account
            /\ account[q.user] \in Account
            /\ account'[q.user] = Written(account[q.user], Changed(q, seen[r]))
        BY <3>3, <2>3 DEF Update, IInv, AccountTypes, Live
      <4>2. ~ SelfModification(q, seen[r])
        BY <3>3, <2>3 DEF Update, SelfChecked
      <4>3. /\ Admin \in seen[r].roles
            /\ Admin \in account[q.user].roles
            /\ account[q.user].active
        BY <2>5, <2>8 DEF IsAdmin
      <4>4. account'[q.user].active /\ Admin \in account'[q.user].roles
        BY <2>3, <2>8, <4>1, <4>2, <4>3, OwnChangeKeepsAdmin
      <4>5. account'[q.user] # NoAccount
        <5>1. account'[q.user] \in Account
          BY <2>3, <4>1, ChangedIsChange, WrittenIsRow
        <5> QED BY <5>1, AccountsAssumption DEF AccountsAssumption
      <4> QED BY <2>3, <4>4, <4>5 DEF IsAdmin, Live
    <3> QED BY <2>2, <3>1, <3>2, <3>3
  <2> QED BY <2>6, <2>7, <2>8
<1> QED BY <1>1, IInvAlways, IdsStaySpent, SelfCheckedAlways, PTL DEF SpecAccounts, LastAdminOvertaken

-----------------------------------------------------------------------------
(* Administration: positions *)

\* A set of numbers up to n has a largest.
LEMMA LargestNumber ==
    ASSUME NEW n \in Nat, NEW S \in SUBSET (0..n), S # {}
    PROVE  Max(S) \in S /\ \A x \in S : x <= Max(S)
<1> DEFINE bounds == {b \in Nat : \A x \in S : x <= b}
<1>1. n \in bounds
  OBVIOUS
<1>2. PICK b \in bounds : \A c \in bounds : <<c, b>> \notin OpToRel(<, Nat)
  <2>1. bounds \subseteq Nat /\ bounds # {}
    BY <1>1
  <2> HIDE DEF bounds
  <2> QED
    BY <2>1, NatLessThanWellFounded, WFMin, Zenon
<1>3. \A c \in bounds : ~ (c < b)
  BY <1>2 DEF OpToRel
<1>4. b \in S
  <2> SUFFICES ASSUME b \notin S
               PROVE  FALSE
    OBVIOUS
  <2>1. \A x \in S : x \in Nat /\ x <= b - 1
    OBVIOUS
  <2>2. b - 1 \in Nat
    <3>1. PICK x \in S : TRUE
      OBVIOUS
    <3>2. b \in Nat /\ x \in Nat /\ x <= b - 1
      BY <2>1
    <3> HIDE DEF bounds
    <3> QED
      BY ONLY <3>2
  <2>3. b - 1 \in bounds
    BY <2>1, <2>2
  <2> QED
    BY <1>3, <2>3
<1>5. \E x \in S : \A y \in S : x >= y
  BY <1>4
<1> QED
  BY <1>5 DEF Max

\* A new item comes after those the project has.
LEMMA NextPositionIsNew ==
    ASSUME TypeOK, NEW p \in Projects
    PROVE  /\ NextPosition(p) \in Nat \ {0}
           /\ \A i \in ItemsOf(p) : item[i].position < NextPosition(p)
<1> DEFINE positions == {0} \cup {item[i].position : i \in ItemsOf(p)}
<1>1. /\ positions \in SUBSET (0..MaxPosition) /\ positions # {}
      /\ \A x \in positions : x \in Nat
  BY AdministrationAssumption DEF AdministrationAssumption, TypeOK, ItemsOf, Item
<1>2. \A i \in ItemsOf(p) : item[i].position \in positions
  OBVIOUS
<1>3. NextPosition(p) = Max(positions) + 1
  BY DEF NextPosition
<1>4. MaxPosition \in Nat
  BY AdministrationAssumption DEF AdministrationAssumption
<1> HIDE DEF positions
<1>5. Max(positions) \in positions /\ \A x \in positions : x <= Max(positions)
  BY <1>1, <1>4, LargestNumber
<1>6. Max(positions) \in Nat
  BY <1>1, <1>4, <1>5
<1>7. ASSUME NEW i \in ItemsOf(p)
      PROVE  item[i].position < NextPosition(p)
  <2>1. item[i].position \in Nat /\ item[i].position <= Max(positions)
    BY <1>1, <1>2, <1>5
  <2> QED
    BY <1>3, <1>6, <2>1
<1> QED
  BY <1>3, <1>6, <1>7

\* The default items of a new project are new rows, in the order of the defaults.
LEMMA DefaultItems ==
    ASSUME TypeOK, NEW p \in Projects, NEW f,
           f \in [DOMAIN Defaults -> {i \in Items : item[i] = NoRow}], IsInjective(f)
    PROVE  /\ WithDefaults(f, p) \in [Items -> {NoRow} \cup Item]
           /\ \A i \in Items : item[i] # NoRow => WithDefaults(f, p)[i] = item[i]
           /\ \A i \in Items : item[i] = NoRow /\ WithDefaults(f, p)[i] # NoRow =>
                  /\ WithDefaults(f, p)[i].project = p
                  /\ WithDefaults(f, p)[i].position \in DOMAIN Defaults
                  /\ f[WithDefaults(f, p)[i].position] = i
<1> DEFINE copies == WithDefaults(f, p)
<1>1. ASSUME NEW i \in Items, i \in Range(f)
      PROVE  /\ item[i] = NoRow
             /\ copies[i] \in Item
             /\ copies[i].project = p
             /\ copies[i].position \in DOMAIN Defaults
             /\ f[copies[i].position] = i
  <2> DEFINE n == CHOOSE n \in DOMAIN Defaults : f[n] = i
  <2>1. n \in DOMAIN Defaults /\ f[n] = i
    BY <1>1 DEF Range
  <2>2. copies[i] = [project |-> p, unit |-> Defaults[n], position |-> n, active |-> TRUE]
    BY <1>1 DEF WithDefaults
  <2>3. n \in 1..MaxPosition /\ Defaults[n] \in BillingUnit
    BY <2>1, AdministrationAssumption DEF AdministrationAssumption
  <2> HIDE DEF n
  <2> QED
    BY <2>1, <2>2, <2>3 DEF Item
<1>2. ASSUME NEW i \in Items, i \notin Range(f)
      PROVE  copies[i] = item[i]
  BY <1>2 DEF WithDefaults
<1>3. copies = [i \in Items |-> copies[i]]
  BY DEF WithDefaults
<1> HIDE DEF copies
<1> QED
  BY <1>1, <1>2, <1>3 DEF TypeOK, copies

-----------------------------------------------------------------------------
(* What a step may do to the rows that others refer to *)

\* Item i of project p has entries, or lines of a locked report.
IsHeld(p, i) ==
    /\ item[i] # NoRow
    /\ item[i].project = p
    /\ \E u \in Users : <<u, i>> \in entry \/ (<<u, i>> \in claim /\ report[<<u, p>>] = "locked")

\* A standing invoice has its period, and what was sent of its items is held.
StandingIsHeld ==
    \A p \in Projects : invoice[p] # NoRow /\ invoice[p].status # "void" =>
        /\ period[p] # NoRow
        /\ period[p].invoiced
        /\ invoice[p].sent \subseteq invoice[p].items
        /\ \A i \in invoice[p].sent : IsHeld(p, i)

Inv == TypeOK /\ ReferencesResolve /\ PositionsDistinct /\ StandingIsHeld

\* ReferencesResolve, table by table.
ProjectsResolve ==
    \A p \in Projects : ProjectExists(p) =>
        /\ CustomerExists(project[p].customer)
        /\ project[p].manager # Nobody => UserExists(project[p].manager)
ItemsResolve == \A i \in Items : item[i] # NoRow => ProjectExists(item[i].project)
MembersResolve == \A k \in member : ProjectExists(k[1]) /\ UserExists(k[2])
WorkResolves == \A k \in entry \cup claim : UserExists(k[1]) /\ item[k[2]] # NoRow
ClaimsResolve ==
    \A k \in claim : item[k[2]] # NoRow => report[<<k[1], item[k[2]].project>>] # "none"
ReportsResolve ==
    \A u \in Users, p \in Projects :
        report[<<u, p>>] # "none" => UserExists(u) /\ ProjectExists(p)
BillingResolves ==
    /\ \A p \in Projects : period[p] # NoRow => ProjectExists(p) /\ UserExists(period[p].sender)
    /\ \A p \in Projects : invoice[p] # NoRow =>
           ProjectExists(p) /\ CustomerExists(invoice[p].customer)

Resolve ==
    /\ ProjectsResolve /\ ItemsResolve /\ MembersResolve /\ WorkResolves
    /\ ClaimsResolve /\ ReportsResolve /\ BillingResolves

\* It is enough to look at the tables one by one, before a step and after it.
LEMMA References == (ReferencesResolve => Resolve) /\ (Resolve' => ReferencesResolve')
  BY DEF ReferencesResolve, Resolve, ProjectsResolve, ItemsResolve, MembersResolve, WorkResolves,
         ClaimsResolve, ReportsResolve, BillingResolves

\* What every step relies on.
LEMMA Reading ==
    ASSUME Inv
    PROVE  /\ \A p \in Projects : project[p] # NoRow => project[p] \in Project
           /\ \A i \in Items : item[i] # NoRow => item[i] \in Item
           /\ \A p \in Projects : period[p] # NoRow => period[p] \in Period
           /\ \A p \in Projects : invoice[p] # NoRow => invoice[p] \in Invoice
           /\ member \subseteq Projects \X Users /\ entry \cup claim \subseteq Users \X Items
           /\ Resolve /\ PositionsDistinct /\ StandingIsHeld
  BY References DEF Inv, TypeOK

\* A step that leaves the tables as they are, and users and customers no fewer.
LEMMA SameTables ==
    ASSUME Inv, UNCHANGED <<project, item, member, entry, report, claim, period, invoice>>,
           \A u \in Users : UserExists(u) => UserExists(u)',
           \A c \in Customers : CustomerExists(c) => CustomerExists(c)'
    PROVE  ReferencesResolve' /\ PositionsDistinct' /\ StandingIsHeld'
<1> USE Reading DEF Resolve
<1>1. ProjectsResolve'
  BY DEF ProjectsResolve, ProjectExists, Project
<1>2. ItemsResolve' /\ ClaimsResolve'
  BY DEF ItemsResolve, ClaimsResolve, ProjectExists
<1>3. MembersResolve' /\ WorkResolves'
  BY DEF MembersResolve, WorkResolves, ProjectExists
<1>4. ReportsResolve' /\ BillingResolves'
  BY DEF ReportsResolve, BillingResolves, ProjectExists, Period, Invoice
<1>5. PositionsDistinct' /\ StandingIsHeld'
  BY DEF PositionsDistinct, ItemsOf, StandingIsHeld, IsHeld
<1> QED
  BY <1>1, <1>2, <1>3, <1>4, <1>5, References

\* Users come, are changed and go.
LEMMA UserSteps ==
    ASSUME Inv, NEW u \in Users,
           CreateUser(u) \/ (\E active \in BOOLEAN : UpdateUser(u, active)) \/ RemoveUser(u)
    PROVE  Inv'
<1>1. CASE CreateUser(u) \/ (\E active \in BOOLEAN : UpdateUser(u, active))
  <2>1. /\ UNCHANGED <<customer, project, item, member, entry, report, claim, period, invoice>>
        /\ user' \in [Users -> {"none", "active", "inactive"}]
        /\ \A v \in Users : UserExists(v) => UserExists(v)'
    BY <1>1 DEF CreateUser, UpdateUser, UserExists, Inv, TypeOK, catalog, work, billing
  <2>2. TypeOK'
    BY <2>1 DEF Inv, TypeOK
  <2> QED
    BY <2>1, <2>2, SameTables DEF Inv, CustomerExists
<1>2. CASE RemoveUser(u)
  <2>1. /\ UNCHANGED <<customer, item, entry, report, claim, period, invoice>>
        /\ user' = [user EXCEPT ![u] = "none"]
        /\ member' = {k \in member : k[2] # u}
        /\ project' = [p \in Projects |->
                          IF p \in ManagedBy(u) THEN [project[p] EXCEPT !.manager = Nobody]
                          ELSE project[p]]
    BY <1>2 DEF RemoveUser, work, billing
  <2>2. /\ \A i \in Items : <<u, i>> \notin entry
        /\ \A p \in Projects : /\ report[<<u, p>>] = "none"
                               /\ period[p] # NoRow => period[p].sender # u
    BY <1>2 DEF RemoveUser, UserReferenced
  <2>3. ASSUME NEW p \in Projects
        PROVE  /\ project'[p] \in {NoRow} \cup Project
               /\ project'[p] # NoRow <=> project[p] # NoRow
               /\ project[p] # NoRow =>
                    /\ project'[p].customer = project[p].customer
                    /\ project'[p].manager # u
                    /\ project'[p].manager \in {Nobody, project[p].manager}
    <3>1. CASE p \in ManagedBy(u)
      <4>1. project[p] \in Project /\ project'[p] = [project[p] EXCEPT !.manager = Nobody]
        BY <2>1, <3>1, Reading DEF ManagedBy, ProjectExists
      <4> DEFINE new == [project[p] EXCEPT !.manager = Nobody]
      <4>2. new \in Project /\ new.customer = project[p].customer /\ new.manager = Nobody
        BY <4>1 DEF Project
      <4> HIDE DEF new
      <4>3. NoRow \notin Project /\ Nobody \notin Users
        BY AdministrationAssumption DEF AdministrationAssumption
      <4> QED
        BY <4>1, <4>2, <4>3 DEF new
    <3>2. CASE p \notin ManagedBy(u)
      <4>1. project'[p] = project[p]
        BY <2>1, <3>2
      <4>2. project[p] \in {NoRow} \cup Project /\ (project[p] # NoRow => project[p].manager # u)
        BY <3>2, Reading DEF ManagedBy, ProjectExists
      <4> QED
        BY <4>1, <4>2
    <3> QED
      BY <3>1, <3>2
  <2>4. TypeOK'
    BY <2>1, <2>3 DEF Inv, TypeOK
  <2>5. \A v \in Users : v # u /\ UserExists(v) => UserExists(v)'
    BY <2>1 DEF UserExists, Inv, TypeOK
  <2> USE Reading DEF Resolve
  <2>6. \A i \in Items : <<u, i>> \notin claim
    BY <2>2 DEF ClaimsResolve, WorkResolves, Item
  <2>7. ProjectsResolve' /\ ItemsResolve'
    BY <2>1, <2>3, <2>5 DEF ProjectsResolve, ItemsResolve, ProjectExists, CustomerExists, Project, Item
  <2>8. MembersResolve'
    BY <2>1, <2>3, <2>5 DEF MembersResolve, ProjectExists
  <2>9. WorkResolves' /\ ClaimsResolve'
    BY <2>1, <2>2, <2>5, <2>6 DEF WorkResolves, ClaimsResolve
  <2>10. ReportsResolve'
    BY <2>1, <2>2, <2>3, <2>5 DEF ReportsResolve, ProjectExists
  <2>11. BillingResolves'
    BY <2>1, <2>2, <2>3, <2>5 DEF BillingResolves, ProjectExists, CustomerExists, Period
  <2>12. PositionsDistinct' /\ StandingIsHeld'
    BY <2>1 DEF PositionsDistinct, ItemsOf, StandingIsHeld, IsHeld
  <2> QED
    BY <2>1, <2>4, <2>7, <2>8, <2>9, <2>10, <2>11, <2>12, References DEF Inv
<1> QED
  BY <1>1, <1>2

\* Customers come, are archived and go.
LEMMA CustomerSteps ==
    ASSUME Inv, NEW c \in Customers,
           \/ CreateCustomer(c) \/ (\E active \in BOOLEAN : UpdateCustomer(c, active))
           \/ RemoveCustomer(c)
    PROVE  Inv'
<1>1. /\ UNCHANGED <<user, project, item, member, entry, report, claim, period, invoice>>
      /\ customer' \in [Customers -> {"none", "active", "archived"}]
  BY DEF CreateCustomer, UpdateCustomer, RemoveCustomer, Inv, TypeOK, work, billing
<1>2. TypeOK'
  BY <1>1 DEF Inv, TypeOK
<1>3. CASE CreateCustomer(c) \/ (\E active \in BOOLEAN : UpdateCustomer(c, active))
  <2>1. \A d \in Customers : CustomerExists(d) => CustomerExists(d)'
    BY <1>3 DEF CreateCustomer, UpdateCustomer, CustomerExists, Inv, TypeOK
  <2> QED
    BY <1>1, <1>2, <2>1, SameTables DEF Inv, UserExists
<1>4. CASE RemoveCustomer(c)
  <2>1. \A d \in Customers : d # c /\ CustomerExists(d) => CustomerExists(d)'
    BY <1>4 DEF RemoveCustomer, CustomerExists, Inv, TypeOK
  <2>2. /\ \A p \in Projects : project[p] # NoRow => project[p].customer # c
        /\ \A p \in Projects : invoice[p] # NoRow => invoice[p].customer # c
    BY <1>4 DEF RemoveCustomer, CustomerReferenced, ProjectExists
  <2> USE Reading DEF Resolve
  <2>3. ProjectsResolve' /\ BillingResolves'
    BY <1>1, <2>1, <2>2 DEF ProjectsResolve, BillingResolves, ProjectExists, UserExists, Project, Invoice
  <2>4. ItemsResolve' /\ MembersResolve' /\ WorkResolves' /\ ClaimsResolve' /\ ReportsResolve'
    BY <1>1 DEF ItemsResolve, MembersResolve, WorkResolves, ClaimsResolve, ReportsResolve,
                ProjectExists, UserExists
  <2>5. PositionsDistinct' /\ StandingIsHeld'
    BY <1>1 DEF PositionsDistinct, ItemsOf, StandingIsHeld, IsHeld
  <2> QED
    BY <1>1, <1>2, <2>3, <2>4, <2>5, References DEF Inv
<1> QED
  BY <1>1, <1>3, <1>4

\* A project is created with the default items, which nothing refers to yet.
LEMMA CreateProjectStep ==
    ASSUME Inv, NEW p \in Projects, NEW c \in Customers, NEW m \in {Nobody} \cup Users,
           CreateProject(p, c, m)
    PROVE  Inv'
<1>1. /\ project[p] = NoRow /\ CustomerExists(c)
      /\ m # Nobody => UserExists(m)
      /\ UNCHANGED <<user, customer, member, entry, report, claim, period, invoice>>
  BY DEF CreateProject, ProjectExists, CustomerActive, CustomerExists, Eligible, UserExists, work,
         billing
<1> DEFINE new == [customer |-> c, active |-> TRUE, manager |-> m]
<1>a. project' = [project EXCEPT ![p] = new]
  BY DEF CreateProject
<1>b. new \in Project /\ new.customer = c /\ new.manager = m
  BY DEF Project
<1> HIDE DEF new
<1>2. /\ project' = [project EXCEPT ![p] = new]
      /\ new \in Project /\ new.customer = c /\ new.manager = m /\ new # NoRow
  BY <1>a, <1>b, AdministrationAssumption DEF AdministrationAssumption
<1>3. PICK f \in [DOMAIN Defaults -> {i \in Items : item[i] = NoRow}] :
          IsInjective(f) /\ item' = WithDefaults(f, p)
  BY DEF CreateProject
<1>4. TypeOK
  BY DEF Inv
<1>5. /\ item' \in [Items -> {NoRow} \cup Item]
      /\ \A i \in Items : item[i] # NoRow => item'[i] = item[i]
      /\ \A i \in Items : item[i] = NoRow /\ item'[i] # NoRow =>
             item'[i].project = p /\ f[item'[i].position] = i
  BY <1>3, <1>4, DefaultItems
<1>6. TypeOK'
  BY <1>1, <1>2, <1>4, <1>5 DEF TypeOK
<1>7. \A q \in Projects : project'[q] = IF q = p THEN new ELSE project[q]
  BY <1>2, <1>4 DEF TypeOK
<1> USE Reading DEF Resolve
<1>8. \A i \in Items : item[i] # NoRow => item[i].project # p /\ item[i].project \in Projects
  BY <1>1 DEF ItemsResolve, ProjectExists, Item
<1>9. ProjectsResolve'
  BY <1>1, <1>2, <1>7 DEF ProjectsResolve, ProjectExists, CustomerExists, UserExists
<1>10. ItemsResolve'
  BY <1>2, <1>5, <1>7, <1>8 DEF ItemsResolve, ProjectExists
<1>11. MembersResolve' /\ WorkResolves' /\ ClaimsResolve'
  BY <1>1, <1>2, <1>5, <1>7 DEF MembersResolve, WorkResolves, ClaimsResolve, ProjectExists, UserExists
<1>12. ReportsResolve' /\ BillingResolves'
  BY <1>1, <1>2, <1>7 DEF ReportsResolve, BillingResolves, ProjectExists, CustomerExists, UserExists
<1>13. PositionsDistinct'
  <2> SUFFICES ASSUME NEW q \in Projects, NEW i \in ItemsOf(q)', NEW j \in ItemsOf(q)',
                      item'[i].position = item'[j].position
               PROVE  i = j
    BY DEF PositionsDistinct
  <2>1. /\ i \in Items /\ item'[i] # NoRow /\ item'[i].project = q
        /\ j \in Items /\ item'[j] # NoRow /\ item'[j].project = q
    BY DEF ItemsOf
  <2>2. CASE q = p
    BY <1>5, <1>8, <2>1, <2>2
  <2>3. CASE q # p
    <3>1. item'[i] = item[i] /\ item'[j] = item[j] /\ i \in ItemsOf(q) /\ j \in ItemsOf(q)
      BY <1>5, <2>1, <2>3 DEF ItemsOf
    <3> QED
      BY <3>1 DEF PositionsDistinct
  <2> QED
    BY <2>2, <2>3
<1>14. StandingIsHeld'
  <2>1. ASSUME NEW q \in Projects, NEW i \in Items, IsHeld(q, i)
        PROVE  IsHeld(q, i)'
    BY <1>1, <1>5, <2>1 DEF IsHeld
  <2> QED
    BY <1>1, <2>1 DEF StandingIsHeld, Invoice
<1> QED
  BY <1>1, <1>6, <1>9, <1>10, <1>11, <1>12, <1>13, <1>14, References DEF Inv

\* A project is changed, and members are added and removed.
LEMMA ProjectSteps ==
    ASSUME Inv, NEW p \in Projects,
           \/ \E active \in BOOLEAN, m \in {Nobody} \cup Users : UpdateProject(p, active, m)
           \/ \E u \in Users : AddMember(p, u) \/ RemoveMember(p, u)
    PROVE  Inv'
<1>1. TypeOK /\ UNCHANGED <<user, customer, item, entry, report, claim, period, invoice>>
  BY DEF Inv, UpdateProject, AddMember, RemoveMember, work, billing
<1> USE Reading DEF Resolve
<1>a. PositionsDistinct' /\ \A q \in Projects, j \in Items : IsHeld(q, j) => IsHeld(q, j)'
  BY <1>1 DEF PositionsDistinct, ItemsOf, IsHeld
<1>2. PositionsDistinct' /\ StandingIsHeld'
  BY <1>1, <1>a DEF StandingIsHeld, Invoice
<1>3. WorkResolves' /\ ClaimsResolve'
  BY <1>1 DEF WorkResolves, ClaimsResolve, UserExists
<1>4. CASE \E active \in BOOLEAN, m \in {Nobody} \cup Users : UpdateProject(p, active, m)
  <2>1. PICK active \in BOOLEAN, m \in {Nobody} \cup Users : UpdateProject(p, active, m)
    BY <1>4
  <2> DEFINE new == [project[p] EXCEPT !.active = active, !.manager = m]
  <2>2. /\ project[p] # NoRow /\ UNCHANGED member
        /\ m # Nobody /\ m # project[p].manager => UserExists(m)
        /\ project' = [project EXCEPT ![p] = new]
    BY <1>1, <2>1 DEF UpdateProject, ProjectExists, Eligible, UserExists, TypeOK
  <2>3. new \in Project /\ new.customer = project[p].customer /\ new.manager = m /\ new # NoRow
    BY <2>2, AdministrationAssumption DEF Project, AdministrationAssumption
  <2> HIDE DEF new
  <2>4. \A q \in Projects : project'[q] = IF q = p THEN new ELSE project[q]
    BY <1>1, <2>2 DEF TypeOK
  <2>5. TypeOK'
    BY <1>1, <2>2, <2>3 DEF TypeOK
  <2>6. \A q \in Projects : ProjectExists(q)' <=> ProjectExists(q)
    BY <2>2, <2>3, <2>4 DEF ProjectExists
  <2>7. ProjectsResolve'
    BY <1>1, <2>2, <2>3, <2>4 DEF ProjectsResolve, ProjectExists, CustomerExists, UserExists
  <2>8. ItemsResolve' /\ MembersResolve'
    BY <1>1, <2>2, <2>6 DEF ItemsResolve, MembersResolve, UserExists, Item
  <2>9. ReportsResolve' /\ BillingResolves'
    BY <1>1, <2>6 DEF ReportsResolve, BillingResolves, UserExists, CustomerExists
  <2> QED
    BY <1>1, <1>2, <1>3, <2>5, <2>7, <2>8, <2>9, References DEF Inv
<1>5. CASE \E u \in Users : AddMember(p, u) \/ RemoveMember(p, u)
  <2>1. PICK u \in Users : AddMember(p, u) \/ RemoveMember(p, u)
    BY <1>5
  <2>2. /\ UNCHANGED project
        /\ \A k \in member' : k \in member \/ (k = <<p, u>> /\ ProjectExists(p) /\ UserExists(u))
    BY <2>1 DEF AddMember, RemoveMember, ProjectActive, UserExists
  <2>3. TypeOK'
    BY <1>1, <2>1, <2>2 DEF TypeOK, AddMember, RemoveMember
  <2>4. MembersResolve'
    BY <1>1, <2>2 DEF MembersResolve, ProjectExists, UserExists
  <2>5. ProjectsResolve' /\ ItemsResolve' /\ ReportsResolve' /\ BillingResolves'
    BY <1>1, <2>2 DEF ProjectsResolve, ItemsResolve, ReportsResolve, BillingResolves, ProjectExists,
                      CustomerExists, UserExists
  <2> QED
    BY <1>1, <1>2, <1>3, <2>3, <2>4, <2>5, References DEF Inv
<1> QED
  BY <1>1, <1>4, <1>5

\* A project goes with its members and its items, none of which has anything left.
LEMMA RemoveProjectStep ==
    ASSUME Inv, NEW p \in Projects, RemoveProject(p)
    PROVE  Inv'
<1>1. /\ UNCHANGED <<user, customer, entry, report, claim, period, invoice>>
      /\ project' = [project EXCEPT ![p] = NoRow]
      /\ member' = {k \in member : k[1] # p}
      /\ item' = [i \in Items |-> IF i \in ItemsOf(p) THEN NoRow ELSE item[i]]
  BY DEF RemoveProject, work, billing
<1>2. /\ \A i \in ItemsOf(p), u \in Users : <<u, i>> \notin entry \cup claim
      /\ \A u \in Users : report[<<u, p>>] = "none"
      /\ period[p] = NoRow /\ invoice[p] = NoRow
  BY DEF RemoveProject, ProjectReferenced, ItemReferenced
<1>3. TypeOK
  BY DEF Inv
<1>4. TypeOK'
  BY <1>1, <1>3 DEF TypeOK
<1>5. /\ \A q \in Projects : project'[q] = IF q = p THEN NoRow ELSE project[q]
      /\ \A i \in Items : IF item[i] # NoRow /\ item[i].project = p
                          THEN item'[i] = NoRow ELSE item'[i] = item[i]
  BY <1>1, <1>3 DEF TypeOK, ItemsOf
<1> USE Reading DEF Resolve
<1>6. ProjectsResolve' /\ ItemsResolve'
  BY <1>1, <1>5 DEF ProjectsResolve, ItemsResolve, ProjectExists, CustomerExists, UserExists, Item
<1>7. MembersResolve'
  BY <1>1, <1>5 DEF MembersResolve, ProjectExists, UserExists
<1>8. WorkResolves' /\ ClaimsResolve'
  BY <1>1, <1>2, <1>5 DEF WorkResolves, ClaimsResolve, UserExists, ItemsOf
<1>9. ReportsResolve' /\ BillingResolves'
  BY <1>1, <1>2, <1>5 DEF ReportsResolve, BillingResolves, ProjectExists, CustomerExists, UserExists
<1>10. PositionsDistinct'
  BY <1>5 DEF PositionsDistinct, ItemsOf
<1>11. StandingIsHeld'
  <2>1. ASSUME NEW q \in Projects, NEW i \in Items, q # p, IsHeld(q, i)
        PROVE  IsHeld(q, i)'
    BY <1>1, <1>5, <2>1 DEF IsHeld
  <2> QED
    BY <1>1, <1>2, <2>1 DEF StandingIsHeld, Invoice
<1> QED
  BY <1>1, <1>4, <1>6, <1>7, <1>8, <1>9, <1>10, <1>11, References DEF Inv

\* An item that is added comes after the project's others; one that is changed stays in
\* its place.
LEMMA ItemSteps ==
    ASSUME Inv, NEW i \in Items,
           \/ \E p \in Projects, unit \in BillingUnit : AddBillingItem(i, p, unit)
           \/ \E active \in BOOLEAN : UpdateBillingItem(i, active)
    PROVE  Inv'
<1>1. TypeOK /\ UNCHANGED <<user, customer, project, member, entry, report, claim, period, invoice>>
  BY DEF Inv, AddBillingItem, UpdateBillingItem, work, billing
<1> USE Reading DEF Resolve
<1>2. ASSUME NEW new \in Item, item' = [item EXCEPT ![i] = new], ProjectExists(new.project),
             item[i] # NoRow => new.project = item[i].project,
             \A j \in ItemsOf(new.project) : j # i => item[j].position # new.position
      PROVE  Inv'
  <2>1. /\ \A j \in Items : item'[j] = IF j = i THEN new ELSE item[j]
        /\ new # NoRow
    BY <1>1, <1>2, AdministrationAssumption DEF TypeOK, AdministrationAssumption
  <2>2. TypeOK'
    BY <1>1, <1>2 DEF TypeOK
  <2>3. ProjectsResolve' /\ MembersResolve' /\ ReportsResolve' /\ BillingResolves'
    BY <1>1 DEF ProjectsResolve, MembersResolve, ReportsResolve, BillingResolves, ProjectExists,
                CustomerExists, UserExists
  <2>4. ItemsResolve' /\ WorkResolves' /\ ClaimsResolve'
    BY <1>1, <1>2, <2>1 DEF ItemsResolve, WorkResolves, ClaimsResolve, ProjectExists, UserExists
  <2>5. PositionsDistinct'
    BY <1>1, <1>2, <2>1 DEF PositionsDistinct, ItemsOf
  <2>6. ASSUME NEW q \in Projects, NEW j \in Items, IsHeld(q, j)
        PROVE  IsHeld(q, j)'
    BY <1>1, <1>2, <2>1, <2>6 DEF IsHeld
  <2>7. StandingIsHeld'
    BY <1>1, <2>6 DEF StandingIsHeld, Invoice
  <2> QED
    BY <2>2, <2>3, <2>4, <2>5, <2>7, References DEF Inv
<1>3. CASE \E p \in Projects, unit \in BillingUnit : AddBillingItem(i, p, unit)
  <2>1. PICK p \in Projects, unit \in BillingUnit : AddBillingItem(i, p, unit)
    BY <1>3
  <2> DEFINE new == [project |-> p, unit |-> unit, position |-> NextPosition(p), active |-> TRUE]
  <2>2. /\ item[i] = NoRow /\ ProjectExists(p) /\ NextPosition(p) <= MaxPosition
        /\ item' = [item EXCEPT ![i] = new]
    BY <2>1 DEF AddBillingItem, ProjectActive
  <2>3. /\ NextPosition(p) \in Nat \ {0}
        /\ \A j \in ItemsOf(p) : item[j].position < NextPosition(p)
    BY <1>1, NextPositionIsNew
  <2>4. /\ new \in Item /\ new.project = p /\ new.position = NextPosition(p)
    BY <2>2, <2>3, AdministrationAssumption DEF Item, AdministrationAssumption
  <2>5. \A j \in ItemsOf(p) : item[j].position # NextPosition(p)
    BY <2>3 DEF ItemsOf, Item
  <2> HIDE DEF new
  <2> QED
    BY <1>1, <1>2, <2>2, <2>4, <2>5
<1>4. CASE \E active \in BOOLEAN : UpdateBillingItem(i, active)
  <2>1. PICK active \in BOOLEAN : UpdateBillingItem(i, active)
    BY <1>4
  <2> DEFINE new == [item[i] EXCEPT !.active = active]
  <2>2. item[i] \in Item /\ item' = [item EXCEPT ![i] = new] /\ item[i] # NoRow
    BY <1>1, <2>1 DEF UpdateBillingItem, TypeOK
  <2>3. new \in Item /\ new.project = item[i].project /\ new.position = item[i].position
    BY <2>2 DEF Item
  <2>4. ProjectExists(item[i].project) /\ item[i].project \in Projects
    BY <2>2 DEF ItemsResolve, Item
  <2>5. \A j \in ItemsOf(item[i].project) : j # i => item[j].position # item[i].position
    BY <2>2, <2>4 DEF PositionsDistinct, ItemsOf
  <2> HIDE DEF new
  <2> QED
    BY <1>1, <1>2, <2>2, <2>3, <2>4, <2>5
<1> QED
  BY <1>1, <1>3, <1>4

\* An item that goes was sent with the month of no standing invoice.
LEMMA DeleteItemStep ==
    ASSUME Inv, NEW i \in Items, DeleteBillingItem(i)
    PROVE  Inv'
<1>1. /\ TypeOK /\ UNCHANGED <<user, customer, project, member, entry, report, claim, period>>
      /\ item' = [item EXCEPT ![i] = NoRow]
      /\ invoice' = [p \in Projects |->
                        IF invoice[p] = NoRow THEN NoRow
                        ELSE [invoice[p] EXCEPT !.items = @ \ {i}]]
      /\ \A u \in Users : <<u, i>> \notin entry \cup claim
  BY DEF Inv, DeleteBillingItem, ItemReferenced, work
<1> USE Reading DEF Resolve
<1>2. ASSUME NEW p \in Projects, invoice[p] # NoRow
      PROVE  /\ invoice'[p] \in Invoice
             /\ invoice'[p].customer = invoice[p].customer
             /\ invoice'[p].status = invoice[p].status
             /\ invoice'[p].sent = invoice[p].sent
             /\ invoice'[p].items = invoice[p].items \ {i}
  <2>1. invoice[p] \in Invoice /\ invoice'[p] = [invoice[p] EXCEPT !.items = @ \ {i}]
    BY <1>1, <1>2
  <2> QED
    BY <2>1 DEF Invoice
<1>3. \A p \in Projects : invoice[p] = NoRow => invoice'[p] = NoRow
  BY <1>1
<1>4. \A j \in Items : item'[j] = IF j = i THEN NoRow ELSE item[j]
  BY <1>1 DEF TypeOK
<1>5. TypeOK'
  BY <1>1, <1>2, <1>3 DEF TypeOK
<1>6. ProjectsResolve' /\ MembersResolve' /\ ReportsResolve'
  BY <1>1 DEF ProjectsResolve, MembersResolve, ReportsResolve, ProjectExists, CustomerExists,
              UserExists
<1>7. ItemsResolve' /\ WorkResolves' /\ ClaimsResolve'
  BY <1>1, <1>4 DEF ItemsResolve, WorkResolves, ClaimsResolve, ProjectExists, UserExists
<1>8. BillingResolves'
  BY <1>1, <1>2, <1>3 DEF BillingResolves, ProjectExists, CustomerExists, UserExists
<1>9. PositionsDistinct'
  BY <1>4 DEF PositionsDistinct, ItemsOf
<1>10. \A p \in Projects : ~ IsHeld(p, i)
  BY <1>1 DEF IsHeld
<1>11. ASSUME NEW p \in Projects, NEW j \in Items, IsHeld(p, j)
       PROVE  IsHeld(p, j)'
  BY <1>1, <1>4, <1>10, <1>11 DEF IsHeld
<1>12. \A p \in Projects : invoice[p] # NoRow /\ invoice[p].status # "void" =>
           i \notin invoice[p].sent /\ invoice[p].sent \subseteq Items
  BY <1>10 DEF StandingIsHeld, Invoice
<1>13. StandingIsHeld'
  BY <1>1, <1>2, <1>3, <1>11, <1>12 DEF StandingIsHeld
<1> QED
  BY <1>5, <1>6, <1>7, <1>8, <1>9, <1>13, References DEF Inv

\* Whose items a user may write on.
LEMMA OpenItemsAreThere ==
    ASSUME NEW u \in Users, NEW unit, NEW i \in OpenItems(u, unit)
    PROVE  i \in Items /\ item[i] # NoRow /\ item[i].project \in Projects
  BY DEF OpenItems, MemberProjects, ItemsOf

\* Time is written in months that are not sent, and expenses in open reports.
LEMMA WorkSteps ==
    ASSUME Inv, NEW u \in Users,
           \/ \E i \in Items : WriteTime(u, i) \/ WriteReport(u, i)
           \/ \E p \in Projects : CreateReport(u, p) \/ DeleteReport(u, p)
    PROVE  Inv'
<1>1. /\ TypeOK /\ UNCHANGED <<user, customer, project, item, member, period, invoice>>
      /\ UserExists(u)
  BY DEF Inv, WriteTime, WriteReport, CreateReport, DeleteReport, UserExists, catalog, billing
<1> USE Reading DEF Resolve
<1>2. /\ ProjectsResolve' /\ ItemsResolve' /\ MembersResolve' /\ BillingResolves'
      /\ PositionsDistinct'
  BY <1>1 DEF ProjectsResolve, ItemsResolve, MembersResolve, BillingResolves, PositionsDistinct,
              ItemsOf, ProjectExists, CustomerExists, UserExists
<1>3. ASSUME \A p \in Projects, i \in Items :
                 period[p] # NoRow /\ IsHeld(p, i) => IsHeld(p, i)'
      PROVE  StandingIsHeld'
  BY <1>1, <1>3 DEF StandingIsHeld, Invoice
<1>4. CASE \E i \in Items : WriteTime(u, i)
  <2>1. PICK i \in Items : WriteTime(u, i)
    BY <1>4
  <2>2. /\ item[i] # NoRow /\ period[item[i].project] = NoRow
        /\ UNCHANGED <<report, claim>>
        /\ entry' \in {entry \cup {<<u, i>>}, entry \ {<<u, i>>}}
    BY <2>1, OpenItemsAreThere DEF WriteTime
  <2>3. TypeOK'
    BY <1>1, <2>2 DEF TypeOK
  <2>4. WorkResolves' /\ ClaimsResolve' /\ ReportsResolve'
    BY <1>1, <2>2 DEF WorkResolves, ClaimsResolve, ReportsResolve, UserExists, ProjectExists
  <2>5. \A p \in Projects, j \in Items : period[p] # NoRow /\ IsHeld(p, j) => IsHeld(p, j)'
    BY <1>1, <2>2 DEF IsHeld
  <2> QED
    BY <1>1, <1>2, <1>3, <2>3, <2>4, <2>5, References DEF Inv
<1>5. CASE \E i \in Items : WriteReport(u, i)
  <2>1. PICK i \in Items : WriteReport(u, i)
    BY <1>5
  <2>2. /\ item[i] # NoRow /\ report[<<u, item[i].project>>] \notin {"none", "locked"}
        /\ UNCHANGED <<report, entry>>
        /\ claim' \in {claim \cup {<<u, i>>}, claim \ {<<u, i>>}}
    BY <2>1 DEF WriteReport, Editable
  <2>3. TypeOK'
    BY <1>1, <2>2 DEF TypeOK
  <2>4. WorkResolves' /\ ClaimsResolve' /\ ReportsResolve'
    BY <1>1, <2>2 DEF WorkResolves, ClaimsResolve, ReportsResolve, UserExists, ProjectExists
  <2>5. \A p \in Projects, j \in Items : IsHeld(p, j) => IsHeld(p, j)'
    BY <1>1, <2>2 DEF IsHeld
  <2> QED
    BY <1>1, <1>2, <1>3, <2>3, <2>4, <2>5, References DEF Inv
<1>6. CASE \E p \in Projects : CreateReport(u, p)
  <2>1. PICK p \in Projects : CreateReport(u, p)
    BY <1>6
  <2>2. /\ ProjectExists(p) /\ report[<<u, p>>] = "none"
        /\ UNCHANGED <<entry, claim>>
        /\ report' = [report EXCEPT ![<<u, p>>] = "draft"]
    BY <2>1 DEF CreateReport, OpenItems, MemberProjects, ItemsOf, ProjectActive
  <2>3. \A v \in Users, q \in Projects :
            report'[<<v, q>>] = IF v = u /\ q = p THEN "draft" ELSE report[<<v, q>>]
    BY <1>1, <2>2 DEF TypeOK
  <2>4. TypeOK'
    BY <1>1, <2>2 DEF TypeOK, ReportStatus
  <2>5. WorkResolves' /\ ReportsResolve'
    BY <1>1, <2>2, <2>3 DEF WorkResolves, ReportsResolve, UserExists, ProjectExists
  <2>6. ClaimsResolve'
    BY <1>1, <2>2, <2>3 DEF ClaimsResolve, Item
  <2>7. \A q \in Projects, j \in Items : IsHeld(q, j) => IsHeld(q, j)'
    BY <1>1, <2>2, <2>3 DEF IsHeld
  <2> QED
    BY <1>1, <1>2, <1>3, <2>4, <2>5, <2>6, <2>7, References DEF Inv
<1>7. CASE \E p \in Projects : DeleteReport(u, p)
  <2>1. PICK p \in Projects : DeleteReport(u, p)
    BY <1>7
  <2>2. /\ report[<<u, p>>] = "draft" /\ UNCHANGED entry
        /\ report' = [report EXCEPT ![<<u, p>>] = "none"]
        /\ claim' = claim \ ClaimsOf(u, p)
    BY <2>1 DEF DeleteReport
  <2>3. \A v \in Users, q \in Projects :
            report'[<<v, q>>] = IF v = u /\ q = p THEN "none" ELSE report[<<v, q>>]
    BY <1>1, <2>2 DEF TypeOK
  <2>4. \A v \in Users, j \in Items :
            <<v, j>> \in claim' <=>
                <<v, j>> \in claim /\ ~ (v = u /\ item[j] # NoRow /\ item[j].project = p)
    BY <2>2 DEF ClaimsOf, ItemsOf
  <2>5. TypeOK'
    BY <1>1, <2>2 DEF TypeOK, ReportStatus
  <2>6. WorkResolves' /\ ReportsResolve'
    BY <1>1, <2>2, <2>3 DEF WorkResolves, ReportsResolve, UserExists, ProjectExists
  <2>7. ClaimsResolve'
    <3> SUFFICES ASSUME NEW v \in Users, NEW j \in Items, <<v, j>> \in claim', item[j] # NoRow
                 PROVE  report'[<<v, item[j].project>>] # "none"
      BY <1>1, <2>5 DEF ClaimsResolve, TypeOK
    <3>1. <<v, j>> \in claim /\ ~ (v = u /\ item[j].project = p) /\ item[j].project \in Projects
      BY <2>4 DEF Item
    <3>2. report[<<v, item[j].project>>] # "none"
      BY <3>1 DEF ClaimsResolve
    <3> QED
      BY <2>3, <3>1, <3>2
  <2>8. \A q \in Projects, j \in Items : IsHeld(q, j) => IsHeld(q, j)'
    BY <1>1, <2>2, <2>3, <2>4 DEF IsHeld
  <2> QED
    BY <1>1, <1>2, <1>3, <2>5, <2>6, <2>7, <2>8, References DEF Inv
<1> QED
  BY <1>1, <1>4, <1>5, <1>6, <1>7

\* A report that is not locked is submitted, approved and returned.
LEMMA ReviewSteps ==
    ASSUME Inv, NEW u \in Users, NEW p \in Projects,
           SubmitReport(u, p) \/ ApproveReport(u, p) \/ ReturnReport(u, p)
    PROVE  Inv'
<1>1. /\ TypeOK /\ UNCHANGED <<user, customer, project, item, member, entry, claim, period, invoice>>
      /\ report[<<u, p>>] \notin {"none", "locked"}
  BY DEF Inv, SubmitReport, ApproveReport, ReturnReport, Editable, catalog, billing
<1> USE Reading DEF Resolve
<1>2. PICK new \in {"submitted", "approved", "returned"} : report' = [report EXCEPT ![<<u, p>>] = new]
  BY DEF SubmitReport, ApproveReport, ReturnReport
<1>3. \A v \in Users, q \in Projects :
          report'[<<v, q>>] = IF v = u /\ q = p THEN new ELSE report[<<v, q>>]
  BY <1>1, <1>2 DEF TypeOK
<1>4. TypeOK'
  BY <1>1, <1>2 DEF TypeOK, ReportStatus
<1>5. /\ ProjectsResolve' /\ ItemsResolve' /\ MembersResolve' /\ WorkResolves' /\ BillingResolves'
      /\ PositionsDistinct'
  BY <1>1 DEF ProjectsResolve, ItemsResolve, MembersResolve, WorkResolves, BillingResolves,
              PositionsDistinct, ItemsOf, ProjectExists, CustomerExists, UserExists
<1>6. ReportsResolve'
  BY <1>1, <1>3 DEF ReportsResolve, UserExists, ProjectExists
<1>7. ClaimsResolve'
  BY <1>1, <1>3 DEF ClaimsResolve, Item
<1>8. \A q \in Projects, j \in Items : IsHeld(q, j) => IsHeld(q, j)'
  BY <1>1, <1>3 DEF IsHeld
<1>9. StandingIsHeld'
  BY <1>1, <1>8 DEF StandingIsHeld, Invoice
<1> QED
  BY <1>4, <1>5, <1>6, <1>7, <1>9, References DEF Inv

\* A month is sent and reopened.
LEMMA PeriodSteps ==
    ASSUME Inv, NEW p \in Projects, (\E u \in Users : SendToBilling(p, u)) \/ ReopenPeriod(p)
    PROVE  Inv'
<1>1. /\ TypeOK /\ UNCHANGED <<user, customer, project, item, member, entry, claim, invoice>>
  BY DEF Inv, SendToBilling, ReopenPeriod, catalog
<1> USE Reading DEF Resolve
<1>2. /\ ProjectsResolve' /\ ItemsResolve' /\ MembersResolve' /\ WorkResolves'
      /\ PositionsDistinct'
  BY <1>1 DEF ProjectsResolve, ItemsResolve, MembersResolve, WorkResolves, PositionsDistinct,
              ItemsOf, ProjectExists, CustomerExists, UserExists
<1>3. /\ report' \in [Users \X Projects -> ReportStatus]
      /\ \A v \in Users, q \in Projects :
             /\ report'[<<v, q>>] = "none" <=> report[<<v, q>>] = "none"
             /\ q # p => report'[<<v, q>>] = report[<<v, q>>]
             /\ (\E u \in Users : SendToBilling(p, u)) /\ report[<<v, q>>] = "locked" =>
                    report'[<<v, q>>] = "locked"
  BY <1>1 DEF TypeOK, SendToBilling, ReopenPeriod, ReportStatus
<1>4. ReportsResolve'
  BY <1>1, <1>3 DEF ReportsResolve, UserExists, ProjectExists
<1>5. ClaimsResolve'
  <2> SUFFICES ASSUME NEW v \in Users, NEW j \in Items, <<v, j>> \in claim, item[j] # NoRow
               PROVE  report'[<<v, item[j].project>>] # "none"
    BY <1>1 DEF ClaimsResolve
  <2>1. report[<<v, item[j].project>>] # "none" /\ item[j].project \in Projects
    BY DEF ClaimsResolve, Item
  <2> QED
    BY <1>3, <2>1
<1>6. CASE \E u \in Users : SendToBilling(p, u)
  <2>1. PICK u \in Users : SendToBilling(p, u)
    BY <1>6
  <2> DEFINE new == [sender |-> u, invoiced |-> FALSE]
  <2>2. /\ UserExists(u) /\ ProjectExists(p) /\ period[p] = NoRow
        /\ period' = [period EXCEPT ![p] = new]
    BY <2>1 DEF SendToBilling, UserExists
  <2>3. new \in Period /\ new.sender = u
    BY DEF Period
  <2> HIDE DEF new
  <2>4. \A q \in Projects : period'[q] = IF q = p THEN new ELSE period[q]
    BY <1>1, <2>2 DEF TypeOK
  <2>5. TypeOK'
    BY <1>1, <1>3, <2>2, <2>3 DEF TypeOK
  <2>6. BillingResolves'
    BY <1>1, <2>2, <2>3, <2>4 DEF BillingResolves, ProjectExists, UserExists, CustomerExists
  <2>7. \A q \in Projects, j \in Items : IsHeld(q, j) => IsHeld(q, j)'
    BY <1>1, <1>3, <1>6 DEF IsHeld
  <2>8. StandingIsHeld'
    BY <1>1, <2>2, <2>4, <2>7 DEF StandingIsHeld, Invoice
  <2> QED
    BY <1>1, <1>2, <1>4, <1>5, <2>5, <2>6, <2>8, References DEF Inv
<1>7. CASE ReopenPeriod(p)
  <2>1. /\ period[p] # NoRow /\ ~ period[p].invoiced
        /\ period' = [period EXCEPT ![p] = NoRow]
    BY <1>7 DEF ReopenPeriod
  <2>2. \A q \in Projects : period'[q] = IF q = p THEN NoRow ELSE period[q]
    BY <1>1, <2>1 DEF TypeOK
  <2>3. TypeOK'
    BY <1>1, <1>3, <2>1 DEF TypeOK
  <2>4. BillingResolves'
    BY <1>1, <2>2 DEF BillingResolves, ProjectExists, UserExists, CustomerExists
  <2>5. \A q \in Projects, j \in Items : q # p /\ IsHeld(q, j) => IsHeld(q, j)'
    BY <1>1, <1>3 DEF IsHeld
  <2>6. StandingIsHeld'
    BY <1>1, <2>1, <2>2, <2>5 DEF StandingIsHeld, Invoice
  <2> QED
    BY <1>1, <1>2, <1>4, <1>5, <2>3, <2>4, <2>6, References DEF Inv
<1> QED
  BY <1>6, <1>7

\* Invoices are drafted, issued, dropped and voided.
LEMMA InvoiceSteps ==
    ASSUME Inv, NEW p \in Projects,
           \/ CreateInvoiceDraft(p) \/ DeleteInvoiceDraft(p) \/ IssueInvoice(p) \/ VoidInvoice(p)
    PROVE  Inv'
<1>1. TypeOK /\ UNCHANGED <<user, customer, project, item, member, entry, report, claim>>
  BY DEF Inv, CreateInvoiceDraft, DeleteInvoiceDraft, IssueInvoice, VoidInvoice, catalog, work
<1> USE Reading DEF Resolve
<1>2. /\ ProjectsResolve' /\ ItemsResolve' /\ MembersResolve' /\ WorkResolves' /\ ClaimsResolve'
      /\ ReportsResolve' /\ PositionsDistinct'
  BY <1>1 DEF ProjectsResolve, ItemsResolve, MembersResolve, WorkResolves, ClaimsResolve,
              ReportsResolve, PositionsDistinct, ItemsOf, ProjectExists, CustomerExists, UserExists
<1>3. \A q \in Projects, i \in Items : IsHeld(q, i) => IsHeld(q, i)'
  BY <1>1 DEF IsHeld
<1>4. ASSUME NEW row \in {NoRow} \cup Invoice, NEW billed \in BOOLEAN,
             period[p] # NoRow \/ UNCHANGED period,
             invoice' = [invoice EXCEPT ![p] = row],
             UNCHANGED period \/ period' = [period EXCEPT ![p].invoiced = billed],
             row # NoRow => CustomerExists(row.customer) /\ ProjectExists(p),
             row # NoRow /\ row.status # "void" =>
                 /\ period'[p] # NoRow /\ period'[p].invoiced
                 /\ \A i \in row.sent : IsHeld(p, i)
                 /\ row.sent \subseteq row.items
      PROVE  Inv'
  <2>1. \A q \in Projects : invoice'[q] = IF q = p THEN row ELSE invoice[q]
    BY <1>1, <1>4 DEF TypeOK
  <2> DEFINE new == [period[p] EXCEPT !.invoiced = billed]
  <2>2. period[p] # NoRow => new \in Period /\ new.sender = period[p].sender
    BY DEF Period
  <2>3. UNCHANGED period \/ (period[p] # NoRow /\ period' = [period EXCEPT ![p] = new])
    BY <1>4
  <2> HIDE DEF new
  <2>4. NoRow \notin Period
    BY AdministrationAssumption DEF AdministrationAssumption
  <2>5. \A q \in Projects : /\ period'[q] = NoRow <=> period[q] = NoRow
                            /\ period[q] # NoRow => period'[q].sender = period[q].sender
                            /\ q # p => period'[q] = period[q]
    BY <1>1, <2>2, <2>3, <2>4 DEF TypeOK
  <2>6. TypeOK'
    BY <1>1, <1>4, <2>2, <2>3 DEF TypeOK
  <2>7. BillingResolves'
    BY <1>1, <1>4, <2>1, <2>5 DEF BillingResolves, ProjectExists, CustomerExists, UserExists
  <2>8. \A q \in Projects : invoice'[q] # NoRow => invoice'[q].sent \subseteq Items
    BY <2>1, <1>4 DEF Invoice
  <2>9. StandingIsHeld'
    BY <1>3, <1>4, <2>1, <2>5, <2>8 DEF StandingIsHeld
  <2> QED
    BY <1>2, <2>6, <2>7, <2>9, References DEF Inv
<1>5. CASE CreateInvoiceDraft(p)
  <2> DEFINE row == [customer |-> project[p].customer, items |-> BilledItems(p), status |-> "draft",
                     sent |-> SentItems(p)]
  <2>1. /\ period[p] # NoRow /\ invoice[p] = NoRow
        /\ invoice' = [invoice EXCEPT ![p] = row]
        /\ period' = [period EXCEPT ![p].invoiced = TRUE]
    BY <1>5 DEF CreateInvoiceDraft
  <2>2. project[p] \in Project /\ ProjectExists(p) /\ CustomerExists(project[p].customer)
    BY <2>1 DEF BillingResolves, ProjectsResolve, ProjectExists
  <2>3. /\ row \in Invoice /\ row.customer = project[p].customer
        /\ row.items = BilledItems(p) /\ row.sent = SentItems(p)
    BY <2>2 DEF Invoice, Project, BilledItems, SentItems, ItemsOf
  <2>4. /\ \A i \in SentItems(p) : IsHeld(p, i)
        /\ SentItems(p) \subseteq BilledItems(p)
    BY DEF BilledItems, SentItems, ItemsOf, IsHeld
  <2>5. period'[p] # NoRow /\ period'[p].invoiced
    <3> DEFINE new == [period[p] EXCEPT !.invoiced = TRUE]
    <3>1. period[p] \in Period /\ period'[p] = new
      BY <1>1, <2>1 DEF TypeOK
    <3>2. new \in Period /\ new.invoiced
      BY <3>1 DEF Period
    <3> HIDE DEF new
    <3> QED
      BY <3>1, <3>2, AdministrationAssumption DEF AdministrationAssumption
  <2> HIDE DEF row
  <2> QED
    BY <1>4, <2>1, <2>2, <2>3, <2>4, <2>5
<1>6. CASE DeleteInvoiceDraft(p)
  <2>1. /\ invoice[p] # NoRow /\ invoice[p].status = "draft"
        /\ invoice' = [invoice EXCEPT ![p] = NoRow]
        /\ period' = [period EXCEPT ![p].invoiced = FALSE]
    BY <1>6 DEF DeleteInvoiceDraft
  <2>2. period[p] # NoRow
    BY <2>1 DEF StandingIsHeld
  <2> QED
    BY <1>4, <2>1, <2>2
<1>7. CASE IssueInvoice(p)
  <2> DEFINE row == [invoice[p] EXCEPT !.status = "issued"]
  <2>1. /\ invoice[p] \in Invoice /\ invoice[p] # NoRow /\ invoice[p].status = "draft"
        /\ UNCHANGED period /\ invoice' = [invoice EXCEPT ![p] = row]
    BY <1>1, <1>7 DEF IssueInvoice, TypeOK
  <2>2. /\ row \in Invoice /\ row.customer = invoice[p].customer /\ row.items = invoice[p].items
        /\ row.sent = invoice[p].sent
    BY <2>1 DEF Invoice
  <2>3. /\ CustomerExists(invoice[p].customer) /\ ProjectExists(p)
        /\ period'[p] # NoRow /\ period'[p].invoiced /\ \A i \in invoice[p].sent : IsHeld(p, i)
        /\ invoice[p].sent \subseteq invoice[p].items
    BY <2>1 DEF BillingResolves, StandingIsHeld
  <2> HIDE DEF row
  <2> QED
    BY <1>4, <2>1, <2>2, <2>3
<1>8. CASE VoidInvoice(p)
  <2> DEFINE row == [invoice[p] EXCEPT !.status = "void"]
  <2>1. /\ invoice[p] \in Invoice /\ invoice[p] # NoRow /\ invoice[p].status = "issued"
        /\ period' = [period EXCEPT ![p].invoiced = FALSE]
        /\ invoice' = [invoice EXCEPT ![p] = row]
    BY <1>1, <1>8 DEF VoidInvoice, TypeOK
  <2>2. /\ row \in Invoice /\ row.customer = invoice[p].customer /\ row.items = invoice[p].items
        /\ row.status = "void"
    BY <2>1 DEF Invoice
  <2>3. CustomerExists(invoice[p].customer) /\ ProjectExists(p) /\ period[p] # NoRow
    BY <2>1 DEF BillingResolves, StandingIsHeld
  <2> HIDE DEF row
  <2> QED
    BY <1>4, <2>1, <2>2, <2>3
<1> QED
  BY <1>5, <1>6, <1>7, <1>8

-----------------------------------------------------------------------------
\* Whatever is created, archived, removed, written or billed next.
LEMMA EveryStep == Inv /\ [Next]_vars => Inv'
<1> SUFFICES ASSUME Inv, [Next]_vars
             PROVE  Inv'
  OBVIOUS
<1>1. CASE UserStep
  BY <1>1, UserSteps DEF UserStep
<1>2. CASE CustomerStep
  BY <1>2, CustomerSteps DEF CustomerStep
<1>3. CASE ProjectStep
  <2>1. PICK p \in Projects :
          \/ \E c \in Customers, m \in {Nobody} \cup Users : CreateProject(p, c, m)
          \/ \E active \in BOOLEAN, m \in {Nobody} \cup Users : UpdateProject(p, active, m)
          \/ \E u \in Users : AddMember(p, u) \/ RemoveMember(p, u)
          \/ RemoveProject(p)
    BY <1>3 DEF ProjectStep
  <2> QED
    BY <2>1, CreateProjectStep, ProjectSteps, RemoveProjectStep
<1>4. CASE ItemStep
  <2>1. PICK i \in Items :
          \/ \E p \in Projects, unit \in BillingUnit : AddBillingItem(i, p, unit)
          \/ \E active \in BOOLEAN : UpdateBillingItem(i, active)
          \/ DeleteBillingItem(i)
    BY <1>4 DEF ItemStep
  <2> QED
    BY <2>1, ItemSteps, DeleteItemStep
<1>5. CASE WorkStep
  BY <1>5, WorkSteps, ReviewSteps DEF WorkStep
<1>6. CASE BillingStep
  <2>1. PICK p \in Projects :
          \/ (\E u \in Users : SendToBilling(p, u)) \/ ReopenPeriod(p)
          \/ CreateInvoiceDraft(p) \/ DeleteInvoiceDraft(p) \/ IssueInvoice(p) \/ VoidInvoice(p)
    BY <1>6 DEF BillingStep
  <2> QED
    BY <2>1, PeriodSteps, InvoiceSteps
<1>7. CASE UNCHANGED vars
  <2>1. /\ UNCHANGED <<user, customer, project, item, member, entry, report, claim>>
        /\ UNCHANGED <<period, invoice>>
    BY <1>7 DEF vars, catalog, work, billing
  <2>2. TypeOK'
    BY <2>1 DEF Inv, TypeOK
  <2> QED
    BY <2>1, <2>2, SameTables DEF Inv, UserExists, CustomerExists
<1> QED
  BY <1>1, <1>2, <1>3, <1>4, <1>5, <1>6, <1>7 DEF Next

\* The inductive invariant holds of the empty tables and of every step from there.
LEMMA AlwaysInv == Spec => []Inv
<1>1. Init => Inv
  <2> SUFFICES ASSUME Init
               PROVE  Inv
    OBVIOUS
  <2>1. TypeOK
    BY DEF Init, TypeOK, ReportStatus
  <2>2. ReferencesResolve
    BY DEF Init, ReferencesResolve, ProjectExists
  <2>3. PositionsDistinct /\ StandingIsHeld
    BY DEF Init, PositionsDistinct, ItemsOf, StandingIsHeld
  <2> QED
    BY <2>1, <2>2, <2>3 DEF Inv
<1> QED
  BY <1>1, EveryStep, PTL DEF Spec

\* Types: every row of the catalog, of the work and of the billing is of its table.
THEOREM RowsAreTyped == Spec => []TypeOK
<1>1. Inv => TypeOK
  BY DEF Inv
<1> QED
  BY <1>1, AlwaysInv, PTL

\* Every reference resolves, whatever users, customers, projects and items have been
\* removed: what a removal would leave dangling refuses it or goes with it.
THEOREM ReferencesAlwaysResolve == Spec => []ReferencesResolve
<1>1. Inv => ReferencesResolve
  BY DEF Inv
<1> QED
  BY <1>1, AlwaysInv, PTL

\* No two items of a project get the same position, for any number of them added,
\* deleted and copied from the defaults.
THEOREM PositionsStayDistinct == Spec => []PositionsDistinct
<1>1. Inv => PositionsDistinct
  BY DEF Inv
<1> QED
  BY <1>1, AlwaysInv, PTL

\* An invoice that stands keeps the items of what was sent: entries or locked claims hold
\* each of them, and its period keeps those as they are.  Only a line of a report that came
\* after the send loses its item.
THEOREM SentLinesStay == Spec => []SentLinesKept
<1>1. Inv => SentLinesKept
  BY DEF Inv, StandingIsHeld, SentLinesKept
<1> QED
  BY <1>1, AlwaysInv, PTL
=============================================================================
