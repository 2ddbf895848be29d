----------------------------- MODULE Administration -----------------------------
(***************************************************************************)
(* The catalog of customers, projects, members and billing items, the      *)
(* users, and their removal, over the rows of the other modules that refer *)
(* to them.  A permanent deletion is decided twice: by the counts of the   *)
(* removal impact, and by the foreign keys (ON DELETE RESTRICT, CASCADE or *)
(* SET NULL) when the row is deleted.                                      *)
(*                                                                         *)
(* Time entries, expense reports, periods and invoices are kept as far as  *)
(* they refer to the catalog, for one month, with the guards that decide   *)
(* when such a row may come and go; Timesheets, Expenses and Invoices have *)
(* the rest.  Names, prices and the other columns are left out.            *)
(***************************************************************************)
EXTENDS Naturals, Sequences, FiniteSets, FiniteSetsExt, Functions

CONSTANTS
    Users,
    Managers,       \* users with the manager level
    Customers,
    Projects,
    Items,          \* project_billing_items
    Defaults,       \* DEFAULT_BILLING_ITEMS: the units of a new project's items
    NoRow,          \* no row under this id
    Nobody,         \* manager_id is NULL
    MaxPosition,    \* bound on the positions given out
    MaxReports      \* bound on the expense reports there are at a time

VARIABLES
    user,           \* users: is_active of a row
    customer,       \* customers: is_active of a row
    project,        \* projects
    item,           \* project_billing_items
    member,         \* project_members
    entry,          \* time_entries: who has some on which item
    report,         \* expense_reports of a user for a project: their status
    claim,          \* expense_report_lines: whose report, which item
    period,         \* project_billing_periods
    invoice         \* invoices: the one whose link rows name the project

catalog == <<customer, project, item, member>>
work    == <<entry, report, claim>>
billing == <<period, invoice>>
vars    == <<user, catalog, work, billing>>

-----------------------------------------------------------------------------
\* Hours and days are both reported as time.
BillingUnit == {"time", "amount"}

Project == [customer : Customers, active : BOOLEAN, manager : {Nobody} \cup Users]
Item    == [project : Projects, unit : BillingUnit, position : 1..MaxPosition, active : BOOLEAN]
Period  == [sender : Users, invoiced : BOOLEAN]
Invoice == [customer : Customers, items : SUBSET Items, status : {"draft", "issued", "void"},
            sent : SUBSET Items]

\* A locked report is an approved one: Expenses shows it.
ReportStatus == {"none", "draft", "submitted", "returned", "approved", "locked"}
Editable     == {"draft", "returned"}

ASSUME AdministrationAssumption ==
    /\ Managers \subseteq Users
    /\ Defaults \in Seq(BillingUnit)
    /\ MaxPosition \in Nat
    /\ MaxReports \in Nat
    /\ Len(Defaults) <= MaxPosition
    /\ Nobody \notin Users
    /\ NoRow \notin Project \cup Item \cup Period \cup Invoice

TypeOK ==
    /\ user \in [Users -> {"none", "active", "inactive"}]
    /\ customer \in [Customers -> {"none", "active", "archived"}]
    /\ project \in [Projects -> {NoRow} \cup Project]
    /\ item \in [Items -> {NoRow} \cup Item]
    /\ member \subseteq Projects \X Users
    /\ entry \subseteq Users \X Items
    /\ report \in [Users \X Projects -> ReportStatus]
    /\ claim \subseteq Users \X Items
    /\ period \in [Projects -> {NoRow} \cup Period]
    /\ invoice \in [Projects -> {NoRow} \cup Invoice]

Init ==
    /\ user = [u \in Users |-> "none"]
    /\ customer = [c \in Customers |-> "none"]
    /\ project = [p \in Projects |-> NoRow]
    /\ item = [i \in Items |-> NoRow]
    /\ member = {}
    /\ entry = {}
    /\ report = [k \in Users \X Projects |-> "none"]
    /\ claim = {}
    /\ period = [p \in Projects |-> NoRow]
    /\ invoice = [p \in Projects |-> NoRow]

-----------------------------------------------------------------------------
(* Reading the catalog *)

UserExists(u)     == user[u] # "none"
CustomerExists(c) == customer[c] # "none"
ProjectExists(p)  == project[p] # NoRow
CustomerActive(c) == customer[c] = "active"
ProjectActive(p)  == ProjectExists(p) /\ project[p].active
ItemsOf(p)        == {i \in Items : item[i] # NoRow /\ item[i].project = p}

\* Active projects the user is a member of.
MemberProjects(u) ==
    {p \in Projects : ProjectActive(p) /\ <<p, u>> \in member}

\* ListMemberProjectsWithBillingItems: the active items, of a unit, of those.
OpenItems(u, unit) ==
    {i \in UNION {ItemsOf(p) : p \in MemberProjects(u)} :
        item[i].active /\ item[i].unit = unit}

ManagedBy(u) == {p \in Projects : ProjectExists(p) /\ project[p].manager = u}

\* Mutant of NextPosition: the number of items, plus one.
NextPosition_Count(p) == Cardinality(ItemsOf(p)) + 1

NextPosition(p) == Max({0} \cup {item[i].position : i \in ItemsOf(p)}) + 1

-----------------------------------------------------------------------------
(* What refers to a row with ON DELETE RESTRICT *)

\* Memberships and management are cleared before the user is deleted.
UserReferenced(u) ==
    \/ \E i \in Items : <<u, i>> \in entry
    \/ \E p \in Projects : report[<<u, p>>] # "none" \/ (period[p] # NoRow /\ period[p].sender = u)

CustomerReferenced(c) ==
    \/ \E p \in Projects : ProjectExists(p) /\ project[p].customer = c
    \/ \E p \in Projects : invoice[p] # NoRow /\ invoice[p].customer = c

ItemReferenced(i) == \E u \in Users : <<u, i>> \in entry \cup claim

\* Mutant of ProjectReferenced: what the removal impact counts, and no more.
ProjectReferenced_Entries(p) == \E i \in ItemsOf(p), u \in Users : <<u, i>> \in entry

ProjectReferenced(p) ==
    \/ \E i \in ItemsOf(p) : ItemReferenced(i)
    \/ \E u \in Users : report[<<u, p>>] # "none"
    \/ period[p] # NoRow
    \/ invoice[p] # NoRow

(* RemovalImpactDTO: what the admin module counts before a deletion *)

UserBlockers(u) == IF \E i \in Items : <<u, i>> \in entry THEN {"time_entries"} ELSE {}

CustomerBlockers(c) ==
    (IF \E p \in Projects : ProjectExists(p) /\ project[p].customer = c
     THEN {"projects"} ELSE {})
        \cup (IF \E p \in Projects : invoice[p] # NoRow /\ invoice[p].customer = c
              THEN {"invoices"} ELSE {})

ProjectBlockers(p) ==
    IF \E i \in ItemsOf(p), u \in Users : <<u, i>> \in entry THEN {"time_entries"} ELSE {}

-----------------------------------------------------------------------------
(* Users.  The administrator who acts is another account: Accounts has the rules about *)
(* one's own.                                                                           *)

CreateUser(u) ==
    /\ user[u] = "none"
    /\ user' = [user EXCEPT ![u] = "active"]
    /\ UNCHANGED <<catalog, work, billing>>

UpdateUser(u, active) ==
    /\ UserExists(u)
    /\ user' = [user EXCEPT ![u] = IF active THEN "active" ELSE "inactive"]
    /\ UNCHANGED <<catalog, work, billing>>

\* RemoveUserFromAllProjects, then DeleteUser, whose foreign keys may still refuse:
\* the two roll back together.
RemoveUser(u) ==
    /\ UserExists(u)
    /\ UserBlockers(u) = {}
    /\ ~ UserReferenced(u)
    /\ project' = [p \in Projects |->
                      IF p \in ManagedBy(u) THEN [project[p] EXCEPT !.manager = Nobody]
                      ELSE project[p]]
    /\ member' = {k \in member : k[2] # u}
    /\ user' = [user EXCEPT ![u] = "none"]
    /\ UNCHANGED <<customer, item, work, billing>>

-----------------------------------------------------------------------------
(* Customers *)

CreateCustomer(c) ==
    /\ ~ CustomerExists(c)
    /\ customer' = [customer EXCEPT ![c] = "active"]
    /\ UNCHANGED <<user, project, item, member, work, billing>>

\* Archiving a customer leaves its projects as they are.
UpdateCustomer(c, active) ==
    /\ CustomerExists(c)
    /\ customer' = [customer EXCEPT ![c] = IF active THEN "active" ELSE "archived"]
    /\ UNCHANGED <<user, project, item, member, work, billing>>

RemoveCustomer(c) ==
    /\ CustomerExists(c)
    /\ CustomerBlockers(c) = {}
    /\ ~ CustomerReferenced(c)
    /\ customer' = [customer EXCEPT ![c] = "none"]
    /\ UNCHANGED <<user, project, item, member, work, billing>>

-----------------------------------------------------------------------------
(* Projects and members *)

Eligible(m) == m = Nobody \/ (m \in Managers /\ user[m] = "active")

\* A copy of the default items, in their order: f gives the rows.
WithDefaults(f, p) ==
    [i \in Items |->
        IF i \in Range(f)
        THEN LET n == CHOOSE n \in DOMAIN Defaults : f[n] = i
             IN  [project |-> p, unit |-> Defaults[n], position |-> n, active |-> TRUE]
        ELSE item[i]]

CreateProject(p, c, m) ==
    /\ ~ ProjectExists(p)
    /\ CustomerActive(c)
    /\ Eligible(m)
    /\ project' = [project EXCEPT ![p] = [customer |-> c, active |-> TRUE, manager |-> m]]
    /\ \E f \in [DOMAIN Defaults -> {i \in Items : item[i] = NoRow}] :
           /\ IsInjective(f)
           /\ item' = WithDefaults(f, p)
    /\ UNCHANGED <<user, customer, member, work, billing>>

\* Re-activating a project requires its customer to be active still.
UpdateProject(p, active, m) ==
    /\ ProjectExists(p)
    /\ active /\ ~ project[p].active => CustomerActive(project[p].customer)
    /\ m # project[p].manager => Eligible(m)
    /\ project' = [project EXCEPT ![p].active = active, ![p].manager = m]
    /\ UNCHANGED <<user, customer, item, member, work, billing>>

AddMember(p, u) ==
    /\ ProjectActive(p)
    /\ user[u] = "active"
    /\ <<p, u>> \notin member
    /\ member' = member \cup {<<p, u>>}
    /\ UNCHANGED <<user, customer, project, item, work, billing>>

RemoveMember(p, u) ==
    /\ <<p, u>> \in member
    /\ member' = member \ {<<p, u>>}
    /\ UNCHANGED <<user, customer, project, item, work, billing>>

\* The members and the items go with the project; whatever else refers to it, or to
\* one of its items, refuses.
RemoveProject(p) ==
    /\ ProjectExists(p)
    /\ ProjectBlockers(p) = {}
    /\ ~ ProjectReferenced(p)
    /\ project' = [project EXCEPT ![p] = NoRow]
    /\ member' = {k \in member : k[1] # p}
    /\ item' = [i \in Items |-> IF i \in ItemsOf(p) THEN NoRow ELSE item[i]]
    /\ UNCHANGED <<user, customer, work, billing>>

-----------------------------------------------------------------------------
(* Billing items *)

AddBillingItem(i, p, unit) ==
    /\ item[i] = NoRow
    /\ ProjectActive(p)
    /\ NextPosition(p) <= MaxPosition
    /\ item' = [item EXCEPT ![i] = [project |-> p, unit |-> unit,
                                    position |-> NextPosition(p), active |-> TRUE]]
    /\ UNCHANGED <<user, customer, project, member, work, billing>>

UpdateBillingItem(i, active) ==
    /\ item[i] # NoRow
    /\ active /\ ~ item[i].active => ProjectActive(item[i].project)
    /\ item' = [item EXCEPT ![i].active = active]
    /\ UNCHANGED <<user, customer, project, member, work, billing>>

\* Mutant of DeleteBillingItem: only time entries refuse, and claims go with the item.
DeleteBillingItem_Claims(i) ==
    /\ item[i] # NoRow
    /\ \A u \in Users : <<u, i>> \notin entry
    /\ item' = [item EXCEPT ![i] = NoRow]
    /\ claim' = {k \in claim : k[2] # i}
    /\ invoice' = [p \in Projects |->
                      IF invoice[p] = NoRow THEN NoRow
                      ELSE [invoice[p] EXCEPT !.items = @ \ {i}]]
    /\ UNCHANGED <<user, customer, project, member, entry, report, period>>

\* Entries and expense lines refuse; the lines of an invoice are set to NULL.
DeleteBillingItem(i) ==
    /\ item[i] # NoRow
    /\ ~ ItemReferenced(i)
    /\ item' = [item EXCEPT ![i] = NoRow]
    /\ invoice' = [p \in Projects |->
                      IF invoice[p] = NoRow THEN NoRow
                      ELSE [invoice[p] EXCEPT !.items = @ \ {i}]]
    /\ UNCHANGED <<user, customer, project, member, work, period>>

-----------------------------------------------------------------------------
(* Rows of the other modules *)

\* SaveTimesheetWeek: an open item, and a month that is not sent.
WriteTime(u, i) ==
    /\ user[u] = "active"
    /\ i \in OpenItems(u, "time")
    /\ period[item[i].project] = NoRow
    /\ entry' \in {entry \cup {<<u, i>>}, entry \ {<<u, i>>}}
    /\ UNCHANGED <<user, catalog, report, claim, billing>>

CreateReport(u, p) ==
    /\ user[u] = "active"
    /\ report[<<u, p>>] = "none"
    /\ Cardinality({k \in Users \X Projects : report[k] # "none"}) < MaxReports
    /\ OpenItems(u, "amount") \cap ItemsOf(p) # {}
    /\ report' = [report EXCEPT ![<<u, p>>] = "draft"]
    /\ UNCHANGED <<user, catalog, entry, claim, billing>>

ClaimsOf(u, p) == {k \in claim : k[1] = u /\ k[2] \in ItemsOf(p)}

\* A line may be added on an open item, and dropped whatever became of its item.
WriteReport(u, i) ==
    /\ user[u] = "active"
    /\ item[i] # NoRow
    /\ report[<<u, item[i].project>>] \in Editable
    /\ \/ i \in OpenItems(u, "amount") /\ claim' = claim \cup {<<u, i>>}
       \/ claim' = claim \ {<<u, i>>}
    /\ UNCHANGED <<user, catalog, entry, report, billing>>

DeleteReport(u, p) ==
    /\ user[u] = "active"
    /\ report[<<u, p>>] = "draft"
    /\ report' = [report EXCEPT ![<<u, p>>] = "none"]
    /\ claim' = claim \ ClaimsOf(u, p)
    /\ UNCHANGED <<user, catalog, entry, billing>>

SubmitReport(u, p) ==
    /\ user[u] = "active"
    /\ report[<<u, p>>] \in Editable
    /\ report' = [report EXCEPT ![<<u, p>>] = "submitted"]
    /\ UNCHANGED <<user, catalog, entry, claim, billing>>

\* A reviewer is a manager; one's own report too, where the company allows it.
Reviewing == \E m \in Managers : user[m] = "active"

ApproveReport(u, p) ==
    /\ Reviewing
    /\ report[<<u, p>>] = "submitted"
    /\ report' = [report EXCEPT ![<<u, p>>] = "approved"]
    /\ UNCHANGED <<user, catalog, entry, claim, billing>>

\* An approved report may be returned as long as it is not locked, its month sent or not.
ReturnReport(u, p) ==
    /\ Reviewing
    /\ report[<<u, p>>] \in {"submitted", "approved"}
    /\ report' = [report EXCEPT ![<<u, p>>] = "returned"]
    /\ UNCHANGED <<user, catalog, entry, claim, billing>>

\* The items the export of a month is about: its entries and its approved reports,
\* locked or not.
BilledItems(p) ==
    {i \in ItemsOf(p) : \E u \in Users :
        \/ <<u, i>> \in entry
        \/ <<u, i>> \in claim /\ report[<<u, p>>] \in {"approved", "locked"}}

\* History: those of them that were sent, and not added by a later report.
SentItems(p) ==
    {i \in ItemsOf(p) : \E u \in Users :
        <<u, i>> \in entry \/ (<<u, i>> \in claim /\ report[<<u, p>>] = "locked")}

\* The weeks of the entries, which must be approved too, are left out.
SendToBilling(p, u) ==
    /\ u \in Managers
    /\ user[u] = "active"
    /\ ProjectExists(p)
    /\ period[p] = NoRow
    /\ \A v \in Users : report[<<v, p>>] \in {"none", "approved"}
    /\ \/ \E i \in ItemsOf(p), v \in Users : <<v, i>> \in entry
       \/ \E v \in Users : report[<<v, p>>] = "approved"
    /\ period' = [period EXCEPT ![p] = [sender |-> u, invoiced |-> FALSE]]
    /\ report' = [k \in Users \X Projects |->
                     IF k[2] = p /\ report[k] = "approved" THEN "locked" ELSE report[k]]
    /\ UNCHANGED <<user, catalog, entry, claim, invoice>>

ReopenPeriod(p) ==
    /\ period[p] # NoRow
    /\ ~ period[p].invoiced
    /\ period' = [period EXCEPT ![p] = NoRow]
    /\ report' = [k \in Users \X Projects |->
                     IF k[2] = p /\ report[k] = "locked" THEN "approved" ELSE report[k]]
    /\ UNCHANGED <<user, catalog, entry, claim, invoice>>

\* The period's link row is unique, and outlives a void.
CreateInvoiceDraft(p) ==
    /\ period[p] # NoRow
    /\ ~ period[p].invoiced
    /\ invoice[p] = NoRow
    /\ invoice' = [invoice EXCEPT ![p] = [customer |-> project[p].customer,
                                          items |-> BilledItems(p), status |-> "draft",
                                          sent |-> SentItems(p)]]
    /\ period' = [period EXCEPT ![p].invoiced = TRUE]
    /\ UNCHANGED <<user, catalog, work>>

DeleteInvoiceDraft(p) ==
    /\ invoice[p] # NoRow
    /\ invoice[p].status = "draft"
    /\ invoice' = [invoice EXCEPT ![p] = NoRow]
    /\ period' = [period EXCEPT ![p].invoiced = FALSE]
    /\ UNCHANGED <<user, catalog, work>>

IssueInvoice(p) ==
    /\ invoice[p] # NoRow
    /\ invoice[p].status = "draft"
    /\ invoice' = [invoice EXCEPT ![p].status = "issued"]
    /\ UNCHANGED <<user, catalog, work, period>>

VoidInvoice(p) ==
    /\ invoice[p] # NoRow
    /\ invoice[p].status = "issued"
    /\ invoice' = [invoice EXCEPT ![p].status = "void"]
    /\ period' = [period EXCEPT ![p].invoiced = FALSE]
    /\ UNCHANGED <<user, catalog, work>>

-----------------------------------------------------------------------------
UserStep ==
    \E u \in Users :
        \/ CreateUser(u)
        \/ \E active \in BOOLEAN : UpdateUser(u, active)
        \/ RemoveUser(u)

CustomerStep ==
    \E c \in Customers :
        \/ CreateCustomer(c)
        \/ \E active \in BOOLEAN : UpdateCustomer(c, active)
        \/ RemoveCustomer(c)

ProjectStep ==
    \E p \in Projects :
        \/ \E c \in Customers, m \in {Nobody} \cup Users : CreateProject(p, c, m)
        \/ \E active \in BOOLEAN, m \in {Nobody} \cup Users : UpdateProject(p, active, m)
        \/ \E u \in Users : AddMember(p, u) \/ RemoveMember(p, u)
        \/ RemoveProject(p)

ItemStep ==
    \E i \in Items :
        \/ \E p \in Projects, unit \in BillingUnit : AddBillingItem(i, p, unit)
        \/ \E active \in BOOLEAN : UpdateBillingItem(i, active)
        \/ DeleteBillingItem(i)

WorkStep ==
    \E u \in Users :
        \/ \E i \in Items : WriteTime(u, i) \/ WriteReport(u, i)
        \/ \E p \in Projects :
              \/ CreateReport(u, p) \/ DeleteReport(u, p)
              \/ SubmitReport(u, p) \/ ApproveReport(u, p) \/ ReturnReport(u, p)

BillingStep ==
    \E p \in Projects :
        \/ \E u \in Users : SendToBilling(p, u)
        \/ ReopenPeriod(p)
        \/ CreateInvoiceDraft(p)
        \/ DeleteInvoiceDraft(p)
        \/ IssueInvoice(p)
        \/ VoidInvoice(p)

Next == UserStep \/ CustomerStep \/ ProjectStep \/ ItemStep \/ WorkStep \/ BillingStep

Spec == Init /\ [][Next]_vars

-----------------------------------------------------------------------------
(* Properties *)

\* What the query handlers rely on when they look up the customer, manager, user or
\* item a row names (projects/handlers.py:113, :265): every reference resolves,
\* whatever has been removed.
ReferencesResolve ==
    /\ \A p \in Projects : ProjectExists(p) =>
           /\ CustomerExists(project[p].customer)
           /\ project[p].manager # Nobody => UserExists(project[p].manager)
    /\ \A i \in Items : item[i] # NoRow => ProjectExists(item[i].project)
    /\ \A k \in member : ProjectExists(k[1]) /\ UserExists(k[2])
    /\ \A k \in entry \cup claim : UserExists(k[1]) /\ item[k[2]] # NoRow
    /\ \A k \in claim : item[k[2]] # NoRow => report[<<k[1], item[k[2]].project>>] # "none"
    /\ \A u \in Users, p \in Projects :
           report[<<u, p>>] # "none" => UserExists(u) /\ ProjectExists(p)
    /\ \A p \in Projects : period[p] # NoRow => ProjectExists(p) /\ UserExists(period[p].sender)
    /\ \A p \in Projects : invoice[p] # NoRow =>
           ProjectExists(p) /\ CustomerExists(invoice[p].customer)

\* invoices/models.py:80: the reference of an invoice line to its item is set to NULL when
\* the item goes, and nothing asks whether the invoice stands.  What was sent keeps it:
\* entries and locked claims stay as they are while the invoice stands, and refuse the
\* deletion.  Only a line of a report that came after the send, which no lock covers, can
\* lose its item.
SentLinesKept ==
    \A p \in Projects :
        invoice[p] # NoRow /\ invoice[p].status # "void" => invoice[p].sent \subseteq invoice[p].items

\* projects/models.py:119: items of one project are ordered by their positions, no two
\* of which are equal, whatever was deleted in between.
PositionsDistinct ==
    \A p \in Projects : \A i, j \in ItemsOf(p) : item[i].position = item[j].position => i = j
=============================================================================
