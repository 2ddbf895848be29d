------------------------------ MODULE Timesheets ------------------------------
(***************************************************************************)
(* The timesheets module: the hours grid of a (user, ISO week), the        *)
(* submit / approve / return workflow of that week, and the hand-off of a  *)
(* (project, month) to billing that locks the hours it covers.             *)
(*                                                                         *)
(* The two clocks of the system meet here.  Review works by ISO week and   *)
(* over every project of the week; billing works by calendar month and by  *)
(* project.  A week that straddles a month end is where they disagree, so  *)
(* the calendar is a parameter: WeekOf and MonthOf may cut Days anywhere.  *)
(*                                                                         *)
(* A command is one database transaction run to its commit, so it is one   *)
(* action: a raise is a rollback, hence a disabled action.  What a command *)
(* learns from another module (the items open to the user, is_internal,    *)
(* allow_self_review, the month's expense reports) is a parameter of its   *)
(* action; TimeReporting supplies it from that module's own state.         *)
(***************************************************************************)
EXTENDS Naturals, FiniteSets, Functions

CONSTANTS
    Users,          \* whose time is reported
    Managers,       \* users holding the manager role, who may review
    Projects,
    Items,          \* hour and day billing items
    ProjectOf,      \* [Items -> Projects]
    HourItems,      \* the items whose unit is the hour
    Days,
    WeekOf,         \* [Days -> Weeks]
    MonthOf,        \* [Days -> Months]
    Weeks,
    Months,
    Quantities,     \* quantities a client may send
    MaxQuantity,    \* [Items -> Nat], 24 for an hour item and 1 for a day item
    MaxDailyHours,
    MaxBatch,       \* bound on the cells and comments of one SaveWeek
    Invoices,
    NotSent,        \* the period has no project_billing_periods row
    NoInvoice       \* it has one, whose invoice_id is NULL

ASSUME TimesheetsAssumption ==
    /\ ProjectOf \in [Items -> Projects]
    /\ HourItems \subseteq Items
    /\ IsFiniteSet(Items)
    /\ WeekOf \in [Days -> Weeks]
    /\ MonthOf \in [Days -> Months]
    /\ Quantities \subseteq Nat \ {0}
    /\ MaxQuantity \in [Items -> Nat]
    /\ MaxDailyHours \in Nat
    /\ NotSent # NoInvoice
    /\ NotSent \notin Invoices
    /\ NoInvoice \notin Invoices

VARIABLES
    entry,      \* time_entries: the quantity of a (user, item, day), 0 when no row
    week,       \* timesheet_weeks: the status of a (user, week), "draft" when no row
    comment,    \* timesheet_row_comments: the (user, week, item) that have one
    period      \* project_billing_periods: NotSent, or the invoice_id of the row

vars == <<entry, week, comment, period>>

-----------------------------------------------------------------------------
(* Rows and the calendar *)

TimesheetWeekStatus == {"draft", "submitted", "approved", "returned"}
EditableStatuses    == {"draft", "returned"}
ReviewableStatuses  == {"submitted", "approved"}

Cells     == Items \X Days
Periods   == Projects \X Months
CellsIn(w)  == {c \in Cells : WeekOf[c[2]] = w}
\* Mutant of MonthsIn: the month the week starts in.
MonthsIn_OfMonday(w) ==
    LET days == {d \in Days : WeekOf[d] = w}
    IN  {MonthOf[d] : d \in {x \in days : \A y \in days : x <= y}}

MonthsIn(w) == {MonthOf[d] : d \in {x \in Days : WeekOf[x] = w}}

TypeOK ==
    /\ entry \in [Users \X Items \X Days -> Nat]
    /\ week \in [Users \X Weeks -> TimesheetWeekStatus]
    /\ comment \subseteq Users \X Weeks \X Items
    /\ period \in [Periods -> Invoices \cup {NotSent, NoInvoice}]

Init ==
    /\ entry = [k \in Users \X Items \X Days |-> 0]
    /\ week = [k \in Users \X Weeks |-> "draft"]
    /\ comment = {}
    /\ period = [k \in Periods |-> NotSent]

Sent(p, m) == period[<<p, m>>] # NotSent

\* The billing periods of project p that overlap week w.
Overlapping(p, w) == {m \in MonthsIn(w) : Sent(p, m)}

\* sum_quantity_by_date: the hours of user u on day d under the entries e.
HoursOn(e, u, d) ==
    FoldFunction(+, 0, [i \in HourItems |-> e[<<u, i, d>>]])

-----------------------------------------------------------------------------
(* Editing: SaveTimesheetWeek and SubmitTimesheetWeek *)

Editable(u, w) == week[<<u, w>>] \in EditableStatuses

\* Mutant of NothingLocked: only the row comments are checked.
NothingLocked_CommentsOnly(w, changes, comments) ==
    \A i \in DOMAIN comments : Overlapping(ProjectOf[i], w) = {}

\* A client's batch: changes maps a cell to its new quantity (0 deletes the
\* entry), comments maps an item to whether its row comment has text.
NothingLocked(w, changes, comments) ==
    /\ \A c \in DOMAIN changes : ~Sent(ProjectOf[c[1]], MonthOf[c[2]])
    /\ \A i \in DOMAIN comments : Overlapping(ProjectOf[i], w) = {}

\* open: the items ListMemberProjectsWithBillingItems returns for u.
ItemsOpen(changes, comments, open) ==
    {c[1] : c \in DOMAIN changes} \cup DOMAIN comments \subseteq open

QuantitiesInRange(changes) ==
    \A c \in DOMAIN changes : changes[c] <= MaxQuantity[c[1]]

ApplyChanges(u, changes) ==
    entry' = [k \in Users \X Items \X Days |->
                IF k[1] = u /\ <<k[2], k[3]>> \in DOMAIN changes
                THEN changes[<<k[2], k[3]>>]
                ELSE entry[k]]

ApplyRowComments(u, w, comments) ==
    comment' = {k \in Users \X Weeks \X Items :
                  IF k[1] = u /\ k[2] = w /\ k[3] \in DOMAIN comments
                  THEN comments[k[3]]
                  ELSE k \in comment}

\* Mutant of DailyHoursInRange: the rows the batch leaves alone are forgotten.
DailyHoursInRange_OfBatch(u, changes) ==
    \A c \in DOMAIN changes : changes[c] <= MaxDailyHours

\* The total counts every hour entry of the day, the rows this batch leaves
\* alone included, and is read back after the batch has been written.
DailyHoursInRange(u, changes) ==
    \A c \in DOMAIN changes : HoursOn(entry', u, c[2]) <= MaxDailyHours

SaveWeek(u, w, changes, comments, open) ==
    /\ Editable(u, w)
    /\ DOMAIN changes \subseteq CellsIn(w)
    /\ ItemsOpen(changes, comments, open)
    /\ QuantitiesInRange(changes)
    /\ NothingLocked(w, changes, comments)
    /\ ApplyChanges(u, changes)
    /\ ApplyRowComments(u, w, comments)
    /\ DailyHoursInRange(u, changes)
    /\ UNCHANGED <<week, period>>

SubmitWeek(u, w) ==
    /\ Editable(u, w)
    /\ week' = [week EXCEPT ![<<u, w>>] = "submitted"]
    /\ UNCHANGED <<entry, comment, period>>

-----------------------------------------------------------------------------
(* Review: ApproveTimesheetWeek and ReturnTimesheetWeek *)

\* selfReview: company.allow_self_review.  r holds the manager role (ManagerDep).
ReviewAllowed(u, r, selfReview) ==
    /\ r \in Managers
    /\ r = u => selfReview

ApproveWeek(u, w, r, selfReview) ==
    /\ ReviewAllowed(u, r, selfReview)
    /\ week[<<u, w>>] = "submitted"
    /\ week' = [week EXCEPT ![<<u, w>>] = "approved"]
    /\ UNCHANGED <<entry, comment, period>>

\* The projects user u has an entry on in week w.
EntryProjects(u, w) ==
    {ProjectOf[c[1]] : c \in {x \in CellsIn(w) : entry[<<u, x[1], x[2]>>] > 0}}

\* _ensure_week_not_billed raises: the whole week is off limits as soon as one
\* of its projects has a sent period overlapping it, whichever days that covers.
WeekBilled(u, w) == \E p \in EntryProjects(u, w) : Overlapping(p, w) # {}

MayReturn(u, w) ==
    /\ week[<<u, w>>] \in ReviewableStatuses
    /\ ~WeekBilled(u, w)

ReturnWeek(u, w, r, selfReview) ==
    /\ ReviewAllowed(u, r, selfReview)
    /\ MayReturn(u, w)
    /\ week' = [week EXCEPT ![<<u, w>>] = "returned"]
    /\ UNCHANGED <<entry, comment, period>>

\* Mutant of RowProjects: the projects of the row comments alone.
RowProjects_Commented(u, w) ==
    {ProjectOf[k[3]] : k \in {x \in comment : x[1] = u /\ x[2] = w}}

\* The can_review flag get_week shows the viewer, which decides whether the page
\* offers any review action.  Its projects are those of the rows: of the entries
\* and of the row comments.
RowProjects(u, w) ==
    EntryProjects(u, w) \cup {ProjectOf[k[3]] : k \in {x \in comment : x[1] = u /\ x[2] = w}}

IsLocked(u, w) == \E p \in RowProjects(u, w) : Overlapping(p, w) # {}

CanReview(u, w, viewer, selfReview) ==
    /\ viewer \in Managers
    /\ week[<<u, w>>] \in ReviewableStatuses
    /\ viewer # u \/ selfReview
    /\ ~IsLocked(u, w)

-----------------------------------------------------------------------------
(* Billing: SendProjectMonthToBilling and its successors *)

\* scope_pairs: the (user, week) pairs with an entry of project p in month m.
ScopePairs(p, m) ==
    {<<k[1], WeekOf[k[3]]>> : k \in {x \in Users \X Items \X Days :
        ProjectOf[x[2]] = p /\ MonthOf[x[3]] = m /\ entry[x] > 0}}

\* billing_readiness.  reports: the set of statuses of the month's expense reports.
BillingReadiness(p, m, reports) ==
    IF /\ ScopePairs(p, m) # {} \/ reports # {}
       /\ \A s \in ScopePairs(p, m) : week[s] = "approved"
       /\ reports \subseteq {"approved"}
    THEN "ready"
    ELSE "not_ready"

SendToBilling(p, m, isInternal, reports) ==
    /\ ~isInternal
    /\ ~Sent(p, m)
    /\ BillingReadiness(p, m, reports) = "ready"
    /\ period' = [period EXCEPT ![<<p, m>>] = NoInvoice]
    /\ UNCHANGED <<entry, week, comment>>

\* Mutant of ReopenPeriod: an invoiced period may be reopened.
ReopenPeriod_Invoiced(p, m) ==
    /\ Sent(p, m)
    /\ period' = [period EXCEPT ![<<p, m>>] = NotSent]
    /\ UNCHANGED <<entry, week, comment>>

ReopenPeriod(p, m) ==
    /\ period[<<p, m>>] = NoInvoice
    /\ period' = [period EXCEPT ![<<p, m>>] = NotSent]
    /\ UNCHANGED <<entry, week, comment>>

\* MarkBillingPeriodsInvoiced: every period is checked before any is written.
MarkInvoiced(refs, invoice) ==
    /\ \A r \in refs : period[r] = NoInvoice
    /\ period' = [r \in Periods |-> IF r \in refs THEN invoice ELSE period[r]]
    /\ UNCHANGED <<entry, week, comment>>

ClearInvoiced(invoice) ==
    /\ period' = [r \in Periods |-> IF period[r] = invoice THEN NoInvoice ELSE period[r]]
    /\ UNCHANGED <<entry, week, comment>>

-----------------------------------------------------------------------------
(* Next: every command, with every answer another module could give it *)

\* The partial functions from S to T defined on n points at most.
PartialFunctions(S, T, n) ==
    UNION {[D -> T] : D \in {X \in SUBSET S : Cardinality(X) <= n}}

EditStep ==
    \E u \in Users, w \in Weeks :
        \/ \E changes \in PartialFunctions(CellsIn(w), Quantities \cup {0}, MaxBatch),
              comments \in PartialFunctions(Items, BOOLEAN, MaxBatch),
              open \in SUBSET Items :
             SaveWeek(u, w, changes, comments, open)
        \/ SubmitWeek(u, w)

ReviewStep ==
    \E u \in Users, w \in Weeks, r \in Managers, selfReview \in BOOLEAN :
        \/ ApproveWeek(u, w, r, selfReview)
        \/ ReturnWeek(u, w, r, selfReview)

BillingStep ==
    \/ \E p \in Projects, m \in Months :
         \/ \E isInternal \in BOOLEAN,
               reports \in SUBSET {"draft", "submitted", "approved", "returned"} :
              SendToBilling(p, m, isInternal, reports)
         \/ ReopenPeriod(p, m)
    \/ \E invoice \in Invoices :
         \/ \E refs \in SUBSET Periods : MarkInvoiced(refs, invoice)
         \/ ClearInvoiced(invoice)

Next == EditStep \/ ReviewStep \/ BillingStep

Spec == Init /\ [][Next]_vars

-----------------------------------------------------------------------------
(* Properties *)

\* Whatever was handed to billing has been reviewed: as long as a (project,
\* month) is sent, every week with an entry of it in that month is approved.
\* The check runs once, at the send; SaveWeek, ReturnWeek and the week / month
\* overlap have to preserve it from then on.
SentWeeksApproved ==
    \A p \in Projects, m \in Months :
        Sent(p, m) => \A s \in ScopePairs(p, m) : week[s] = "approved"

\* No step changes an hour of a month that is sent, nor a row comment of a week
\* it overlaps, before the period is reopened: the export and the invoice are
\* read from these rows long after the send.
BilledHoursKept(p, m) ==
    /\ \A u \in Users, i \in Items, d \in Days :
         ProjectOf[i] = p /\ MonthOf[d] = m => entry'[<<u, i, d>>] = entry[<<u, i, d>>]
    /\ \A u \in Users, w \in Weeks, i \in Items :
         ProjectOf[i] = p /\ m \in MonthsIn(w) =>
            (<<u, w, i>> \in comment' <=> <<u, w, i>> \in comment)

BilledHoursFrozen ==
    [][\A p \in Projects, m \in Months :
         Sent(p, m) /\ Sent(p, m)' => BilledHoursKept(p, m)]_vars

\* No day of a user exceeds the cap, whichever weeks and batches its rows came in.
DailyHoursCapped ==
    \A u \in Users, d \in Days : HoursOn(entry, u, d) <= MaxDailyHours

\* A return that can_review offers is never refused by _ensure_week_not_billed:
\* the page and the command compute the lock from different queries.
OfferedReturnAccepted ==
    \A u \in Users, w \in Weeks, viewer \in Managers, selfReview \in BOOLEAN :
        CanReview(u, w, viewer, selfReview) =>
            ReviewAllowed(u, viewer, selfReview) /\ MayReturn(u, w)

\* The timesheets module is a billing ledger: seen from billing, hours move only
\* in periods that are not sent, and a period leaves an invoice only when that
\* invoice lets go of it, before any reopening.
PeriodHours(p, m) ==
    [k \in {x \in Users \X Items \X Days : ProjectOf[x[2]] = p /\ MonthOf[x[3]] = m} |-> entry[k]]

Ledger == INSTANCE BillingLedger
            WITH holder <- period, hours <- [r \in Periods |-> PeriodHours(r[1], r[2])]

ImplementsLedger == Ledger!Spec
=============================================================================
