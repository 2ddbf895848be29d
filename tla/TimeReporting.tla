----------------------------- MODULE TimeReporting -----------------------------
(***************************************************************************)
(* The application: timesheets, expenses and invoices sharing one database *)
(* and calling each other through the bus.  A command that nests others    *)
(* commits once, with the outermost one (core/cqrs.py), so the nested      *)
(* actions are conjoined into one step; the answers that Timesheets,       *)
(* Expenses and Invoices take as parameters come from each other's state   *)
(* and from the two settings they share, a project's is_internal and the   *)
(* company's allow_self_review, which their owners may change at any time. *)
(***************************************************************************)
EXTENDS Naturals, FiniteSets, Functions

CONSTANTS
    Users, Managers, Projects, Items, ProjectOf, HourItems,
    Days, WeekOf, MonthOf, Weeks, Months,
    Quantities, MaxQuantity, MaxDailyHours, MaxBatch,
    NotSent, NoInvoice,
    Lines, LineValues, NoRow, NoLine,
    Invoices, ManualLines, TypedAmounts, Parties, NoParties, NoPdf, NoNumber, MaxNumber,
    CustomerOf,     \* [Projects -> Customers]
    Customers,
    ReportMonths,   \* bound on the months with expense reports, a subset of Months
    UnitRate        \* [Items -> Nat], the price of an hour or a day of an item

VARIABLES
    entry, week, comment, period,                   \* timesheets
    report, locked, expense, attachment,            \* expenses
    invoice, number, invoiceLine, total,            \* invoices
    snapshot, pdf, link, nextNumber, resumed,
    internal,                                       \* projects: the internal ones
    selfReview                                      \* company: allow_self_review

timesheetVars == <<entry, week, comment, period>>
expenseVars   == <<report, locked, expense, attachment>>
invoiceVars   == <<invoice, number, invoiceLine, total, snapshot, pdf, link, nextNumber, resumed>>
settingVars   == <<internal, selfReview>>
vars          == <<timesheetVars, expenseVars, invoiceVars, settingVars>>

T == INSTANCE Timesheets

E == INSTANCE Expenses
       WITH status <- report, line <- expense, Attachments <- {}, Months <- ReportMonths

TimeOrigins(r)    == {<<"time", r, i>> : i \in {x \in Items : ProjectOf[x] = r[1]}}
ExpenseOrigins(r) == {<<"expense", r, l>> : l \in Lines}

I == INSTANCE Invoices
       WITH status <- invoice, lines <- invoiceLine,
            Periods <- Projects \X Months,
            Generated <- [r \in Projects \X Months |-> TimeOrigins(r) \cup ExpenseOrigins(r)],
            Amounts <- Nat

ASSUME TimeReportingAssumption ==
    /\ NotSent # NoInvoice
    /\ {NotSent, NoInvoice} \cap Invoices = {}
    /\ ReportMonths \subseteq Months
    /\ LineValues \subseteq Nat
    /\ TypedAmounts \subseteq Nat
    /\ NoLine \notin Nat
    /\ CustomerOf \in [Projects -> Customers]
    /\ UnitRate \in [Items -> Nat]

Init ==
    /\ T!Init
    /\ E!Init
    /\ I!Init
    /\ internal \in SUBSET Projects
    /\ selfReview \in BOOLEAN

-----------------------------------------------------------------------------
(* What the modules ask each other *)

\* get_export_rows, summed per billing item as _generate_lines does for time.
\* Of the month's expense reports only the approved ones have rows.
Quantity(r, i) ==
    FoldFunctionOnSet(+, 0, entry,
        {k \in Users \X Items \X Days : k[2] = i /\ MonthOf[k[3]] = r[2]})

ExportedExpenses(r) ==
    {l \in Lines : /\ expense[l] # NoRow
                   /\ expense[l].report \in E!MonthReports(r[1], r[2])
                   /\ report[expense[l].report] = "approved"}

GeneratedOrigins(r) ==
    {o \in TimeOrigins(r) : Quantity(r, o[3]) > 0}
        \cup {o \in ExpenseOrigins(r) : o[3] \in ExportedExpenses(r)}

GeneratedLines(refs) ==
    [o \in UNION {GeneratedOrigins(r) : r \in refs} |->
        IF o[1] = "time" THEN Quantity(o[2], o[3]) * UnitRate[o[3]] ELSE expense[o[3]].value]

\* The periods create_draft accepts for a customer.
Invoiceable(customer) ==
    {r \in Projects \X Months : /\ CustomerOf[r[1]] = customer
                                /\ r[1] \notin internal
                                /\ period[r] = NoInvoice}

-----------------------------------------------------------------------------
(* Commands of one module *)

SaveWeek ==
    /\ \E u \in Users, w \in Weeks,
          changes \in T!PartialFunctions(T!Cells, Quantities \cup {0}, MaxBatch),
          comments \in T!PartialFunctions(Items, BOOLEAN, MaxBatch) :
         T!SaveWeek(u, w, changes, comments, Items)
    /\ UNCHANGED <<expenseVars, invoiceVars, settingVars>>

ReviewWeek ==
    /\ \E u \in Users, w \in Weeks :
         \/ T!SubmitWeek(u, w)
         \/ \E r \in Managers : T!ApproveWeek(u, w, r, selfReview)
         \/ \E r \in Managers : T!ReturnWeek(u, w, r, selfReview)
    /\ UNCHANGED <<expenseVars, invoiceVars, settingVars>>

WriteReport ==
    /\ \E r \in E!Reports :
         \/ E!CreateReport(r, TRUE)
         \/ \E U, A \in SUBSET Lines, deletions \in SUBSET Lines :
              \E updates \in [U -> LineValues], additions \in [A -> LineValues] :
                E!SaveLines(r, updates, additions, deletions, LineValues)
         \/ E!DeleteReport(r)
    /\ UNCHANGED <<timesheetVars, invoiceVars, settingVars>>

ReviewReport ==
    /\ \E r \in E!Reports :
         \/ E!SubmitReport(r)
         \/ \E m \in Managers : E!ApproveReport(r, m, selfReview)
         \/ \E m \in Managers : E!ReturnReport(r, m, selfReview)
    /\ UNCHANGED <<timesheetVars, invoiceVars, settingVars>>

EditInvoice ==
    /\ \E i \in Invoices :
         \/ \E typed \in I!PartialFunctions(I!Origins, TypedAmounts), deletions \in SUBSET I!Origins :
              I!UpdateDraft(i, typed, deletions)
         \/ \E parties \in Parties : I!IssueInvoice(i, parties)
         \/ I!MarkPaid(i)
    /\ UNCHANGED <<timesheetVars, expenseVars, settingVars>>

\* update_project writes is_internal whatever has been sent of the project.
UpdateProject(p) ==
    /\ internal' \in {internal \cup {p}, internal \ {p}}
    /\ UNCHANGED <<timesheetVars, expenseVars, invoiceVars, selfReview>>

UpdateCompanySettings ==
    /\ selfReview' \in BOOLEAN
    /\ \E next \in I!Numbers : I!SaveSettings(next)
    /\ UNCHANGED <<timesheetVars, expenseVars, internal>>

-----------------------------------------------------------------------------
(* Commands that nest commands of other modules *)

\* Mutant of SendProjectMonthToBilling: the expense reports are not asked about.
SendProjectMonthToBilling_HoursOnly(p, m) ==
    /\ T!SendToBilling(p, m, p \in internal, {})
    /\ E!LockProjectMonth(p, m)
    /\ UNCHANGED <<invoiceVars, settingVars>>

SendProjectMonthToBilling(p, m) ==
    /\ T!SendToBilling(p, m, p \in internal, E!MonthStatuses(p, m))
    /\ E!LockProjectMonth(p, m)
    /\ UNCHANGED <<invoiceVars, settingVars>>

\* Mutant of ReopenProjectBillingPeriod: the expense reports stay locked.
ReopenProjectBillingPeriod_KeepsLocks(p, m) ==
    /\ T!ReopenPeriod(p, m)
    /\ UNCHANGED <<expenseVars, invoiceVars, settingVars>>

ReopenProjectBillingPeriod(p, m) ==
    /\ T!ReopenPeriod(p, m)
    /\ E!UnlockProjectMonth(p, m)
    /\ UNCHANGED <<invoiceVars, settingVars>>

CreateInvoiceDraft(i, customer, refs) ==
    /\ I!CreateDraft(i, refs, Invoiceable(customer), GeneratedLines(refs), TRUE)
    /\ T!MarkInvoiced(refs, i)
    /\ UNCHANGED <<expenseVars, settingVars>>

\* Mutant of DeleteInvoiceDraft: the period rows go with the invoice they name
\* (ON DELETE CASCADE for SET NULL).
DeleteInvoiceDraft_Cascade(i) ==
    /\ I!DeleteDraft(i)
    /\ period' = [r \in Projects \X Months |-> IF period[r] = i THEN NotSent ELSE period[r]]
    /\ UNCHANGED <<entry, week, comment, expenseVars, settingVars>>

DeleteInvoiceDraft(i) ==
    /\ I!DeleteDraft(i)
    /\ T!ClearInvoiced(i)
    /\ UNCHANGED <<expenseVars, settingVars>>

\* Mutant of VoidInvoice: the timesheets module is not told.
VoidInvoice_KeepsPeriods(i) ==
    /\ I!VoidInvoice(i)
    /\ UNCHANGED <<timesheetVars, expenseVars, settingVars>>

VoidInvoice(i) ==
    /\ I!VoidInvoice(i)
    /\ T!ClearInvoiced(i)
    /\ UNCHANGED <<expenseVars, settingVars>>

-----------------------------------------------------------------------------
Next ==
    \/ SaveWeek
    \/ ReviewWeek
    \/ WriteReport
    \/ ReviewReport
    \/ EditInvoice
    \/ UpdateCompanySettings
    \/ \E p \in Projects :
         \/ UpdateProject(p)
         \/ \E m \in Months :
              SendProjectMonthToBilling(p, m) \/ ReopenProjectBillingPeriod(p, m)
    \/ \E i \in Invoices :
         \/ \E customer \in Customers, refs \in SUBSET (Projects \X Months) :
              CreateInvoiceDraft(i, customer, refs)
         \/ DeleteInvoiceDraft(i)
         \/ VoidInvoice(i)

Spec == Init /\ [][Next]_vars

-----------------------------------------------------------------------------
(* Properties *)

Live(i) == invoice[i] \in {"draft", "issued", "paid"}

\* The two records of what an invoice covers agree: a period's invoice_id names
\* the invoice exactly when that invoice is neither deleted nor void and its own
\* rows name the period.
HoldersAgree ==
    \A r \in Projects \X Months, i \in Invoices :
        period[r] = i <=> Live(i) /\ <<i, r>> \in link

\* An invoice never goes out of step with the work it bills: as long as it
\* stands, each line the accountant has not retyped is what it was generated
\* from: the hours in the period now, or the expense line of a locked report as
\* its row is now.
Untyped(i, o) == invoiceLine[i][o] \in Nat \ TypedAmounts

LockedExpenses(r) ==
    {l \in Lines : /\ expense[l] # NoRow
                   /\ expense[l].report \in locked \cap E!MonthReports(r[1], r[2])}

InvoiceMatchesPeriods ==
    \A i \in Invoices : Live(i) =>
        \A r \in I!Covered(i) :
            \A o \in TimeOrigins(r) \cup {x \in ExpenseOrigins(r) : x[3] \in LockedExpenses(r)} :
                Untyped(i, o) => /\ o \in GeneratedOrigins(r)
                                 /\ invoiceLine[i][o] = GeneratedLines({r})[o]

\* A locked expense report is approved and its project's month is sent: no order
\* of send, reopen, review and deletion leaves a lock behind.
LocksFollowPeriods ==
    \A r \in locked : report[r] = "approved" /\ T!Sent(r[2], r[3])

\* Each module's own specification still holds under its callers: whatever
\* Timesheets and Expenses prove of themselves, with every answer and every nested
\* command they allow for, is true of the application.  In particular a month is
\* locked only when every expense report of it is approved.
ImplementsTimesheets == T!Spec
ImplementsExpenses   == E!Spec
=============================================================================
