------------------------------- MODULE Expenses -------------------------------
(***************************************************************************)
(* The expenses module: one report per (user, project, month), its lines   *)
(* and the receipts attached to it, the submit / approve / return workflow *)
(* and the lock that the month's hand-off to billing puts on it.           *)
(*                                                                         *)
(* Only the owner writes a report (anyone else is told it does not exist), *)
(* so the actor of an owner's command is not a parameter.  A line carries  *)
(* its billing item, date, amount and wording as one value; the values the *)
(* module accepts at the moment (an item open to the user, a date of the   *)
(* month) are a parameter, since they are the projects module's answer.    *)
(***************************************************************************)
EXTENDS Naturals, FiniteSets

CONSTANTS
    Users,
    Managers,
    Projects,
    Months,
    Lines,          \* identities of expense_report_lines rows
    LineValues,     \* what a line can say
    Attachments,    \* identities of expense_attachments rows
    NoRow,          \* no such row
    NoLine          \* an attachment whose line_id is NULL

VARIABLES
    status,         \* expense_reports: the status of a report, "none" when no row
    locked,         \* the reports whose locked_at is set
    line,           \* expense_report_lines: [report, value] or NoRow
    attachment      \* expense_attachments: [report, line] or NoRow

vars == <<status, locked, line, attachment>>

-----------------------------------------------------------------------------
(* Rows *)

ExpenseReportStatus == {"draft", "submitted", "approved", "returned"}
EditableStatuses    == {"draft", "returned"}
ReviewableStatuses  == {"submitted", "approved"}

Reports == Users \X Projects \X Months

LineRow       == [report : Reports, value : LineValues]
AttachmentRow == [report : Reports, line : Lines \cup {NoLine}]

ASSUME ExpensesAssumption ==
    /\ NoLine \notin Lines
    /\ NoRow \notin LineRow
    /\ NoRow \notin AttachmentRow

TypeOK ==
    /\ status \in [Reports -> ExpenseReportStatus \cup {"none"}]
    /\ locked \subseteq Reports
    /\ line \in [Lines -> LineRow \cup {NoRow}]
    /\ attachment \in [Attachments -> AttachmentRow \cup {NoRow}]

Init ==
    /\ status = [r \in Reports |-> "none"]
    /\ locked = {}
    /\ line = [l \in Lines |-> NoRow]
    /\ attachment = [a \in Attachments |-> NoRow]

LinesOf(r)       == {l \in Lines : line[l] # NoRow /\ line[l].report = r}
AttachmentsOf(r) == {a \in Attachments : attachment[a] # NoRow /\ attachment[a].report = r}

\* ListProjectMonthExpenseReports: every report of the month, of any user.
MonthReports(p, m) == {r \in Reports : r[2] = p /\ r[3] = m /\ status[r] # "none"}
MonthStatuses(p, m) == {status[r] : r \in MonthReports(p, m)}

-----------------------------------------------------------------------------
(* The owner's commands *)

\* Mutant of Editable: only the lock is consulted.
Editable_Unlocked(r) == status[r] # "none" /\ r \notin locked

Editable(r) ==
    /\ status[r] \in EditableStatuses
    /\ r \notin locked

\* Mutant of OwnLine: any line that exists will do.
OwnLine_Any(r, l) == l \in {NoLine} \cup {x \in Lines : line[x] # NoRow}

\* _resolve_own_line, for an attachment's optional line.
OwnLine(r, l) == l = NoLine \/ l \in LinesOf(r)

\* isOpen: the project offers the user an open amount item.  A second report for
\* the same (user, project, month) breaks the table's unique constraint.
CreateReport(r, isOpen) ==
    /\ isOpen
    /\ status[r] = "none"
    /\ status' = [status EXCEPT ![r] = "draft"]
    /\ UNCHANGED <<locked, line, attachment>>

\* One batch: updates and additions map a line to its value, deletions may name
\* any line and skip those of another report.  A deleted line leaves its
\* attachments behind, unlinked (ON DELETE SET NULL).
SaveLines(r, updates, additions, deletions, valid) ==
    LET deleted == deletions \cap LinesOf(r) IN
    /\ Editable(r)
    /\ DOMAIN updates \subseteq LinesOf(r)
    /\ \A l \in DOMAIN additions : line[l] = NoRow
    /\ \A l \in DOMAIN updates : updates[l] \in valid
    /\ \A l \in DOMAIN additions : additions[l] \in valid
    /\ line' = [l \in Lines |->
         IF l \in deleted THEN NoRow
         ELSE IF l \in DOMAIN updates THEN [report |-> r, value |-> updates[l]]
         ELSE IF l \in DOMAIN additions THEN [report |-> r, value |-> additions[l]]
         ELSE line[l]]
    /\ attachment' = [a \in Attachments |->
         IF a \in AttachmentsOf(r) /\ attachment[a].line \in deleted
         THEN [report |-> r, line |-> NoLine]
         ELSE attachment[a]]
    /\ UNCHANGED <<status, locked>>

\* The rows go with the report (ON DELETE CASCADE); locked_at is not consulted.
DeleteReport(r) ==
    /\ status[r] = "draft"
    /\ status' = [status EXCEPT ![r] = "none"]
    /\ locked' = locked \ {r}
    /\ line' = [l \in Lines |-> IF l \in LinesOf(r) THEN NoRow ELSE line[l]]
    /\ attachment' = [a \in Attachments |-> IF a \in AttachmentsOf(r) THEN NoRow ELSE attachment[a]]

SubmitReport(r) ==
    /\ status[r] \in EditableStatuses
    /\ status' = [status EXCEPT ![r] = "submitted"]
    /\ UNCHANGED <<locked, line, attachment>>

AddAttachment(r, a, l) ==
    /\ Editable(r)
    /\ OwnLine(r, l)
    /\ attachment[a] = NoRow
    /\ attachment' = [attachment EXCEPT ![a] = [report |-> r, line |-> l]]
    /\ UNCHANGED <<status, locked, line>>

DeleteAttachment(r, a) ==
    /\ a \in AttachmentsOf(r)
    /\ Editable(r)
    /\ attachment' = [attachment EXCEPT ![a] = NoRow]
    /\ UNCHANGED <<status, locked, line>>

SetAttachmentLine(r, a, l) ==
    /\ a \in AttachmentsOf(r)
    /\ Editable(r)
    /\ OwnLine(r, l)
    /\ attachment' = [attachment EXCEPT ![a] = [report |-> r, line |-> l]]
    /\ UNCHANGED <<status, locked, line>>

-----------------------------------------------------------------------------
(* The reviewer's commands *)

ReviewAllowed(r, reviewer, selfReview) ==
    /\ reviewer \in Managers
    /\ reviewer = r[1] => selfReview

ApproveReport(r, reviewer, selfReview) ==
    /\ ReviewAllowed(r, reviewer, selfReview)
    /\ status[r] = "submitted"
    /\ status' = [status EXCEPT ![r] = "approved"]
    /\ UNCHANGED <<locked, line, attachment>>

\* Mutant of ReturnReport: the lock is not consulted.
ReturnReport_Locked(r, reviewer, selfReview) ==
    /\ ReviewAllowed(r, reviewer, selfReview)
    /\ status[r] \in ReviewableStatuses
    /\ status' = [status EXCEPT ![r] = "returned"]
    /\ UNCHANGED <<locked, line, attachment>>

ReturnReport(r, reviewer, selfReview) ==
    /\ ReviewAllowed(r, reviewer, selfReview)
    /\ status[r] \in ReviewableStatuses
    /\ r \notin locked
    /\ status' = [status EXCEPT ![r] = "returned"]
    /\ UNCHANGED <<locked, line, attachment>>

-----------------------------------------------------------------------------
(* The nested commands of the timesheets module *)

LockProjectMonth(p, m) ==
    /\ locked' = locked \cup MonthReports(p, m)
    /\ UNCHANGED <<status, line, attachment>>

UnlockProjectMonth(p, m) ==
    /\ locked' = locked \ MonthReports(p, m)
    /\ UNCHANGED <<status, line, attachment>>

-----------------------------------------------------------------------------
OwnerStep ==
    \E r \in Reports :
        \/ \E isOpen \in BOOLEAN : CreateReport(r, isOpen)
        \/ \E U, A, D \in SUBSET Lines, valid \in SUBSET LineValues :
             \E updates \in [U -> LineValues], additions \in [A -> LineValues] :
               SaveLines(r, updates, additions, D, valid)
        \/ DeleteReport(r)
        \/ SubmitReport(r)
        \/ \E a \in Attachments :
             \/ DeleteAttachment(r, a)
             \/ \E l \in Lines \cup {NoLine} :
                  AddAttachment(r, a, l) \/ SetAttachmentLine(r, a, l)

ReviewStep ==
    \E r \in Reports, reviewer \in Managers, selfReview \in BOOLEAN :
        \/ ApproveReport(r, reviewer, selfReview)
        \/ ReturnReport(r, reviewer, selfReview)

\* send_to_billing locks a month after billing_readiness found every report of
\* it approved, in the same transaction; reopen_period unlocks it.
BillingStep ==
    \E p \in Projects, m \in Months :
        \/ /\ MonthStatuses(p, m) \subseteq {"approved"}
           /\ LockProjectMonth(p, m)
        \/ UnlockProjectMonth(p, m)

Next == OwnerStep \/ ReviewStep \/ BillingStep

Spec == Init /\ [][Next]_vars

-----------------------------------------------------------------------------
(* Properties *)

\* "today a locked report is always `approved`" (expenses/service.py:520): the
\* lock is set on reports found approved, and no later command moves one out of
\* that status before it is unlocked.
LockedApproved == \A r \in locked : status[r] = "approved"

\* What the reviewer sees is what is approved and billed: from the submission of
\* a report until it is returned, no line, value, receipt or receipt-to-line link
\* of it changes, whichever report the command that might do it names.
Content(r) ==
    [lines       |-> [l \in LinesOf(r) |-> line[l].value],
     attachments |-> [a \in AttachmentsOf(r) |-> attachment[a].line]]

ReviewedContentFrozen ==
    [][\A r \in Reports :
         status[r] \in ReviewableStatuses /\ status'[r] # "returned" =>
            Content(r)' = Content(r)]_vars

\* A receipt linked to a line is linked to a line of its own report, and lines
\* and receipts belong to a report that exists: no delete order leaves a stray.
RowsOwned ==
    /\ \A l \in Lines : line[l] # NoRow => status[line[l].report] # "none"
    /\ \A a \in Attachments : attachment[a] # NoRow =>
         /\ status[attachment[a].report] # "none"
         /\ attachment[a].line \in LinesOf(attachment[a].report) \cup {NoLine}
=============================================================================
