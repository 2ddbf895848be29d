---------------------------- MODULE BillingRequests ----------------------------
(***************************************************************************)
(* One project-month under review and on its way to an invoice, as the     *)
(* database runs the commands on it: READ COMMITTED transactions that read *)
(* in a few statements, write in later ones, and lock nothing in between.  *)
(*                                                                         *)
(* Timesheets, Expenses and TimeReporting take a command for one step.     *)
(* Here it is the reads it decides by, each a step, and its writes, which  *)
(* become visible together when it commits.  An UPDATE or DELETE names its *)
(* row by id and does not look at the row's other columns again.           *)
(*                                                                         *)
(* The weeks lie within the month, and its reports have been created.      *)
(***************************************************************************)
EXTENDS Naturals

CONSTANTS
    Connections,    \* each runs one command after the other
    Weeks,          \* of the users who may book on the project
    Reports,
    MaxHours,       \* bound on a week's hours on the project
    MaxSent,        \* bound on the times the month is sent
    None            \* a hand-off names neither week nor report

ASSUME BillingRequestsAssumption ==
    /\ MaxHours \in Nat
    /\ MaxSent \in Nat
    /\ Weeks \cap Reports = {}

VARIABLES
    hours,          \* committed: a week's hours on the project
    week,           \* committed: a week's status
    report,         \* committed: a report's status
    locked,         \* committed: the reports whose locked_at is set
    period,         \* committed: the project_billing_periods row, 0 for none
    invoiced,       \* committed: its invoice_id is set
    link,           \* committed: the invoice_billing_periods row exists
    billed,         \* committed: the hours on the invoice's lines
    request,        \* per connection: its transaction, and what that has read
    sent,           \* history: how often the month was sent
    handed,         \* history: the hours it was sent with
    stale,          \* history: transactions that read what was there before
    overtaken       \* history: one of them has committed

reviewed == <<hours, week, report>>
handoff  == <<locked, period, invoiced, link, billed, sent, handed>>
history  == <<stale, overtaken>>
vars     == <<reviewed, handoff, request, history>>

-----------------------------------------------------------------------------
Status     == {"draft", "submitted", "approved", "returned"}
Editable   == {"draft", "returned"}
Reviewable == {"submitted", "approved"}

Handoffs == {"send", "reopen", "invoice"}
Commands == {"save", "submit", "approve", "return"} \cup Handoffs

Booked  == [Weeks -> 0..MaxHours]
NoHours == [w \in Weeks |-> 0]

Request == [at    : {"idle", "reading", "checked"},
            do    : Commands \cup {"none"},
            of    : Weeks \cup Reports \cup {None},
            scope : SUBSET Weeks,       \* the weeks found with hours
            row   : 0..MaxSent,         \* the period found
            lines : Booked]             \* the hours found

Idle == [at |-> "idle", do |-> "none", of |-> None,
         scope |-> {}, row |-> 0, lines |-> NoHours]

Running == {c \in Connections : request[c].at # "idle"}

TypeOK ==
    /\ hours \in Booked
    /\ week \in [Weeks -> Status]
    /\ report \in [Reports -> Status]
    /\ locked \subseteq Reports
    /\ period \in 0..MaxSent
    /\ invoiced \in BOOLEAN
    /\ link \in BOOLEAN
    /\ billed \in Booked
    /\ request \in [Connections -> Request]
    /\ sent \in 0..MaxSent
    /\ handed \in Booked
    /\ stale \subseteq Connections
    /\ overtaken \in BOOLEAN

Init ==
    /\ hours = NoHours
    /\ week = [w \in Weeks |-> "draft"]
    /\ report = [r \in Reports |-> "draft"]
    /\ locked = {}
    /\ period = 0
    /\ invoiced = FALSE
    /\ link = FALSE
    /\ billed = NoHours
    /\ request = [c \in Connections |-> Idle]
    /\ sent = 0
    /\ handed = NoHours
    /\ stale = {}
    /\ overtaken = FALSE

-----------------------------------------------------------------------------
(* A transaction's steps *)

Sent   == period # 0
Scope  == {w \in Weeks : hours[w] > 0}

Is(c, at, do) == request[c].at = at /\ request[c].do = do
Of(c) == request[c].of

\* Its first read has let it go on.
Begin(c, read) ==
    /\ request[c] = Idle
    /\ request' = [request EXCEPT ![c] = read]
    /\ UNCHANGED <<reviewed, handoff, history>>

\* So has its second.
Confirm(c, read) ==
    /\ request' = [request EXCEPT ![c] = read]
    /\ UNCHANGED <<reviewed, handoff, history>>

\* It raises, is cancelled, or dies with the server.
Rollback(c) ==
    /\ c \in Running
    /\ request' = [request EXCEPT ![c] = Idle]
    /\ stale' = stale \ {c}
    /\ UNCHANGED <<reviewed, handoff, overtaken>>

\* It commits: a hand-off makes stale whatever the others have read, a review what a
\* hand-off has.
Commit(c) ==
    /\ request' = [request EXCEPT ![c] = Idle]
    /\ stale' = (stale \cup {d \in Running : request[c].do \in Handoffs
                                             \/ request[d].do \in Handoffs}) \ {c}
    /\ overtaken' = (overtaken \/ c \in stale)

-----------------------------------------------------------------------------
(* Weeks: SaveTimesheetWeek, and the three commands of the review *)

ReadWeek(c, w) ==
    \/ /\ week[w] \in Editable
       /\ \/ Begin(c, [Idle EXCEPT !.at = "reading", !.do = "save", !.of = w])
          \/ Begin(c, [Idle EXCEPT !.at = "checked", !.do = "submit", !.of = w])
    \/ /\ week[w] = "submitted"
       /\ Begin(c, [Idle EXCEPT !.at = "checked", !.do = "approve", !.of = w])
    \/ /\ week[w] \in Reviewable
       /\ Begin(c, [Idle EXCEPT !.at = "reading", !.do = "return", !.of = w])

\* Mutant of ReadPeriod: a return looks at the week alone.
ReadPeriod_SaveOnly(c) ==
    /\ \/ Is(c, "reading", "save") /\ ~ Sent
       \/ Is(c, "reading", "return")
    /\ Confirm(c, [request[c] EXCEPT !.at = "checked"])

\* _ensure_not_locked of a save, _ensure_week_not_billed of a return.
ReadPeriod(c) ==
    /\ \/ Is(c, "reading", "save") /\ ~ Sent
       \/ Is(c, "reading", "return") /\ (Sent => Of(c) \notin Scope)
    /\ Confirm(c, [request[c] EXCEPT !.at = "checked"])

SaveWeek(c) ==
    /\ Is(c, "checked", "save")
    /\ \E n \in 0..MaxHours : hours' = [hours EXCEPT ![Of(c)] = n]
    /\ Commit(c)
    /\ UNCHANGED <<week, report, handoff>>

Outcome(do) == IF do = "submit" THEN "submitted"
               ELSE IF do = "approve" THEN "approved" ELSE "returned"

ReviewWeek(c) ==
    /\ request[c].at = "checked"
    /\ request[c].do \in {"submit", "approve", "return"}
    /\ Of(c) \in Weeks
    /\ week' = [week EXCEPT ![Of(c)] = Outcome(request[c].do)]
    /\ Commit(c)
    /\ UNCHANGED <<hours, report, handoff>>

-----------------------------------------------------------------------------
(* Reports: one SELECT returns the status and locked_at *)

ReadReport(c, r) ==
    \/ /\ report[r] \in Editable
       /\ Begin(c, [Idle EXCEPT !.at = "checked", !.do = "submit", !.of = r])
    \/ /\ report[r] = "submitted"
       /\ Begin(c, [Idle EXCEPT !.at = "checked", !.do = "approve", !.of = r])
    \/ /\ report[r] \in Reviewable
       /\ r \notin locked
       /\ Begin(c, [Idle EXCEPT !.at = "checked", !.do = "return", !.of = r])

ReviewReport(c) ==
    /\ request[c].at = "checked"
    /\ request[c].do \in {"submit", "approve", "return"}
    /\ Of(c) \in Reports
    /\ report' = [report EXCEPT ![Of(c)] = Outcome(request[c].do)]
    /\ Commit(c)
    /\ UNCHANGED <<hours, week, handoff>>

-----------------------------------------------------------------------------
(* SendProjectMonthToBilling *)

ReadEntries(c) ==
    /\ ~ Sent
    /\ sent < MaxSent
    /\ Begin(c, [Idle EXCEPT !.at = "reading", !.do = "send", !.scope = Scope])

\* billing_readiness, over the weeks found with hours.
ReadReadiness(c) ==
    /\ Is(c, "reading", "send")
    /\ request[c].scope # {} \/ Reports # {}
    /\ \A w \in request[c].scope : week[w] = "approved"
    /\ \A r \in Reports : report[r] = "approved"
    /\ Confirm(c, [request[c] EXCEPT !.at = "checked"])

\* The period is unique; every report is locked, whatever its status is by now.
SendToBilling(c) ==
    /\ Is(c, "checked", "send")
    /\ ~ Sent
    /\ sent < MaxSent
    /\ sent' = sent + 1
    /\ period' = sent + 1
    /\ invoiced' = FALSE
    /\ locked' = Reports
    /\ handed' = hours
    /\ Commit(c)
    /\ UNCHANGED <<reviewed, link, billed>>

-----------------------------------------------------------------------------
(* ReopenProjectBillingPeriod *)

ReadFreePeriod(c) ==
    /\ Sent
    /\ ~ invoiced
    /\ Begin(c, [Idle EXCEPT !.at = "checked", !.do = "reopen", !.row = period])

\* A period that is gone by now is no error; the reports are those of the month.
ReopenPeriod(c) ==
    /\ Is(c, "checked", "reopen")
    /\ IF period = request[c].row
       THEN period' = 0 /\ invoiced' = FALSE
       ELSE UNCHANGED <<period, invoiced>>
    /\ locked' = {}
    /\ Commit(c)
    /\ UNCHANGED <<reviewed, link, billed, sent, handed>>

-----------------------------------------------------------------------------
(* CreateInvoiceDraft *)

ReadEligibility(c) ==
    /\ Sent
    /\ ~ invoiced
    /\ Begin(c, [Idle EXCEPT !.at = "reading", !.do = "invoice"])

ReadExportRows(c) ==
    /\ Is(c, "reading", "invoice")
    /\ Sent
    /\ Confirm(c, [request[c] EXCEPT !.at = "checked", !.lines = hours])

\* The link is unique, and mark_invoiced reads the period again.
CreateDraft(c) ==
    /\ Is(c, "checked", "invoice")
    /\ ~ link
    /\ Sent
    /\ ~ invoiced
    /\ link' = TRUE
    /\ invoiced' = TRUE
    /\ billed' = request[c].lines
    /\ Commit(c)
    /\ UNCHANGED <<reviewed, locked, period, sent, handed>>

-----------------------------------------------------------------------------
Review(c) ==
    \/ \E w \in Weeks : ReadWeek(c, w)
    \/ \E r \in Reports : ReadReport(c, r)
    \/ ReadPeriod(c) \/ SaveWeek(c) \/ ReviewWeek(c) \/ ReviewReport(c)

HandOff(c) ==
    \/ ReadEntries(c) \/ ReadReadiness(c) \/ SendToBilling(c)
    \/ ReadFreePeriod(c) \/ ReopenPeriod(c)
    \/ ReadEligibility(c) \/ ReadExportRows(c) \/ CreateDraft(c)

Next == \E c \in Connections : Review(c) \/ HandOff(c) \/ Rollback(c)

Spec == Init /\ [][Next]_vars

-----------------------------------------------------------------------------
(* Properties *)

\* timesheets/models.py:110: a sent month is locked, and service.py:330: a return must
\* not "un-approve hours already handed off".  As long as the month is sent, it has the
\* hours it was sent with, each week that has any is approved, each report approved and
\* locked; and an invoice bills a month that is sent, names it, and has its hours.
HandedOffSettled ==
    /\ Sent => /\ hours = handed
               /\ \A w \in Scope : week[w] = "approved"
               /\ \A r \in Reports : report[r] = "approved" /\ r \in locked
    /\ link => Sent /\ invoiced /\ billed = hours

\* The reads of every command are enough when nobody comes in between: what unsettles a
\* month is a commit overtaken by a hand-off, or a hand-off overtaken by a commit, and
\* no mere overlap of saves and reviews.
UnsettledOvertaken == overtaken \/ HandedOffSettled
=============================================================================
