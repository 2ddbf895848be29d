-------------------------------- MODULE DemoData --------------------------------
(***************************************************************************)
(* seed-demo: a script of commands, each committed on its own, that may be *)
(* killed after any of them and run again, in the same month or a later    *)
(* one, by somebody who may have changed what it finds.                    *)
(*                                                                         *)
(* The script is a sequence of loops over the demo records; what a run     *)
(* finds of a record decides whether the further commands it calls for,    *)
(* its steps, are made.  A month's working days are one week; the rates of *)
(* a project's items, and the lines of a report, are one command.          *)
(***************************************************************************)
EXTENDS Naturals, Sequences, FiniteSets, Functions

CONSTANTS
    FirstMonth,     \* the month of the first run; earlier ones are numbered from 1
    LastMonth,      \* bound on the months that go by
    MaxDisturbed,   \* bound on the kills and changes
    Absent          \* no such record

Months == 1..LastMonth

\* DEMO_TIME_ENTRY_MONTHS
BookedMonths == 3

VARIABLES
    month,          \* today
    calendar,       \* "empty", "imported" or with its "bridge" day
    profile,        \* the company's: "placeholder", "demo" or "custom" without a number
    users,
    customer,       \* Absent, "active" or "archived"
    project,        \* Absent, or its members, whether it has rates, and whether it is active
    week,           \* per user and month: Absent, or the project booked and the week's status
    claim,          \* per user, project and month: Absent or the report's status
    period,         \* per month of InvoiceProject: Absent, "sent", "drafted" or "issued"
    loop,           \* where the run is: in which loop,
    nth,            \* at which of its records,
    step,           \* and at which of the steps that record calls for; 0: not yet looked at
    outcome,        \* of the last run
    before,         \* history: what was there when it began
    disturbed,      \* history: how often a run was killed, or something changed between two
    settled         \* history: a run has ended, and nothing has been disturbed since

records  == <<calendar, profile, users, customer, project>>
bookings == <<week, claim, period>>
history  == <<before, disturbed, settled>>
place    == <<loop, nth, step>>
dvars    == <<month, records, bookings, place, outcome, history>>

-----------------------------------------------------------------------------
(* The demo records *)

DemoUsers == <<"admin", "manager", "employee", "accountant", "lead">>
Managers  == {"manager", "lead"}
Users     == Range(DemoUsers)

DemoCustomers == <<"Acme", "Globex", "Initech">>
Archived      == {"Initech"}
Customers     == Range(DemoCustomers)

DemoProjects == <<"Website", "Tooling", "Overhead", "Platform", "Legacy">>
Projects     == Range(DemoProjects)
CustomerOf == [p \in Projects |->
    CASE p = "Platform" -> "Globex" [] p = "Legacy" -> "Initech" [] OTHER -> "Acme"]
Members == [p \in Projects |->
    CASE p = "Website"  -> <<"manager", "employee", "lead">>
      [] p = "Tooling"  -> <<"employee", "accountant">>
      [] p = "Overhead" -> <<"accountant">>
      [] p = "Platform" -> <<"manager">>
      [] p = "Legacy"   -> <<"employee">>]
Rated  == Projects \ {"Overhead"}
Closed == {"Legacy"}

\* The first rated project that is neither internal nor archived.
InvoiceProject == "Website"

\* Options come ordered by the project's name.
ByName == <<"Overhead", "Tooling", "Legacy", "Platform", "Website">>
FirstByName(S) ==
    ByName[CHOOSE i \in DOMAIN ByName :
               ByName[i] \in S /\ \A j \in 1..i - 1 : ByName[j] \notin S]

Options(u) == {p \in Projects :
    project[p] # Absent /\ project[p].active /\ u \in project[p].members}

FirstOption(u)  == FirstByName(Options(u))
SecondOption(u) == FirstByName(Options(u) \ {FirstOption(u)})

\* _reviewer_id: a manager other than the owner.
HasReviewer(u) == Managers \ {u} # {}

Week    == [project : Projects, status : {"draft", "submitted", "approved"}]
Project == [members : SUBSET Users, rated : BOOLEAN, active : BOOLEAN]

ASSUME DemoDataAssumption ==
    /\ FirstMonth \in Nat /\ LastMonth \in Nat /\ MaxDisturbed \in Nat
    /\ BookedMonths <= FirstMonth /\ FirstMonth <= LastMonth
    /\ Absent \notin Week \cup Project
    /\ Absent \notin {"active", "archived", "draft", "submitted", "approved",
                     "sent", "drafted", "issued"}

InitDemo ==
    /\ month = FirstMonth
    /\ calendar = "empty"
    /\ profile = "placeholder"
    /\ users = {}
    /\ customer = [c \in Customers |-> Absent]
    /\ project = [p \in Projects |-> Absent]
    /\ week = [k \in Users \X Months |-> Absent]
    /\ claim = [k \in Users \X Projects \X Months |-> Absent]
    /\ period = [m \in Months |-> Absent]
    /\ loop = 1 /\ nth = 1 /\ step = 0
    /\ outcome = "none"
    /\ before = [projects |-> {}, booked |-> {}]
    /\ disturbed = 0
    /\ settled = FALSE

-----------------------------------------------------------------------------
(* The script *)

\* One record stands for the commands that are made once.
Once == <<"once">>

Loops == <<"holidays", "bridge", "profile", "user", "customer", "project",
           "archive", "hours", "expenses", "send", "draft">>
Over  == <<Once, Once, Once, DemoUsers, DemoCustomers, DemoProjects,
           DemoCustomers, DemoUsers, DemoUsers, Once, Once>>

At(do)    == outcome = "running" /\ loop \in DOMAIN Loops /\ Loops[loop] = do
Doing(do) == At(do) /\ step = 0
Of        == Over[loop][nth]

\* On to the loop's next record, or to the next loop.
Continue ==
    /\ step' = 0
    /\ IF nth < Len(Over[loop])
       THEN nth' = nth + 1 /\ loop' = loop
       ELSE nth' = 1 /\ loop' = loop + 1
    /\ UNCHANGED <<month, outcome, history>>

\* On to the next of the steps this record calls for, if there is one.
Follow(steps) ==
    IF step < steps
    THEN step' = step + 1 /\ UNCHANGED <<loop, nth, month, outcome, history>>
    ELSE Continue

Rewind == loop' = 1 /\ nth' = 1 /\ step' = 0

\* The members of a project just created, its rates, and the archiving of a finished one.
Completion(p) == Len(Members[p]) + 2

\* The months booked are this one and those before it.
Earliest == month - BookedMonths + 1

\* Every week is booked; then all are submitted, and all but the last approved.
WeekSteps == 3 * BookedMonths - 1

\* A report on the first option is approved, one on the second left submitted.
ReportSteps == <<"draft", "submitted", "approved", "draft", "submitted">>

-----------------------------------------------------------------------------
(* The script's commands *)

SeedCalendar ==
    /\ \/ Doing("holidays") /\ calendar' = IF calendar = "empty" THEN "imported" ELSE calendar
       \/ Doing("bridge") /\ calendar' = "bridge"
    /\ Continue
    /\ UNCHANGED <<profile, users, customer, project, bookings>>

\* Mutant of SeedProfile: only a complete profile counts as customized.
SeedProfile_Complete ==
    /\ Doing("profile")
    /\ profile' = "demo"
    /\ Continue
    /\ UNCHANGED <<calendar, users, customer, project, bookings>>

SeedProfile ==
    /\ Doing("profile")
    /\ profile' = IF profile = "placeholder" THEN "demo" ELSE profile
    /\ Continue
    /\ UNCHANGED <<calendar, users, customer, project, bookings>>

SeedUser ==
    /\ Doing("user")
    /\ users' = users \cup {Of}
    /\ Continue
    /\ UNCHANGED <<calendar, profile, customer, project, bookings>>

SeedCustomer ==
    /\ Doing("customer")
    /\ customer' = [customer EXCEPT ![Of] = IF @ = Absent THEN "active" ELSE @]
    /\ Continue
    /\ UNCHANGED <<calendar, profile, users, project, bookings>>

NewProject == [members |-> {}, rated |-> FALSE, active |-> TRUE]

\* Mutant of SeedProject: a project that exists is completed like a new one.
SeedProject_Complete ==
    /\ Doing("project")
    /\ project' = [project EXCEPT ![Of] = IF @ = Absent THEN NewProject ELSE @]
    /\ Follow(Completion(Of))
    /\ UNCHANGED <<calendar, profile, users, customer, bookings>>

\* A project that exists is left as it is, whether or not it was ever completed; one
\* that does not needs an active customer.
SeedProject ==
    /\ Doing("project")
    /\ \/ /\ project[Of] # Absent
          /\ Continue
          /\ UNCHANGED project
       \/ /\ project[Of] = Absent
          /\ customer[CustomerOf[Of]] = "active"
          /\ project' = [project EXCEPT ![Of] = NewProject]
          /\ Follow(Completion(Of))
    /\ UNCHANGED <<calendar, profile, users, customer, bookings>>

CompleteProject ==
    /\ At("project")
    /\ \/ /\ step \in DOMAIN Members[Of]
          /\ project' = [project EXCEPT ![Of].members = @ \cup {Members[Of][step]}]
       \/ /\ step = Len(Members[Of]) + 1
          /\ project' = [project EXCEPT ![Of].rated = Of \in Rated]
       \/ /\ step = Len(Members[Of]) + 2
          /\ project' = [project EXCEPT ![Of].active = Of \notin Closed]
    /\ Follow(Completion(Of))
    /\ UNCHANGED <<calendar, profile, users, customer, bookings>>

\* Archived whether or not this run has made it.
ArchiveCustomer ==
    /\ Doing("archive")
    /\ customer' = [customer EXCEPT ![Of] = IF Of \in Archived THEN "archived" ELSE @]
    /\ Continue
    /\ UNCHANGED <<calendar, profile, users, project, bookings>>

HasEntries(u) == \E m \in Months : week[<<u, m>>] # Absent

\* A user without options, or with any entry, is skipped.
SeedHours ==
    /\ Doing("hours")
    /\ IF HasEntries(Of) \/ Options(Of) = {} THEN Continue ELSE Follow(WeekSteps)
    /\ UNCHANGED <<records, bookings>>

\* SaveTimesheetWeek, on the first option, the earliest week first; no month still to
\* be booked has been sent.
BookWeek ==
    /\ At("hours")
    /\ step \in 1..BookedMonths
    /\ week' = [week EXCEPT ![<<Of, Earliest + step - 1>>] =
                   [project |-> FirstOption(Of), status |-> "draft"]]
    /\ Follow(WeekSteps)
    /\ UNCHANGED <<records, claim, period>>

\* Mutant of ReviewWeek: the weeks are reviewed from the latest back, which leaves the
\* earliest submitted.
ReviewWeek_LatestFirst ==
    /\ At("hours")
    /\ \E n \in 1..2 * BookedMonths - 1 :
         /\ step = BookedMonths + n
         /\ week' = [week EXCEPT ![<<Of, month - (n - 1) \div 2>>].status =
                        IF n % 2 = 1 THEN "submitted" ELSE "approved"]
    /\ Follow(WeekSteps)
    /\ UNCHANGED <<records, claim, period>>

\* Week by week, the earliest first, a submission and an approval.
ReviewWeek ==
    /\ At("hours")
    /\ \E n \in 1..2 * BookedMonths - 1 :
         /\ step = BookedMonths + n
         /\ week' = [week EXCEPT ![<<Of, Earliest + (n - 1) \div 2>>].status =
                        IF n % 2 = 1 THEN "submitted" ELSE "approved"]
    /\ Follow(WeekSteps)
    /\ UNCHANGED <<records, claim, period>>

\* Mutant of SeedExpenses: this month's reports are not looked for.
SeedExpenses_Again ==
    /\ Doing("expenses")
    /\ IF Cardinality(Options(Of)) < 2 \/ ~ HasReviewer(Of)
       THEN Continue
       ELSE Follow(Len(ReportSteps))
    /\ UNCHANGED <<records, bookings>>

ReportsThisMonth(u) == {p \in Projects : claim[<<u, p, month>>] # Absent}

\* A user with two projects to claim on and no report this month.
SeedExpenses ==
    /\ Doing("expenses")
    /\ IF ReportsThisMonth(Of) # {} \/ Cardinality(Options(Of)) < 2 \/ ~ HasReviewer(Of)
       THEN Continue
       ELSE Follow(Len(ReportSteps))
    /\ UNCHANGED <<records, bookings>>

\* The draft is made with its line, then submitted, then approved.
Claim ==
    /\ At("expenses")
    /\ step \in DOMAIN ReportSteps
    /\ LET p == IF step <= 3 THEN FirstOption(Of) ELSE SecondOption(Of)
       IN  claim' = [claim EXCEPT ![<<Of, p, month>>] = ReportSteps[step]]
    /\ Follow(Len(ReportSteps))
    /\ UNCHANGED <<records, week, period>>

\* billing_readiness: something to bill, and all of it approved.
Ready(m) ==
    LET weeks  == {u \in Users : week[<<u, m>>] # Absent /\ week[<<u, m>>].project = InvoiceProject}
        claims == {u \in Users : claim[<<u, InvoiceProject, m>>] # Absent}
    IN  /\ weeks # {} \/ claims # {}
        /\ \A u \in weeks : week[<<u, m>>].status = "approved"
        /\ \A u \in claims : claim[<<u, InvoiceProject, m>>] = "approved"

\* A month that was sent before is no error; one that is not ready is.
Send ==
    /\ Doing("send")
    /\ \/ /\ period[Earliest] = Absent
          /\ Ready(Earliest)
          /\ period' = [period EXCEPT ![Earliest] = "sent"]
       \/ /\ period[Earliest] # Absent
          /\ UNCHANGED period
    /\ Continue
    /\ UNCHANGED <<records, week, claim>>

\* A month with an invoice ends the script; one without rates is an error.
Draft ==
    /\ Doing("draft")
    /\ \/ /\ period[Earliest] # "sent"
          /\ Continue
          /\ UNCHANGED period
       \/ /\ period[Earliest] = "sent"
          /\ project[InvoiceProject].rated
          /\ period' = [period EXCEPT ![Earliest] = "drafted"]
          /\ Follow(1)
    /\ UNCHANGED <<records, week, claim>>

\* Without the company's number the draft stays one.
Issue ==
    /\ At("draft")
    /\ step = 1
    /\ period' = [period EXCEPT ![Earliest] = IF profile = "custom" THEN @ ELSE "issued"]
    /\ Follow(1)
    /\ UNCHANGED <<records, week, claim>>

\* What the script does not catch.
Refused ==
    /\ \/ Doing("project") /\ project[Of] = Absent /\ customer[CustomerOf[Of]] = "archived"
       \/ Doing("send") /\ period[Earliest] = Absent /\ ~ Ready(Earliest)
       \/ Doing("draft") /\ period[Earliest] = "sent" /\ ~ project[InvoiceProject].rated
    /\ outcome' = "failed"
    /\ Rewind
    /\ UNCHANGED <<month, records, bookings, history>>

-----------------------------------------------------------------------------
(* Runs, and what happens between them *)

BeginRun ==
    /\ outcome # "running"
    /\ outcome' = "running"
    /\ before' = [projects |-> {p \in Projects : project[p] # Absent},
                  booked   |-> {u \in Users : HasEntries(u)}]
    /\ UNCHANGED <<month, records, bookings, place, disturbed, settled>>

EndRun ==
    /\ outcome = "running"
    /\ loop > Len(Loops)
    /\ outcome' = "ended"
    /\ Rewind
    /\ settled' = TRUE
    /\ UNCHANGED <<month, records, bookings, before, disturbed>>

KillRun ==
    /\ outcome = "running"
    /\ disturbed < MaxDisturbed
    /\ disturbed' = disturbed + 1
    /\ outcome' = "killed"
    /\ Rewind
    /\ UNCHANGED <<month, records, bookings, before, settled>>

Disturb ==
    /\ outcome # "running"
    /\ disturbed < MaxDisturbed
    /\ disturbed' = disturbed + 1
    /\ settled' = FALSE
    /\ UNCHANGED <<bookings, place, outcome, before>>

NextMonth ==
    /\ Disturb
    /\ month < LastMonth
    /\ month' = month + 1
    /\ UNCHANGED records

\* An administrator archives a customer, or takes it back;
ChangeCustomer ==
    /\ Disturb
    /\ \E c \in Customers : /\ customer[c] # Absent
                            /\ customer' = [customer EXCEPT ![c] =
                                   IF @ = "active" THEN "archived" ELSE "active"]
    /\ UNCHANGED <<month, calendar, profile, users, project>>

\* or fills in part of the profile.
Customize ==
    /\ Disturb
    /\ profile # "custom"
    /\ profile' = "custom"
    /\ UNCHANGED <<month, calendar, users, customer, project>>

Command ==
    \/ SeedCalendar \/ SeedProfile \/ SeedUser \/ SeedCustomer
    \/ SeedProject \/ CompleteProject \/ ArchiveCustomer
    \/ SeedHours \/ BookWeek \/ ReviewWeek
    \/ SeedExpenses \/ Claim
    \/ Send \/ Draft \/ Issue \/ Refused

NextDemo == BeginRun \/ Command \/ EndRun \/ KillRun \/ NextMonth \/ ChangeCustomer \/ Customize

SpecDemo == InitDemo /\ [][NextDemo]_dvars

-----------------------------------------------------------------------------
(* Properties *)

\* seed.py:4: seeding is idempotent.  Once a run has ended, a run in the same month,
\* whole or killed, changes nothing unless somebody else has.
Idempotent == [][settled /\ settled' => UNCHANGED <<records, bookings>>]_dvars

\* seed.py:5 and :645: what was there when a run began is left untouched: a project
\* and its members, a user's booked weeks, a profile that was customized.
ExistingLeftAlone ==
    [][/\ outcome = "running" => \A p \in before.projects : project'[p] = project[p]
       /\ outcome = "running" => \A u \in before.booked, m \in Months : week'[<<u, m>>] = week[<<u, m>>]
       /\ profile = "custom" => profile' = "custom"]_dvars

\* seed.py:695: "every week of the earliest month is guaranteed already approved": a run
\* fails only if an earlier one was killed, or time or people have passed since.
FailsOnlyIfDisturbed == outcome = "failed" => disturbed > 0
=============================================================================
