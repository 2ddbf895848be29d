# TLA+ models of time-reporting

This directory keeps the formal models of the application next to its code: TLA+
modules translated from `src/backend`, TLC configurations that check them on small
instances, and TLAPS proofs of what they promise for every instance.

Run from this directory:

    tlc -workers 2 -config MCTimesheets.cfg MCTimesheets
    tlapm TimesheetsProofs.tla

`PROJECT.json` lists the runs, the theorems, the mutated definitions that show each
property can fail, and the source lines of every definition.

## 1. The system

A FastAPI backend over PostgreSQL. Every HTTP request opens one session and one `Bus`;
a command is one transaction, committed by the outermost `Bus.execute`, and a command
may query or execute the commands of other modules inside it (`core/cqrs.py`). Modules
never import each other's tables; they share them only through these messages.

| component | state | operations that change it | interacts with |
| --- | --- | --- | --- |
| timesheets | `time_entries`, `timesheet_weeks`, `timesheet_row_comments`, `project_billing_periods` | save, submit, approve, return a week; send a project's month to billing, reopen it, mark and clear its invoice | asks projects for the items open to a user and `is_internal`, company for `allow_self_review`, expenses for the month's reports; locks and unlocks those |
| expenses | `expense_reports`, `expense_report_lines`, `expense_attachments`, files under `attachment_dir` | create, save lines, delete, submit, approve, return; add, delete, link an attachment; lock, unlock a month; `prune-attachments` | asks projects and company; called by timesheets and invoices |
| invoices | `invoices`, `invoice_lines`, `invoice_billing_periods` | create, update, delete a draft; issue, pay, void | reads export rows of timesheets and expenses, marks and clears their periods, draws numbers from company |
| projects | `projects`, `project_members`, `project_billing_items` | create, update, archive, members, items | asked by all three |
| company | `company_settings` | settings form, logo, number allocation | asked by all |
| customers | `customers` | create, update, archive, delete | asked by projects and invoices |
| users, auth | `users`, sessions in signed tokens | create, update, delete, sign in; `create-admin` | every request's guard reads the caller's row |
| admin | none | remove a user, project or customer that nothing references | counts of every module, then their deletions |
| audit | `audit_events` | append | executed by every command that records one |
| work calendar | `non_working_days` | add, update, delete, import of public holidays | the summaries measure against it |
| timesheets: summaries | none | - | one query each over `time_entries`, and the calendar |
| system | backup files, a lock file | backup, prune, restore | `pg_dump`, `pg_restore`, the attachment directory |
| accounting | none | - | the month's approved reports, their receipts, the month's invoices |
| `seed-demo` | none of its own | a script of commands of all modules | run again over what it or somebody left |

What is hard here, and what makes each component correct:

* **Two calendars.** Review works by ISO week over all projects; billing works by
  calendar month and by project. A week that straddles a month end is where one rule
  has to protect what the other relies on: *what was sent stays approved and unchanged*.
* **Facts kept twice.** A period names its invoice and an invoice names its periods; an
  expense report's lock repeats that its month was sent; a draft's lines repeat the
  period's rows. They are written by different modules in nested commands.
* **Long sequences.** Send, invoice, void, reopen, return, resubmit and send again are all
  legal, and each guards against some of the others only.
* **Numbers.** Issued numbers may have no gap and no duplicate although drafts are
  deleted, issues roll back and an administrator may overwrite the counter.
* **Files and rows.** An upload's file and its row are never one transaction, the process
  may die between the two, and a pruning process runs beside the server.
* **Concurrency.** Transactions are READ COMMITTED and most checks take no row lock.
* **Several processes.** The server, the backup service, the migrate container and the command
  line share the database and two directories; a lock file keeps two backups apart, and
  nothing keeps a restore apart from a backup. Each may be killed between any two steps.
* **The same hours, added up five ways.** By day, week, month, project and billing item, in
  queries of their own; they must tell one story.

## 2. Modules

| module | models | notes |
| --- | --- | --- |
| `Timesheets` | `modules/timesheets` service, billing and readiness | one action per command |
| `BillingLedger` | what `Timesheets` promises billing | abstract specification |
| `Expenses` | `modules/expenses` service and tables | one action per command, cascades included |
| `Invoices` | `modules/invoices` service, `company` counter | one action per command |
| `TimeReporting` | the three above calling each other, `is_internal`, `allow_self_review` | nested commands are conjoined |
| `Attachments` | `expenses/storage.py`, `prune-attachments` | one action per file or row step |
| `InvoiceRequests` | issue, pay, void and delete as overlapping READ COMMITTED transactions | one action per statement that reads, locks or writes |
| `BillingRequests` | the commands on one project-month (save, submit, approve, return; send, reopen, create draft) as overlapping transactions | one action per read that decides, one per commit |
| `Accounts` | `modules/users`, the guards, the audit log of access levels, `create-admin` | one action per statement group |
| `Administration` | `modules/projects`, `customers`, `admin`: the catalog and its removal, over the rows that refer to it | one action per command, foreign keys as guards and cascades |
| `Summaries` | `timesheets/summary.py`, `team.py`, the export, `modules/work_calendar` | one operator per query, over stored entries and days |
| `AccountantPackage` | the expense half of `modules/accounting` | operators over the rows of `Expenses` |
| `Backups` | `system/backup_service.py` and the restore command, over `Attachments` | one action per file or lock step |
| `DemoData` | `seed.py` | a script of commands, each an action |
| `TimesheetsProofs`, `ExpensesProofs`, `InvoicesProofs`, `TimeReportingProofs` | theorems about the module of that name, `ExpensesProofs` also about `AccountantPackage` | |
| `RequestsProofs` | theorems about `InvoiceRequests` and `BillingRequests` | |
| `OperationsProofs` | theorems about `Attachments`, `Backups` and `DemoData` | what an operator runs beside the server |
| `AdministrationProofs` | theorems about `Accounts` and `Administration` | |
| `SummariesProofs` | theorems about `Summaries`, and what sums over finite sets are | |
| `MC*` | instances for TLC | |

**How code becomes an action.** A command handler runs to its commit or raises and is
rolled back, so in `Timesheets`, `Expenses`, `Invoices` and `TimeReporting` a command is
one action: each raise is a negated guard, the writes are the primed variables. A missing
row is a value of its own (`"none"`, `NotSent`, `NoRow`, `NoLine`), a nullable column too
(`NoInvoice`, `NoNumber`, ...). A unique constraint whose violation aborts the command is a
guard. What a command asks another module is a parameter of its action: inside one module
TLC tries every answer, and `TimeReporting` supplies the real one. So each module is
checked, and proved, against all callers, and `TimeReporting` checks that its real callers
are among them (`ImplementsTimesheets`, `ImplementsExpenses`).

**Timesheets.** `entry` is `time_entries.quantity` by (user, item, day), 0 for no row;
`week` is `timesheet_weeks.status`; `comment` the set of row comments; `period` is
`project_billing_periods`, either `NotSent` or its `invoice_id`. `SaveWeek` takes a batch as
two partial functions, so a cell or item occurs once in it (`DuplicateChangeError`).
`WeekOf` and `MonthOf` are constants: any calendar, in particular weeks across month ends.
Reviewers come from `Managers` (`ManagerDep`); notes, timestamps and comment texts are left
out. The prose of a required return comment is request validation and is left out as well.

**Expenses.** A report is identified by (user, project, month), its unique key. A line keeps
its report and one value; an attachment its report and line. A deleted line unlinks its
attachments, a deleted report takes lines and attachments with it. `valid` is what
`_open_items` and the month bounds admit.

**Invoices.** A line is identified by its origin (a billing item's time in a period, an
expense line of it, or a manual row) and has an amount. Identifiers of deleted drafts may be
used again, which stands for further drafts. `CreateDraft` takes as parameters the
periods that are eligible and the lines generated. `PdfPage` is what the stored PDF says.
VAT and mark-up scale amounts and are left out; the refusal of items without a rate (`rated`)
is kept.
`SaveSettings` is the settings form: it writes the counter it was opened with, so any value.
`resumed` is a history variable, the value last saved that way.

**TimeReporting.** `internal` and `selfReview` are owned by projects and company and change
at any time. All items are open and every rate is set; the component runs cover the
refusals. Quantities and expenses feed the draft's lines through `GeneratedLines`.

**Attachments.** Keys are random and used once. `request` is how far the last request on a
key has come; `FailUpload` and `FailDelete` are a rollback or the death of the server, after
any step. Pruning reads the keys in one transaction, then lists, then unlinks file by file, at any
time; the prune process itself is taken to run to its end. `caught` is history: the keys whose upload had its
file under its final name, and no row yet, while a prune was between reading the keys and listing.

**InvoiceRequests.** A request runs one command once: it checks the status in a SELECT that
locks nothing (`Check`), and writes by primary key later, waiting for the row if another
transaction has written it. Issuing first draws its number from the settings row read
`FOR UPDATE`; the counter it sees is the one last committed, since the session no longer holds
the settings object read before. It then flushes the number, renders the page, and commits. An
UPDATE that finds the row gone raises; a DELETE that does is only a warning of the ORM. A
`RollBack` is a raise, a cancelled request or the death of the server. Contents of drafts,
updates of them and the billing periods are not part of this module, and the settings form
is not saved meanwhile (`Invoices` has that).

**BillingRequests.** The same for one project-month on its way to billing. `request` is what a
connection's transaction has read: a week's or report's status, whether the month is sent, the
weeks with hours, the period, the hours to bill. Each read that decides is a step; a
transaction's writes are one step with its commit, because nobody sees them before. Writes go by
id: a period that is gone by the time it is deleted is only a warning, a second period or link
row breaks a unique constraint. `stale` and `overtaken` are history: a commit of a hand-off
(send, reopen, create draft) makes every other running transaction stale, a commit of a review
makes running hand-offs stale, and `overtaken` says that a stale one has committed. Deleting and
voiding the invoice are left out (`TimeReporting` has them as atomic commands), and so is the
daily cap: two batches of one user, each below it, can commit together above it.

**Accounts.** A request is admitted by the caller's row, then reads the row it is about, then
writes the columns that differ from what it read, with the audit event, in one commit. `logged`
is the log folded per user. Passwords, tokens, login times and rate limits are left out.

**Administration.** Rows of other modules are kept as far as they refer to the catalog, for one
month. Deleting is guarded twice, by the removal impact's counts and by the foreign keys; the
second refuses what the first forgets, as a whole transaction. An expense report has its whole
life here, `"locked"` being an approved one whose month was sent. A report that comes after the
send is approved without a lock; like the export, `BilledItems` takes it (expenses/handlers.py:280), and
it may be returned, emptied and deleted while the invoice stands. The history `sent` of an invoice tells
apart the items of what was sent. The approval of weeks, edits of drafts and who may review a given
report are left out (`Timesheets`, `Invoices`, `Expenses`).

**Summaries.** Each query is an operator over `entry`, `off` (the non-working days) and `today`;
the actions only move those three. Membership is that of today, as in the code. Names, sorting
and money are left out. A view is computed in one state, although the code makes it from several
queries of a READ COMMITTED transaction, between which another may commit. Every project is an active one: the team
overview lists no others (team.py), while a month of an archived project can still be sent to billing,
so `TeamSeesWhatIsBilled` says nothing of those.

**AccountantPackage.** `Package` is the fold `build_package` makes over reports, lines and
receipts, with the running number. It is read in one snapshot; the code reads each receipt by a
query of its own in one transaction. The order of reports is not fixed by the code, so the
model takes any. Invoices, totals and the rendering of the summary are left out, and so are
reports whose project or user cannot be found: the foreign keys forbid them.

**Backups.** `dump` and `archive` are the files of a backup, `job` how far a process has come with
one, `restore` how far a restore has. `Attachments`' upload, delete and prune steps run on between
the snapshot `pg_dump` takes, the listing that `tar` makes and its reading of the files. A dump
is written under a dotfile and renamed, so its content appears in one step. The status page,
`--if-pending-migrations` and the audit event are left out. `RemoveLock` is a person: nothing in
the code removes the lock a killed backup leaves (backup_service.py:92), every later backup is
refused until somebody does, and no fairness would be justified.

**DemoData.** The script is a sequence of loops over the demo records (`Loops`, `Over`). A run is at
one of them: `loop`, `nth` its record, `step` which of the further commands that record calls for, 0
before it is looked at. A command that finds its record there goes on to the next (`Continue`); one
that does not makes it and goes through its steps (`Follow`). A month is reduced to one week, and what is
filled in at once, a project's rates or a report's lines, to one command. A killed run starts from the top.
The audit events of the commands are left out, so `Idempotent` says nothing of those a repeated run
adds (the holiday import records one for each of its two years, whatever it imports).
Between two runs the month may end, and somebody may archive a customer or change the profile
(`Disturb`). `before` and `settled` are history variables: what a run found, and whether a run has ended with nothing disturbed since.

## 3. Runs

| run | instance | shows |
| --- | --- | --- |
| `timesheets` | 1 employee, 2 managers (one of them the employee), 2 projects with an hour item each, days 1-3 with weeks `1 1 2` and months `1 2 2`, batches of one cell and one comment | `SentWeeksApproved`, `BilledHoursFrozen`, `DailyHoursCapped`, `OfferedReturnAccepted`, and `ImplementsLedger` |
| `expenses` | 2 users, 1 month, 2 lines, 2 receipts, 2 values | `LockedApproved`, `ReviewedContentFrozen`, `RowsOwned`, `PackageHoldsMonth` |
| `invoices` | 3 invoices, 2 periods of a line each, 1 manual line, numbers to 3 | `TotalIsSum`, `PdfMatchesRows`, `NumbersGapless` |
| `time_reporting` | 1 self-reviewing manager, 1 project, 2 months sharing one week, 1 expense line in month 1, 2 invoices, 1 number | `HoldersAgree`, `InvoiceMatchesPeriods`, `LocksFollowPeriods`, and that `Timesheets` and `Expenses` hold of the whole |
| `invoice_requests` | 3 requests, each with any of the four commands, over 2 drafts | `AllocationsSerialize`, `PagePrintsNumber`, `RequestsEnd` |
| `billing_requests` | 2 connections, 2 weeks, 1 report, hours 0 or 1, the month sent twice at most | `UnsettledOvertaken` |
| `attachments` | 3 receipts on 2 reports, prune at any time | `RowsHaveFiles`, `OrphansRemoved` |
| `backups` | 1 report, 2 receipts, 2 processes, 2 backups, one retained | `RestoredRowsHaveFiles`, `KeptTogether`, `NewestKept` |
| `accounts` | 3 ids (one in use elsewhere), 2 requests at a time, 2 emails, the administrator level | `AuditTellsTheState`, `EmailsUnique`, `OtherFieldsStay`, `LastAdminOvertaken` |
| `administration` | a manager and another user, 1 customer, 1 project, 2 items, 1 month, one expense report at a time | `ReferencesResolve`, `PositionsDistinct`, `SentLinesKept` |
| `summaries` | 2 users, 2 projects, 3 items (two hourly presets, one daily), 4 days over 3 months, 2 years and weeks across them | `MonthsAgree`, `YearAddsUp`, `WeeksAgree`, `TeamSeesWhatIsBilled` |
| `demo_data` | the months of the first run and two more, 3 disturbances | `Idempotent`, `ExistingLeftAlone`, `FailsOnlyIfDisturbed` |

**Bounds.** `MaxBatch` limits the cells and comments of one `SaveWeek`; two cells of a batch
are checked independently, except by the daily cap, and two items sharing a day, saved
one after the other, already exercise it. `MaxNumber` stops the counter: an issue beyond it is
disabled. `TypedAmounts` are the amounts an accountant types, kept apart from those that
generation yields, which is how the run tells a retyped line. `ReportMonths` are the months
that may have expense reports. Three days suffice for each overlap of weeks and months: a
week with two months, a month with two weeks, and a day where both agree. Two invoices and
two periods suffice for every conflict over a period, since each rule relates one period to
the invoices that name it.

Three requests suffice for two that conflict beside a third that frees a lock or takes a number; the counter goes up at most once per request, so `MaxNumber` never blocks an allocation there.
It has no deadlock check because its requests run out.

Two connections suffice for `billing_requests`: what unsettles a month is one transaction
overtaken by another, and the proof needs no more of the others than that they are stale or
not. `MaxSent` 2 lets a send follow the reopening of another. It, `accounts` and
`administration` have no deadlock check, since counters, ids and positions run out under their
bounds; the program itself never stops. `MaxReports` 1 in `administration` keeps one expense report at a time: a late one, of a month sent for its
hours, and one that was sent itself both occur, and a report's steps depend on no other
report but at the send. Two backups with one retained let a prune meet a finished
backup and one in the making. `MaxDisturbed` counts kills and changes together: three
let a run be killed, killed again while it repairs, and meet a change. In `summaries` four days hold
a week with two months and two years, a weekend and a holiday; two entries at a time are enough to tell
a sum by one key from a sum by another, as each view is a sum and sums are told apart by one term.

**Fairness.** `attachments` and `invoice_requests` need some. A begun request ends: its
coroutine is resumed or the process dies (`WF` on `EndRequest`). Prune runs from a scheduler,
as docs/operations.md suggests, and finishes (`WF` on `Prune`). Nothing obliges a user
to upload, delete or delete a report, and these have no fairness.
In `invoice_requests` a transaction that is not waiting for a lock goes on (`WF` on `Proceed`): its
coroutine is resumed when its statement returns. Sending a request and rolling one back have no
fairness.

**Where the code and its documentation disagree.** Each was met as a counterexample of TLC while
modelling; the properties of the runs are what is left true.

* Overlapping hand-offs: timesheets/service.py:330 refuses a return that "would un-approve hours
  already handed off", and so does expenses/contracts.py:388. `BillingRequests` violates
  `HandedOffSettled`: `return_report` reads `locked_at`, `send_to_billing` finds the report approved,
  locks it and commits, and the return then writes by id. Put `HandedOffSettled` for
  `UnsettledOvertaken` in `MCBillingRequests.cfg` to see it. `return_week`, `save_week`,
  `reopen_period` and `create_draft` race a hand-off in the same way.
* Voided periods: invoices/contracts.py:380 voiding will "free every billing period it covered";
  the link rows stay, unique by period, so no draft can take it again (invoices/models.py:126).
* Burned numbers: company/contracts.py:140 "the number is never burned"; an invoice that is
  issued while a delete or another issue of the same draft is under way loses its number: both
  requests found a draft, and each writes by id without looking again (invoices/service.py:662).
* Prune and upload: docs/operations.md:185 "safe to run at any time"; a prune that reads the keys before
  an upload commits and lists the files after its rename removes the file of a row
  (cli.py:272). `RowsHaveFiles` excuses this case and no other: leave `k \in caught` out of it to see it.
* Temporaries: docs/operations.md:184 prune "deletes every file ... that no row references"; the
  dotfile of an upload that died before its rename is skipped (expenses/storage.py:93).
* Late reports: timesheets/contracts.py:623 "locks the period"; a report created after the send
  is not locked, and once approved joins the export and the draft. While the invoice stands it may still
  be returned (expenses/service.py:328), its line dropped and the item deleted, and the invoice line, issued or not,
  loses its item (invoices/models.py:80). `SentLinesKept` therefore speaks of what was sent: put `BilledItems(p)`
  for `SentItems(p)` in `CreateInvoiceDraft` to see a late line lose its item.
* Internal projects: timesheets/team.py:302 "an internal project can't have a sent period at
  all"; `update_project` makes one so at any time.
* Last administrator: two administrators who revoke or deactivate each other at the same time
  leave none. `LastAdminOvertaken` says that this is the only way.
* Removal: the impact of a project or user counts time entries, not expense reports or
  periods, so a removal announced as possible may be refused by a foreign key, which
  admin/service.py:186 takes for a race.
* Restore: docs/operations.md:129 stops the server, not the backup service. A restore takes no
  lock, so a backup or a prune of backups may run beside it; the model has none then.
* Backup pruning: docs/operations.md:147 dump and archive are "kept and pruned together"; a prune
  killed between the two leaves an archive that no later one finds. An upload or deletion
  while `tar` reads makes the archive fail and leaves a listed dump without one, which
  restores rows without files.
* Receipts of the package: one whose file is gone fails the whole package, though
  docs/operations.md:172 tolerates missing files; two unlinked receipts of one report
  with one file name get one name in the archive (accounting/service.py:230).
* Demo data: a second run archives again a customer an administrator took back, though
  seed.py:5 leaves existing records untouched; a run in a later month may send and
  invoice a second month (seed.py:297: "only the first time"); killed while it books, or two months
  on, every further run fails at the send.

One reading is a matter of taste and has no run: timesheets/service.py:148 hides the review
actions "because a return would be rejected", and a locked row that is only a comment hides
them although the return would pass. The converse, that an offered return is accepted, is proved.

## 4. Proofs

The proof modules work for arbitrary constants under the ASSUMEs of the modules they extend, which
say what the code takes for granted: maps between rows are total, a null is no value of the column
it stands in for (`NoLine` is no amount, `None` no database and no folder), bounds are numbers. Where a
theorem is about a sum or a count, what is summed is finite: the items of `TimesheetsAssumption`, the tables of
`PackageAssumption`, everything in `SummariesAssumption`, which also has the months follow the days.

Every invariant is proved by an inductive one: it holds at first, every step keeps it, it says what was
asked for. Where the asked-for is not inductive, the text below names what it lacks.

**Timesheets and expenses.**

* `TypeCorrect` in `TimesheetsProofs` and `ExpensesProofs`: the type invariants are inductive.
* `SentImpliesApproved`. `SentWeeksApproved` speaks of sets of (user, week) pairs; its inductive form
  `SentEntriesApproved` speaks of one entry: a positive entry of a sent month lies in an approved
  week (`ScopeByEntry` gives the first from the second). A send establishes it by readiness.
  `SaveWeek` keeps it because it changes no cell of a sent month (`SaveWeekTouches`), a submit
  and an approval because they start from another status, and `ReturnWeek` because an entry of
  a sent month makes its week billed, whichever day of the week it is (`EntryOverlaps`).
* `BilledHoursNeverChange`, `LedgerRefinement`: the same lemma about `SaveWeek`, and
  `SameEntriesSameHours` for the refinement mapping; every other step maps to the ledger's
  action of its name or to a stutter.
* `DaysStayCapped`: inductive. A save counts all the hours of a day it writes, whatever else it writes; the
  hours of any other day are a sum of the same entries (`HoursOfSameEntries`).
* `OfferedIsAccepted`: the entries' projects are among the rows' projects.
* `LockedIsApproved`: inductive with the types; `RowsAreOwned`: inductive by itself with the
  types; `ReviewedContentStays`: uses both ownership and types, through `OthersRows`, which says that a
  report whose lines and attachments no changed row belongs to keeps its content.
* `PackageAlwaysHoldsMonth` follows from `RowsAreOwned` in each state, but the package is made by two nested
  folds over sequences in an unknown order. `LoopEndsWith` says what one turn of such a loop does to what
  the turns before it made, and `Holds` is their invariant: each line so far has one row, each receipt
  one file, and the numbers given so far are below the next one. `LineAdded`, `UnlinkedAdded` and `ReportAdded` say
  that a line, the receipts of no line and a report keep it.

**Invoices and requests.**

* `PagesMatchRows` needs only the columns (`ColumnsInvariant`): only drafts change their
  rows, and a draft has no page. `NumbersHaveNoGaps` uses it, since an invoice that draws a number had
  none to lose; `LivesGoForward` is by cases on the command.
* `TotalsAddUp`: every command that writes lines writes their sum, and a deleted invoice has no lines, whose
  sum is 0 (`SumOfNoLines`).
* `InvoiceRequestsAreTyped` needs `DrawnWhileIssuing` besides: a commit stores the number drawn plus
  one, which has a type only because a number has been drawn.
* `AllocationsAreSerial` (any number of requests): `DrawnUnderLock` says that whoever has drawn a
  number holds the settings row and the counter's value, `NumbersBelowCounter` that no invoice has
  reached it. `PagesPrintNumbers` rests on `CheckedStaysIssued`: a request that found its invoice issued never
  finds it a draft again, so a late payment or void meets a row that has its number.
* `OnlyOvertakenUnsettles`, for any number of connections, weeks and
  reports. `Undisturbed` strengthens `HandedOffSettled` by `Basis`: what a running transaction has
  read and rests its writes on still holds, unless it is stale. A read establishes it (`ReadKeeps`), a
  review keeps it for the other reviews (`ReviewCommits`), and after a hand-off nobody
  owes it any more (`HandOffCommits`). Without it, nothing says why a save may still write.

**The application.**

* `StepCases` of `TimeReportingProofs` reduces a step to what it does to the columns two
  modules share. `LocksFollow` and `HoldersDoAgree` rest on their types and on `LinksHaveInvoices`: a
  fresh invoice has no links, so no period names it.
* `InvoicesStayInStep`. `InvoiceMatchesPeriods` compares a set of line origins with what the periods would
  generate; inductive are `TimeMatches` and `ExpensesMatch`, which speak of one line (`LineByLine`), together
  with the two theorems above: while an invoice stands its periods name it, so they are sent,
  so the hours in them (`SentTimeStays`) and the lines of their locked reports (`LockedExpensesStay`)
  stay as they are. `UntypedStays`: whoever updates a draft types an amount or takes the line out.
* `TimesheetsRefinement` and `ExpensesRefinement` map every
  command to the module's own action, or to a stutter, with arguments its specification
  allows for; so the theorems of `TimesheetsProofs` and of `Expenses` are true of the application.

**Files and backups.**

* `PruneTakesOnlyCaught`, with prune at any time. A row's upload is over (`RowsAreUploaded`) and
  followed its file (`WrittenHaveFiles`, `FilesAreRenamed`); prune, once begun, has read every row it could
  harm, or its upload was caught between the reading and the listing (`PruneSparesRows`).
* `Structure` is what the backup theorems share: types, the lock lets one process in
  (`OneAtATime`), and a restore that has begun has both its files (`RestoreInStep`).
* `NewestAreKept`: a dump goes only with as many newer ones listed as are retained, hence never the newest.
  `PairsAreKept`: a backup that has its dump keeps it until it is archived (`DumpedIsListed`).
* `RestoresAreComplete`, with prune at any time: `BackupInStep` follows the rows of one dump, which are
  still there or excused (`Excused`: given up by a delete, or caught by a prune) until the folder is listed, and are on that
  list or were excused after it; `ArchivesMatchDumps` is what remains of it when the archive is
  finished. It needs `DumpsAreUploaded`, `ArchivesAreRenamed` and `UnlinkedIsGivenUp`: whoever unlinks a dumped row's file
  is deleting that row, since its upload is over and no failed one.

**Demo data.** For any number of runs and kills, and any months they are begun in.

* `DemoInv` is what the three theorems share: `PlaceOK`, where a run can be; `StepsInOrder`, what a
  step relies on of the steps before it; and `ScriptDone`, which makes them inductive. `Effect(l, n)` is what
  loop `l` has done for its `n`-th record; it holds once a run has passed that record and, in a settled
  database, at any time. Each command establishes its own effect (`AfterCommand`) and undoes no other
  (`NothingUndone`, `EffectsStay`). The effects of the hours and the expenses speak of a user's options, which a new
  project would add to: no project is made after them, since a settled database has them all.
* `SeedingIsIdempotent`: what a command would make is the effect of its loop, so a settled database
  has it (`SettledLooks`), and no record there calls for a step.
* `SeedingLeavesExistingAlone`: inductive is `FoundIsKept`. What a run found is still there, and a record whose steps
  are under way is none of it, because it was asked for before its first step.
* `UndisturbedRunsSucceed`: the script fails where it makes a project for an archived customer, sends
  a month that is not ready, or drafts without rates. `Undisturbed` says why none of these
  happens before a disturbance: customers are archived after all projects are made (`ArchivedLast`), the invoiced
  project ends with its members and rates (`WebsiteReady`), whoever books has booked the earliest month first,
  and it is approved but while the run reviews that user's weeks (`EarliestFirst`, `EarliestReviewed`), and
  reports are of another month (`ClaimsOfMonth`). That there is something to bill comes from `OnlyMembersBook`:
  the lead is a member of the invoiced project alone (`TheLead`), so what the lead has booked is on it.

**Accounts and administration.**

* `AuditTells` is inductive with the types: folding an event into the log and
  writing the row commute (`LogFollowsRow`). `EmailsStayUnique` rests on the types,
  `LastAdminGoesOvertaken` on `SelfChecked`: a request that got past the check of its service was
  not about its own caller;
  `UnnamedFieldsStay` on what the flush writes.
* `RowsAreTyped`, `ReferencesAlwaysResolve`, `PositionsStayDistinct` and `SentLinesStay` have one inductive
  invariant, `Inv`. References alone are not inductive: `StandingIsHeld` says that an invoice
  that stands has its period, marked as invoiced, and that somebody's hours or locked claim hold each item that was
  sent. Without it nothing says why removing a project or an item that no count forbids
  leaves those lines whole. The lines of late reports are held by nobody, and the theorem claims nothing of them. A new item's position is the largest plus one (`LargestNumber`).

**Summaries.** A sum over a finite set is by definition a fold in an unknown order. `FoldExists` and
`FoldIsUnique` say that the fold is a function, `SumTakesAny` that the order does not matter; the rest is algebra:
a sum over a set is that of the sums over its parts (`SumOfParts`), or over the values of a key
(`SumOfImage`). `QuantityByDays`, `QuantityByItems` and `QuantityByUsers` split a view's sum by each
key, and `HoursOfAccumulated` says that the four hour presets of an accumulator come to the hour items' quantity. `WeeksAlwaysAgree`, `MonthsAlwaysAgree`,
`YearsAlwaysAddUp` and `TeamAlwaysSeesWhatIsBilled` are then equations between two ways to split the same
sum, in any state that has its types.

The induction theorems of the library take an operator, which the provers cannot instantiate. Where a
proof needs induction over a finite set it takes a smallest counterexample instead (`SmallestSubset`, from the
well-foundedness of set inclusion), and over numbers the least bound of a set.

Only model-checked: `RequestsEnd` and `OrphansRemoved`, which are liveness under fairness. Every safety
and action property of a run is the statement of a theorem. `LivesGoForward` is proved and has no run. tlapm does not instantiate the theorems of
an INSTANCE, so that `TimesheetsProofs` and `ExpensesProofs` hold of the application is the
two refinements read together with them, not a theorem of its own.

## 5. Not modelled

* Interleavings of two commands inside the database beyond those of `InvoiceRequests`,
  `BillingRequests`, `Accounts` and `Attachments`: a draft's update against its issue, two batches
  of one user against the daily cap, a removal against an insert.
* Sign-in, passwords, tokens, sessions and rate limits; names, addresses and the other columns no
  rule reads; the HTTP schemas; page layout (`theme.py`, `rendering.py`, `spreadsheet.py`);
  the invoices' half of the accountant package and the month's totals by currency; the
  migrations; the frontend. They keep no state a rule of the flow depends on, or are pure
  formatting.
* The configuration and status of backups, and the engine's pool: their state is the
  operating system's or the library's.

## 6. Plan

Done: all the modules of section 2 and the proofs of section 4. What would come next, in this order:

1. The lines and totals of a draft in `InvoiceRequests`, with `UpdateDraft`: an issued invoice is
   "immutable" (invoices/contracts.py:27).
2. Deleting and voiding the invoice in `BillingRequests`, and the daily cap of two batches.
3. The theorems of the timesheets and expenses modules carried over to the application by name.
