---------------------------- MODULE InvoiceRequests ----------------------------
(***************************************************************************)
(* Commands on invoices as the database runs them: READ COMMITTED          *)
(* transactions that check an invoice's status in one statement and write  *)
(* it in a later one, with nothing locked in between.  Issuing takes the   *)
(* lock of the settings row to draw a number, then that of the invoice,    *)
(* and renders the page, which may take seconds, before it commits.        *)
(*                                                                         *)
(* Only the status, the number and the page's number are kept here; the    *)
(* invoices are drafts that CreateInvoiceDraft has left.  The settings     *)
(* form is not saved meanwhile: Invoices covers a counter set back.        *)
(***************************************************************************)
EXTENDS Naturals

CONSTANTS
    Requests,       \* HTTP requests, each running one command once
    Invoices,
    NoRequest,      \* a row nobody holds the lock of
    NoNumber,       \* number is NULL
    MaxNumber       \* bound on the counter

VARIABLES
    status,         \* committed: the status of an invoice, "none" when deleted
    number,         \* committed
    page,           \* committed: the number the stored PDF prints
    nextNumber,     \* committed: company_settings.next_invoice_number
    step,           \* how far a request's transaction is
    command,        \* what it runs
    target,         \* the invoice it names
    drawn,          \* the number it has drawn and not committed
    settingsLock,   \* the request holding the settings row FOR UPDATE
    rowLock         \* the request that has written an invoice's row uncommitted

rows  == <<status, number, page, nextNumber>>
locks == <<settingsLock, rowLock>>
rvars == <<rows, step, command, target, drawn, locks>>

-----------------------------------------------------------------------------
InvoiceCommands == {"issue", "pay", "void", "delete"}
Steps           == {"unsent", "checked", "numbered", "rendered", "ended"}
RunningSteps    == {"checked", "numbered", "rendered"}
Numbers         == 1..MaxNumber

ASSUME InvoiceRequestsAssumption ==
    /\ MaxNumber \in Nat
    /\ NoNumber \notin Nat
    /\ NoRequest \notin Requests

RequestTypes ==
    /\ status \in [Invoices -> {"none", "draft", "issued", "paid", "void"}]
    /\ number \in [Invoices -> Numbers \cup {NoNumber}]
    /\ page \in [Invoices -> Numbers \cup {NoNumber}]
    /\ nextNumber \in 1..(MaxNumber + 1)
    /\ step \in [Requests -> Steps]
    /\ command \in [Requests -> InvoiceCommands]
    /\ target \in [Requests -> Invoices]
    /\ drawn \in [Requests -> Numbers \cup {NoNumber}]
    /\ settingsLock \in Requests \cup {NoRequest}
    /\ rowLock \in [Invoices -> Requests \cup {NoRequest}]

InitRequests ==
    /\ status = [i \in Invoices |-> "draft"]
    /\ number = [i \in Invoices |-> NoNumber]
    /\ page = [i \in Invoices |-> NoNumber]
    /\ nextNumber = 1
    /\ step = [r \in Requests |-> "unsent"]
    /\ command \in [Requests -> InvoiceCommands]
    /\ target \in [Requests -> Invoices]
    /\ drawn = [r \in Requests |-> NoNumber]
    /\ settingsLock = NoRequest
    /\ rowLock = [i \in Invoices |-> NoRequest]

-----------------------------------------------------------------------------
\* The statuses a command accepts.
Accepts == [c \in InvoiceCommands |->
    CASE c = "pay"  -> {"issued"}
      [] c = "void" -> {"issued", "paid"}
      [] OTHER      -> {"draft"}]

\* The first statement: SELECT the invoice and check its status.
Check(r) ==
    /\ step[r] = "unsent"
    /\ status[target[r]] \in Accepts[command[r]]
    /\ step' = [step EXCEPT ![r] = "checked"]
    /\ UNCHANGED <<rows, command, target, drawn, locks>>

Release(r) ==
    /\ settingsLock' = IF settingsLock = r THEN NoRequest ELSE settingsLock
    /\ rowLock' = [i \in Invoices |-> IF rowLock[i] = r THEN NoRequest ELSE rowLock[i]]

\* Mutant of End: a rolled back transaction keeps its row locks.
End_KeepsRows(r) ==
    /\ step' = [step EXCEPT ![r] = "ended"]
    /\ drawn' = [drawn EXCEPT ![r] = NoNumber]
    /\ settingsLock' = IF settingsLock = r THEN NoRequest ELSE settingsLock
    /\ UNCHANGED <<command, target, rowLock>>

\* A commit or a rollback ends the transaction and gives its locks back.
End(r) ==
    /\ step' = [step EXCEPT ![r] = "ended"]
    /\ drawn' = [drawn EXCEPT ![r] = NoNumber]
    /\ Release(r)
    /\ UNCHANGED <<command, target>>

\* A raise before the commit, a cancelled request or the death of the server.
RollBack(r) ==
    /\ step[r] \in RunningSteps
    /\ End(r)
    /\ UNCHANGED rows

-----------------------------------------------------------------------------
(* IssueInvoice *)

\* Mutant of AllocateNumber: SELECT without FOR UPDATE.
AllocateNumber_Unlocked(r) ==
    /\ step[r] = "checked"
    /\ command[r] = "issue"
    /\ nextNumber <= MaxNumber
    /\ drawn' = [drawn EXCEPT ![r] = nextNumber]
    /\ step' = [step EXCEPT ![r] = "numbered"]
    /\ UNCHANGED <<rows, command, target, locks>>

\* SELECT ... FOR UPDATE returns the counter as last committed, once the lock is free.
AllocateNumber(r) ==
    /\ step[r] = "checked"
    /\ command[r] = "issue"
    /\ settingsLock = NoRequest
    /\ nextNumber <= MaxNumber
    /\ settingsLock' = r
    /\ drawn' = [drawn EXCEPT ![r] = nextNumber]
    /\ step' = [step EXCEPT ![r] = "numbered"]
    /\ UNCHANGED <<rows, command, target, rowLock>>

\* UPDATE the invoice by its id: it waits for the row's lock and does not look at
\* the status again.
WriteNumber(r) ==
    /\ step[r] = "numbered"
    /\ rowLock[target[r]] = NoRequest
    /\ status[target[r]] # "none"
    /\ \A i \in Invoices : number[i] # drawn[r]
    /\ rowLock' = [rowLock EXCEPT ![target[r]] = r]
    /\ step' = [step EXCEPT ![r] = "rendered"]
    /\ UNCHANGED <<rows, command, target, drawn, settingsLock>>

\* Mutant of CommitIssue: a number that is already there is kept.
CommitIssue_KeepsNumber(r) ==
    /\ step[r] = "rendered"
    /\ status' = [status EXCEPT ![target[r]] = "issued"]
    /\ number' = [number EXCEPT ![target[r]] = IF @ = NoNumber THEN drawn[r] ELSE @]
    /\ page' = [page EXCEPT ![target[r]] = drawn[r]]
    /\ nextNumber' = drawn[r] + 1
    /\ End(r)

CommitIssue(r) ==
    /\ step[r] = "rendered"
    /\ status' = [status EXCEPT ![target[r]] = "issued"]
    /\ number' = [number EXCEPT ![target[r]] = drawn[r]]
    /\ page' = [page EXCEPT ![target[r]] = drawn[r]]
    /\ nextNumber' = drawn[r] + 1
    /\ End(r)

-----------------------------------------------------------------------------
(* MarkInvoicePaid, VoidInvoice and DeleteInvoiceDraft: written and committed at *)
(* once, by id, when the row is free                                             *)

OutcomeOf == [c \in {"pay", "void"} |-> IF c = "pay" THEN "paid" ELSE "void"]

CommitStatus(r) ==
    /\ step[r] = "checked"
    /\ command[r] \in {"pay", "void"}
    /\ rowLock[target[r]] = NoRequest
    /\ status[target[r]] # "none"
    /\ status' = [status EXCEPT ![target[r]] = OutcomeOf[command[r]]]
    /\ End(r)
    /\ UNCHANGED <<number, page, nextNumber>>

CommitDelete(r) ==
    /\ step[r] = "checked"
    /\ command[r] = "delete"
    /\ rowLock[target[r]] = NoRequest
    /\ status' = [status EXCEPT ![target[r]] = "none"]
    /\ number' = [number EXCEPT ![target[r]] = NoNumber]
    /\ page' = [page EXCEPT ![target[r]] = NoNumber]
    /\ End(r)
    /\ UNCHANGED nextNumber

-----------------------------------------------------------------------------
\* An UPDATE by id that finds the row deleted, or the number taken, raises.
Refused(r) ==
    /\ \/ step[r] = "numbered"
       \/ step[r] = "checked" /\ command[r] \in {"pay", "void"}
    /\ rowLock[target[r]] = NoRequest
    /\ \/ status[target[r]] = "none"
       \/ \E i \in Invoices : number[i] = drawn[r] /\ drawn[r] # NoNumber
    /\ End(r)
    /\ UNCHANGED rows

\* What a transaction does next of its own accord.
Proceed(r) ==
    \/ AllocateNumber(r)
    \/ WriteNumber(r)
    \/ CommitIssue(r)
    \/ CommitStatus(r)
    \/ CommitDelete(r)
    \/ Refused(r)

NextRequests == \E r \in Requests : Check(r) \/ Proceed(r) \/ RollBack(r)

SpecRequests == InitRequests /\ [][NextRequests]_rvars

\* The event loop resumes a coroutine whose statement has returned, so one that is
\* not waiting for a lock goes on.  Nothing obliges it to roll back.
FairSpec == SpecRequests /\ \A r \in Requests : WF_rvars(Proceed(r))

-----------------------------------------------------------------------------
(* Properties *)

\* company/repository.py:22: concurrent allocations "serialize instead of racing".
\* While a number is drawn and not committed, no invoice has it, no other request
\* has drawn it, and the counter has not moved: the unique constraint on the
\* number is never what decides.
AllocationsSerialize ==
    \A r \in Requests : drawn[r] # NoNumber =>
        /\ drawn[r] = nextNumber
        /\ \A i \in Invoices : number[i] # drawn[r]
        /\ \A q \in Requests : drawn[q] = drawn[r] => q = r

\* However requests overlap, an invoice that stands prints the number it has: a
\* second issue that read the draft before the first committed replaces both.
PagePrintsNumber ==
    \A i \in Invoices :
        /\ page[i] = number[i]
        /\ status[i] \in {"issued", "paid", "void"} => number[i] # NoNumber

\* A request that has begun ends: the locks are taken in one order, and no
\* transaction leaves one behind.
RequestsEnd == \A r \in Requests : step[r] \in RunningSteps ~> step[r] = "ended"
=============================================================================
