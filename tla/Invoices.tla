------------------------------- MODULE Invoices -------------------------------
(***************************************************************************)
(* The invoices module: drafts generated from billing periods, their life  *)
(* draft -> issued -> paid -> void, the record of the periods they cover   *)
(* and the numbers they draw from the company's counter.                   *)
(*                                                                         *)
(* A line is known by its origin: a billing item's time in a period or one *)
(* expense line of it when it was generated, a row of its own when it was  *)
(* typed in.  It carries its amount; wording, dates and VAT stay out.      *)
(* Marking and freeing the periods themselves is a nested command to the   *)
(* timesheets module, which TimeReporting conjoins to the actions here.    *)
(***************************************************************************)
EXTENDS Naturals, FiniteSets, Functions

CONSTANTS
    Invoices,
    Periods,        \* (project, month) pairs
    Generated,      \* [Periods -> origins of the lines one may generate]
    ManualLines,    \* origins of typed-in lines
    Amounts,        \* amounts a line may have
    Parties,        \* what a seller's and a buyer's profile may say
    NoLine,         \* no such invoice_lines row
    NoParties,      \* seller_snapshot and buyer_snapshot are NULL
    NoPdf,          \* pdf is NULL
    NoNumber,       \* number is NULL
    MaxNumber       \* bound on the counter

VARIABLES
    status,         \* invoices: the status of an invoice, "none" when no row
    number,
    lines,          \* invoice_lines: the amount of an (invoice, origin), or NoLine
    total,
    snapshot,       \* seller_snapshot and buyer_snapshot
    pdf,            \* what the stored PDF prints
    link,           \* invoice_billing_periods: the (invoice, period) rows
    nextNumber,     \* company_settings.next_invoice_number
    resumed         \* history: the counter as an administrator last saved it

rows == <<status, number, lines, total, snapshot, pdf, link>>
vars == <<rows, nextNumber, resumed>>

-----------------------------------------------------------------------------
(* Rows *)

InvoiceStatus == {"draft", "issued", "paid", "void"}
Numbers       == 1..MaxNumber
Origins       == ManualLines \cup UNION {Generated[r] : r \in Periods}

LineAmounts == [Origins -> Nat \cup {NoLine}]
PdfPage == [number : Numbers, lines : LineAmounts, total : Nat, parties : Parties]

ASSUME InvoicesAssumption ==
    /\ MaxNumber \in Nat
    /\ Amounts \subseteq Nat
    /\ NoLine \notin Nat
    /\ NoNumber \notin Numbers
    /\ NoParties \notin Parties
    /\ NoPdf \notin PdfPage

TypeOK ==
    /\ status \in [Invoices -> InvoiceStatus \cup {"none"}]
    /\ number \in [Invoices -> Numbers \cup {NoNumber}]
    /\ lines \in [Invoices -> LineAmounts]
    /\ total \in [Invoices -> Nat]
    /\ snapshot \in [Invoices -> Parties \cup {NoParties}]
    /\ pdf \in [Invoices -> PdfPage \cup {NoPdf}]
    /\ link \subseteq Invoices \X Periods
    /\ nextNumber \in 1..(MaxNumber + 1)
    /\ resumed \in 1..(MaxNumber + 1)

NoLines == [o \in Origins |-> NoLine]

Init ==
    /\ status = [i \in Invoices |-> "none"]
    /\ number = [i \in Invoices |-> NoNumber]
    /\ lines = [i \in Invoices |-> NoLines]
    /\ total = [i \in Invoices |-> 0]
    /\ snapshot = [i \in Invoices |-> NoParties]
    /\ pdf = [i \in Invoices |-> NoPdf]
    /\ link = {}
    /\ nextNumber = 1
    /\ resumed = 1

Covered(i) == {r \in Periods : <<i, r>> \in link}
LinesOf(f) == {o \in Origins : f[o] # NoLine}
Sum(f)     == FoldFunctionOnSet(+, 0, f, LinesOf(f))

\* The lines f with those of g written over them.
Overlaid(f, g) == [o \in Origins |-> IF o \in DOMAIN g THEN g[o] ELSE f[o]]

-----------------------------------------------------------------------------
(* Drafts *)

\* invoiceable: the periods of the customer's projects that are not internal,
\* are sent and belong to no invoice.  generated: the lines _generate_lines makes
\* of their export rows.  rated: none of their hour and day items lacks a rate.
\* A period may be linked once, whatever became of the invoice that linked it.
CreateDraft(i, refs, invoiceable, generated, rated) ==
    /\ refs # {}
    /\ refs \subseteq invoiceable
    /\ rated
    /\ status[i] = "none"
    /\ \A r \in refs, j \in Invoices : <<j, r>> \notin link
    /\ status' = [status EXCEPT ![i] = "draft"]
    /\ lines' = [lines EXCEPT ![i] = Overlaid(NoLines, generated)]
    /\ total' = [total EXCEPT ![i] = Sum(lines'[i])]
    /\ link' = link \cup {<<i, r>> : r \in refs}
    /\ UNCHANGED <<number, snapshot, pdf, nextNumber, resumed>>

\* Mutant of UpdateDraft: the total is summed before the deletions.
UpdateDraft_EarlyTotal(i, typed, deletions) ==
    /\ status[i] = "draft"
    /\ DOMAIN typed \subseteq LinesOf(lines[i]) \cup ManualLines
    /\ lines' = [lines EXCEPT ![i] =
         [o \in Origins |-> IF o \in deletions \cap LinesOf(lines[i])
                            THEN NoLine
                            ELSE Overlaid(lines[i], typed)[o]]]
    /\ total' = [total EXCEPT ![i] = Sum(Overlaid(lines[i], typed))]
    /\ UNCHANGED <<status, number, snapshot, pdf, link, nextNumber, resumed>>

\* One batch: typed maps a line to its new amount, adding the manual lines it
\* names; deletions may name any line.  The totals are summed over what remains.
UpdateDraft(i, typed, deletions) ==
    /\ status[i] = "draft"
    /\ DOMAIN typed \subseteq LinesOf(lines[i]) \cup ManualLines
    /\ lines' = [lines EXCEPT ![i] =
         [o \in Origins |-> IF o \in deletions \cap LinesOf(lines[i])
                            THEN NoLine
                            ELSE Overlaid(lines[i], typed)[o]]]
    /\ total' = [total EXCEPT ![i] = Sum(lines'[i])]
    /\ UNCHANGED <<status, number, snapshot, pdf, link, nextNumber, resumed>>

\* Mutant of DeleteDraft: an issued invoice may be deleted.
DeleteDraft_Issued(i) ==
    /\ status[i] # "none"
    /\ status' = [status EXCEPT ![i] = "none"]
    /\ number' = [number EXCEPT ![i] = NoNumber]
    /\ lines' = [lines EXCEPT ![i] = NoLines]
    /\ total' = [total EXCEPT ![i] = 0]
    /\ snapshot' = [snapshot EXCEPT ![i] = NoParties]
    /\ pdf' = [pdf EXCEPT ![i] = NoPdf]
    /\ link' = {k \in link : k[1] # i}
    /\ UNCHANGED <<nextNumber, resumed>>

\* Lines and period links go with the row (ON DELETE CASCADE).
DeleteDraft(i) ==
    /\ status[i] = "draft"
    /\ status' = [status EXCEPT ![i] = "none"]
    /\ lines' = [lines EXCEPT ![i] = NoLines]
    /\ total' = [total EXCEPT ![i] = 0]
    /\ link' = {k \in link : k[1] # i}
    /\ UNCHANGED <<number, snapshot, pdf, nextNumber, resumed>>

-----------------------------------------------------------------------------
(* Numbers *)

\* AllocateInvoiceNumber, nested in IssueInvoice and committed with it.
AllocateInvoiceNumber ==
    /\ nextNumber <= MaxNumber
    /\ nextNumber' = nextNumber + 1

\* UpdateCompanySettings writes every field of the form, the counter as it was
\* when the form was opened included, and does not lock the row.
SaveSettings(next) ==
    /\ nextNumber' = next
    /\ resumed' = next
    /\ UNCHANGED rows

-----------------------------------------------------------------------------
(* Issued invoices *)

\* Mutant of IssueInvoice: the page is rendered from the row without its number.
IssueInvoice_EarlyPdf(i, parties) ==
    /\ status[i] = "draft"
    /\ LinesOf(lines[i]) # {}
    /\ AllocateInvoiceNumber
    /\ \A j \in Invoices : number[j] # nextNumber
    /\ number' = [number EXCEPT ![i] = nextNumber]
    /\ snapshot' = [snapshot EXCEPT ![i] = parties]
    /\ pdf' = [pdf EXCEPT ![i] =
         [number |-> number[i], lines |-> lines[i], total |-> total[i], parties |-> parties]]
    /\ status' = [status EXCEPT ![i] = "issued"]
    /\ UNCHANGED <<lines, total, link, resumed>>

\* parties: the company profile and the customer as they are now, the profile
\* complete.  A number another invoice has breaks the column's unique constraint.
\* The number is saved first, so that the page rendered from the row prints it.
IssueInvoice(i, parties) ==
    /\ status[i] = "draft"
    /\ LinesOf(lines[i]) # {}
    /\ AllocateInvoiceNumber
    /\ \A j \in Invoices : number[j] # nextNumber
    /\ number' = [number EXCEPT ![i] = nextNumber]
    /\ snapshot' = [snapshot EXCEPT ![i] = parties]
    /\ pdf' = [pdf EXCEPT ![i] =
         [number |-> number'[i], lines |-> lines[i], total |-> total[i], parties |-> parties]]
    /\ status' = [status EXCEPT ![i] = "issued"]
    /\ UNCHANGED <<lines, total, link, resumed>>

MarkPaid(i) ==
    /\ status[i] = "issued"
    /\ status' = [status EXCEPT ![i] = "paid"]
    /\ UNCHANGED <<number, lines, total, snapshot, pdf, link, nextNumber, resumed>>

\* The links stay: only the timesheets side forgets the invoice.
VoidInvoice(i) ==
    /\ status[i] \in {"issued", "paid"}
    /\ status' = [status EXCEPT ![i] = "void"]
    /\ UNCHANGED <<number, lines, total, snapshot, pdf, link, nextNumber, resumed>>

-----------------------------------------------------------------------------
\* The partial functions from S to T.
PartialFunctions(S, T) == UNION {[D -> T] : D \in SUBSET S}

DraftStep ==
    \E i \in Invoices :
        \/ \E refs, invoiceable \in SUBSET Periods, rated \in BOOLEAN :
             \E generated \in PartialFunctions(UNION {Generated[r] : r \in refs}, Amounts) :
               CreateDraft(i, refs, invoiceable, generated, rated)
        \/ \E typed \in PartialFunctions(Origins, Amounts), deletions \in SUBSET Origins :
             UpdateDraft(i, typed, deletions)
        \/ DeleteDraft(i)

IssuedStep ==
    \E i \in Invoices :
        \/ \E parties \in Parties : IssueInvoice(i, parties)
        \/ MarkPaid(i)
        \/ VoidInvoice(i)

SettingsStep == \E next \in Numbers : SaveSettings(next)

Next == DraftStep \/ IssuedStep \/ SettingsStep

Spec == Init /\ [][Next]_vars

-----------------------------------------------------------------------------
(* Properties *)

\* An invoice's total is the sum of its lines, whatever mix of edits, additions
\* and deletions one update of the draft carries.
TotalIsSum == \A i \in Invoices : total[i] = Sum(lines[i])

\* The PDF of an issued invoice, rendered once and kept through payment and
\* voiding, prints the number, lines, total and parties its rows still hold, and
\* a draft has neither number nor PDF.
PdfMatchesRows ==
    \A i \in Invoices :
        IF status[i] \in {"none", "draft"}
        THEN number[i] = NoNumber /\ snapshot[i] = NoParties /\ pdf[i] = NoPdf
        ELSE pdf[i] = [number |-> number[i], lines |-> lines[i],
                       total |-> total[i], parties |-> snapshot[i]]

\* No number is burned: each one the counter has passed since it was last set is
\* on an invoice, a voided one perhaps, and never on two.
NumbersGapless ==
    /\ \A n \in Numbers :
         resumed <= n /\ n < nextNumber => \E i \in Invoices : number[i] = n
    /\ \A i, j \in Invoices : number[i] = number[j] /\ number[i] # NoNumber => i = j

\* An issued invoice never becomes a draft again, is never deleted, and a void
\* one stays void: its number stays accounted for.
Rank == [s \in InvoiceStatus \cup {"none"} |->
            CASE s = "issued" -> 1 [] s = "paid" -> 2 [] s = "void" -> 3 [] OTHER -> 0]

LifeIsForward == [][\A i \in Invoices : Rank[status[i]] <= Rank[status'[i]]]_vars
=============================================================================
