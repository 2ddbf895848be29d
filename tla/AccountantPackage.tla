--------------------------- MODULE AccountantPackage ---------------------------
(***************************************************************************)
(* The expense half of the monthly accountant package: which reports of a  *)
(* month go into it, the row each line gets, and the file each receipt is  *)
(* put into.  It is a query over the rows of Expenses, in one snapshot     *)
(* here; its order (reports as the database returns them, lines by         *)
(* position, receipts by upload) is any one order, as no two runs of it    *)
(* need agree.                                                             *)
(***************************************************************************)
EXTENDS Expenses, SequencesExt

\* The rows of a table are finitely many.
ASSUME PackageAssumption ==
    /\ IsFiniteSet(Users)
    /\ IsFiniteSet(Projects)
    /\ IsFiniteSet(Lines)
    /\ IsFiniteSet(Attachments)

-----------------------------------------------------------------------------
(* What the expenses module answers *)

MonthOf(m) == {r \in Reports : r[3] = m /\ status[r] # "none"}

\* Mutant of ApprovedReports: whatever has been submitted goes in.
ApprovedReports_Submitted(m) == {r \in MonthOf(m) : status[r] \in ReviewableStatuses}

ApprovedReports(m) == {r \in MonthOf(m) : status[r] = "approved"}

\* CountMonthReportsNotApproved, which the page shows before the download.
NotApproved(m) == Cardinality({r \in MonthOf(m) : status[r] # "approved"})

\* A report's receipts are grouped by their line_id, which is NULL for some.
ReceiptsOf(r, l) == {a \in AttachmentsOf(r) : attachment[a].line = l}

ExpenseMonthReport(r) ==
    [id       |-> r,
     lines    |-> {[id |-> l, receipts |-> SetToSeq(ReceiptsOf(r, l))] : l \in LinesOf(r)},
     unlinked |-> SetToSeq(ReceiptsOf(r, NoLine))]

-----------------------------------------------------------------------------
(* build_package *)

Empty == [rows |-> {}, files |-> {}, next |-> 1]

\* Mutant of AddLine: each line numbers its receipts from 1.
AddLine_Restarted(package, l) ==
    LET n == Len(l.receipts) IN
    [package EXCEPT
        !.rows  = @ \cup {[line |-> l.id, numbers |-> 1..n]},
        !.files = @ \cup {[name |-> <<i>>, receipt |-> l.receipts[i]] : i \in 1..n}]

\* One row, and a file per receipt of the line, which carries the next number.
AddLine(package, l) ==
    LET first == package.next
        n     == Len(l.receipts) IN
    [rows  |-> package.rows \cup {[line |-> l.id, numbers |-> first..(first + n - 1)]},
     files |-> package.files \cup {[name |-> <<first + i - 1>>, receipt |-> l.receipts[i]]
                                    : i \in 1..n},
     next  |-> first + n]

\* The others go into the report's own folder, under the names they were uploaded with.
AddUnlinked(package, report) ==
    [package EXCEPT !.files = @ \cup
        {[name |-> report.id, receipt |-> a] : a \in ToSet(report.unlinked)}]

AddReport(package, report) ==
    AddUnlinked(FoldLeft(AddLine, package, SetToSeq(report.lines)), report)

Package(m) ==
    FoldLeft(AddReport, Empty,
             SetToSeq({ExpenseMonthReport(r) : r \in ApprovedReports(m)}))

-----------------------------------------------------------------------------
(* Properties *)

LinesIn(R)    == UNION {LinesOf(r) : r \in R}
ReceiptsIn(R) == UNION {AttachmentsOf(r) : r \in R}

\* "Every *approved* report" of a month (expenses/contracts.py:238), whatever happened to
\* its lines and receipts before: the package has each line and each receipt exactly once,
\* a number names one file, and the numbers in the row of a line are those of its own
\* receipts.  With nothing left to approve, that is everything claimed for the month.
PackageHoldsMonth ==
    \A m \in Months :
        LET package  == Package(m)
            numbered == {f \in package.files : f.name \notin Reports} IN
        /\ {row.line : row \in package.rows} = LinesIn(ApprovedReports(m))
        /\ {f.receipt : f \in package.files} = ReceiptsIn(ApprovedReports(m))
        /\ Cardinality(package.rows) = Cardinality(LinesIn(ApprovedReports(m)))
        /\ Cardinality(package.files) = Cardinality(ReceiptsIn(ApprovedReports(m)))
        /\ Cardinality({f.name : f \in numbered}) = Cardinality(numbered)
        /\ \A row \in package.rows :
              {f.receipt : f \in {x \in numbered : x.name[1] \in row.numbers}}
                 = {a \in Attachments : attachment[a] # NoRow /\ attachment[a].line = row.line}
        /\ NotApproved(m) = 0 => LinesIn(ApprovedReports(m)) = LinesIn(MonthOf(m))
=============================================================================
