----------------------------- MODULE InvoicesProofs -----------------------------
(* What an issued invoice says stays so, and numbers have no gaps, for any   *)
(* number of invoices, periods, lines and amounts.                           *)
EXTENDS Invoices, TLAPS

\* Every step is one command on one invoice, or the settings form.
LEMMA StepCases ==
    ASSUME [Next]_vars
    PROVE  \/ \E i \in Invoices, refs, invoiceable \in SUBSET Periods, rated \in BOOLEAN :
                \E generated \in PartialFunctions(UNION {Generated[r] : r \in refs}, Amounts) :
                  CreateDraft(i, refs, invoiceable, generated, rated)
           \/ \E i \in Invoices, typed \in PartialFunctions(Origins, Amounts),
                 deletions \in SUBSET Origins : UpdateDraft(i, typed, deletions)
           \/ \E i \in Invoices : DeleteDraft(i)
           \/ \E i \in Invoices, parties \in Parties : IssueInvoice(i, parties)
           \/ \E i \in Invoices : MarkPaid(i) \/ VoidInvoice(i)
           \/ \E next \in Numbers : SaveSettings(next)
           \/ UNCHANGED vars
  BY DEF Next, DraftStep, IssuedStep, SettingsStep

-----------------------------------------------------------------------------
(* The inductive invariant *)

\* The columns that say who an invoice is: every one but the lines, their
\* total and the page that prints them.
ColumnsOK ==
    /\ status \in [Invoices -> InvoiceStatus \cup {"none"}]
    /\ number \in [Invoices -> Numbers \cup {NoNumber}]
    /\ snapshot \in [Invoices -> Parties \cup {NoParties}]
    /\ nextNumber \in 1..(MaxNumber + 1)
    /\ resumed \in 1..(MaxNumber + 1)

\* The other columns have a value for every invoice.
ColumnsTotal ==
    /\ lines = [i \in Invoices |-> lines[i]]
    /\ total = [i \in Invoices |-> total[i]]
    /\ pdf = [i \in Invoices |-> pdf[i]]

\* The columns keep their types, and no invoice is without a value.
LEMMA ColumnsInvariant == Spec => [](ColumnsOK /\ ColumnsTotal)
<1> USE InvoicesAssumption DEF InvoicesAssumption
<1>1. Init => ColumnsOK /\ ColumnsTotal
  BY DEF Init, ColumnsOK, ColumnsTotal, Numbers
<1>2. ColumnsOK /\ ColumnsTotal /\ [Next]_vars => ColumnsOK'
  <2> SUFFICES ASSUME ColumnsOK, [Next]_vars
               PROVE  ColumnsOK'
    OBVIOUS
  <2> USE DEF ColumnsOK, InvoiceStatus, Numbers
  <2>1. ASSUME NEW i \in Invoices, NEW refs, NEW invoiceable, NEW generated, NEW rated,
               CreateDraft(i, refs, invoiceable, generated, rated)
        PROVE  ColumnsOK'
    BY <2>1 DEF CreateDraft
  <2>2. ASSUME NEW i \in Invoices, NEW typed, NEW deletions, UpdateDraft(i, typed, deletions)
        PROVE  ColumnsOK'
    BY <2>2 DEF UpdateDraft
  <2>3. ASSUME NEW i \in Invoices, DeleteDraft(i) \/ MarkPaid(i) \/ VoidInvoice(i)
        PROVE  ColumnsOK'
    BY <2>3 DEF DeleteDraft, MarkPaid, VoidInvoice
  <2>4. ASSUME NEW i \in Invoices, NEW parties \in Parties, IssueInvoice(i, parties)
        PROVE  ColumnsOK'
    BY <2>4 DEF IssueInvoice, AllocateInvoiceNumber
  <2>5. ASSUME NEW next \in Numbers, SaveSettings(next)
        PROVE  ColumnsOK'
    BY <2>5 DEF SaveSettings, rows
  <2>6. CASE UNCHANGED vars
    BY <2>6 DEF vars, rows
  <2> QED
    BY <2>1, <2>2, <2>3, <2>4, <2>5, <2>6, StepCases
<1>3. ColumnsTotal /\ [Next]_vars => ColumnsTotal'
  <2> SUFFICES ASSUME ColumnsTotal, [Next]_vars
               PROVE  ColumnsTotal'
    OBVIOUS
  <2> USE DEF ColumnsTotal
  <2>1. ASSUME NEW i \in Invoices, NEW refs, NEW invoiceable, NEW generated, NEW rated,
               CreateDraft(i, refs, invoiceable, generated, rated)
        PROVE  ColumnsTotal'
    BY <2>1 DEF CreateDraft
  <2>2. ASSUME NEW i \in Invoices, NEW typed, NEW deletions, UpdateDraft(i, typed, deletions)
        PROVE  ColumnsTotal'
    BY <2>2 DEF UpdateDraft
  <2>3. ASSUME NEW i \in Invoices, DeleteDraft(i) \/ MarkPaid(i) \/ VoidInvoice(i)
        PROVE  ColumnsTotal'
    BY <2>3 DEF DeleteDraft, MarkPaid, VoidInvoice
  <2>4. ASSUME NEW i \in Invoices, NEW parties, IssueInvoice(i, parties)
        PROVE  ColumnsTotal'
    BY <2>4 DEF IssueInvoice
  <2>5. ASSUME NEW next, SaveSettings(next)
        PROVE  ColumnsTotal'
    BY <2>5 DEF SaveSettings, rows
  <2>6. CASE UNCHANGED vars
    BY <2>6 DEF vars, rows
  <2> QED
    BY <2>1, <2>2, <2>3, <2>4, <2>5, <2>6, StepCases
<1> QED
  BY <1>1, <1>2, <1>3, PTL DEF Spec

-----------------------------------------------------------------------------
(* Pages *)

\* A stored page prints the number, lines, total and parties its rows still hold:
\* only drafts change their rows, and they have no page.
THEOREM PagesMatchRows == Spec => []PdfMatchesRows
<1> USE InvoicesAssumption DEF InvoicesAssumption
<1>1. Init => PdfMatchesRows
  BY DEF Init, PdfMatchesRows
<1>2. ColumnsOK /\ ColumnsTotal /\ PdfMatchesRows /\ [Next]_vars => PdfMatchesRows'
  <2> SUFFICES ASSUME ColumnsOK, ColumnsTotal, PdfMatchesRows, [Next]_vars,
                      NEW j \in Invoices
               PROVE  PdfMatchesRows!(j)'
    BY DEF PdfMatchesRows
  <2> USE DEF ColumnsOK, ColumnsTotal, PdfMatchesRows
  <2>1. ASSUME NEW i \in Invoices, NEW refs, NEW invoiceable, NEW generated, NEW rated,
               CreateDraft(i, refs, invoiceable, generated, rated)
        PROVE  PdfMatchesRows!(j)'
    <3>1. CASE i = j
      BY <2>1, <3>1 DEF CreateDraft
    <3>2. CASE i # j
      BY <2>1, <3>2 DEF CreateDraft
    <3> QED
      BY <3>1, <3>2
  <2>2. ASSUME NEW i \in Invoices, NEW typed, NEW deletions, UpdateDraft(i, typed, deletions)
        PROVE  PdfMatchesRows!(j)'
    <3>1. CASE i = j
      BY <2>2, <3>1 DEF UpdateDraft
    <3>2. CASE i # j
      BY <2>2, <3>2 DEF UpdateDraft
    <3> QED
      BY <3>1, <3>2
  <2>3. ASSUME NEW i \in Invoices, DeleteDraft(i)
        PROVE  PdfMatchesRows!(j)'
    BY <2>3 DEF DeleteDraft
  <2>4. ASSUME NEW i \in Invoices, NEW parties \in Parties, IssueInvoice(i, parties)
        PROVE  PdfMatchesRows!(j)'
    <3>1. CASE i = j
      BY <2>4, <3>1 DEF IssueInvoice
    <3>2. CASE i # j
      BY <2>4, <3>2 DEF IssueInvoice
    <3> QED
      BY <3>1, <3>2
  <2>5. ASSUME NEW i \in Invoices, MarkPaid(i) \/ VoidInvoice(i)
        PROVE  PdfMatchesRows!(j)'
    BY <2>5 DEF MarkPaid, VoidInvoice
  <2>6. ASSUME NEW next, SaveSettings(next)
        PROVE  PdfMatchesRows!(j)'
    BY <2>6 DEF SaveSettings, rows
  <2>7. CASE UNCHANGED vars
    BY <2>7 DEF vars, rows
  <2> QED
    BY <2>1, <2>2, <2>3, <2>4, <2>5, <2>6, <2>7, StepCases
<1> QED
  BY <1>1, <1>2, ColumnsInvariant, PTL DEF Spec

-----------------------------------------------------------------------------
(* Totals *)

\* An invoice without lines adds up to nothing.
LEMMA SumOfNoLines == Sum(NoLines) = 0
<1> DEFINE Iter(it) == it = [s \in SUBSET {} |->
                               IF s = {} THEN 0
                               ELSE LET o == CHOOSE o \in s : TRUE IN NoLines[o] + it[s \ {o}]]
           sum == CHOOSE it : Iter(it)
<1>1. LinesOf(NoLines) = {}
  BY DEF LinesOf, NoLines
<1>2. Sum(NoLines) = sum[{}]
  BY <1>1 DEF Sum, FoldFunctionOnSet, MapThenFoldSet
<1>3. Iter([s \in SUBSET {} |-> 0])
  OBVIOUS
<1>4. Iter(sum)
  BY <1>3
<1> HIDE DEF sum
<1> QED
  BY <1>2, <1>4

\* An invoice's total is the sum of its lines: each command that writes lines
\* sums what it has written.
THEOREM TotalsAddUp == Spec => []TotalIsSum
<1>1. Init => TotalIsSum
  BY SumOfNoLines DEF Init, TotalIsSum
<1>2. ColumnsTotal /\ TotalIsSum /\ [Next]_vars => TotalIsSum'
  <2> SUFFICES ASSUME ColumnsTotal, TotalIsSum, [Next]_vars, NEW j \in Invoices
               PROVE  total'[j] = Sum(lines'[j])
    BY DEF TotalIsSum
  <2>1. total[j] = Sum(lines[j])
    BY DEF TotalIsSum
  <2>2. CASE UNCHANGED <<lines, total>>
    BY <2>1, <2>2
  <2>3. ASSUME NEW i \in Invoices, NEW new,
               lines' = [lines EXCEPT ![i] = new],
               total' = [total EXCEPT ![i] = Sum(lines'[i])]
        PROVE  total'[j] = Sum(lines'[j])
    BY <2>1, <2>3 DEF ColumnsTotal
  <2>4. ASSUME NEW i \in Invoices, NEW refs, NEW invoiceable, NEW generated, NEW rated,
               CreateDraft(i, refs, invoiceable, generated, rated)
        PROVE  total'[j] = Sum(lines'[j])
    BY <2>3, <2>4 DEF CreateDraft
  <2>5. ASSUME NEW i \in Invoices, NEW typed, NEW deletions, UpdateDraft(i, typed, deletions)
        PROVE  total'[j] = Sum(lines'[j])
    BY <2>3, <2>5 DEF UpdateDraft
  <2>6. ASSUME NEW i \in Invoices, DeleteDraft(i)
        PROVE  total'[j] = Sum(lines'[j])
    BY <2>1, <2>6, SumOfNoLines DEF DeleteDraft, ColumnsTotal
  <2>7. ASSUME NEW i \in Invoices,
               (\E parties : IssueInvoice(i, parties)) \/ MarkPaid(i) \/ VoidInvoice(i)
        PROVE  UNCHANGED <<lines, total>>
    BY <2>7 DEF IssueInvoice, MarkPaid, VoidInvoice
  <2>8. ASSUME NEW next, SaveSettings(next)
        PROVE  UNCHANGED <<lines, total>>
    BY <2>8 DEF SaveSettings, rows
  <2>9. CASE UNCHANGED vars
    BY <2>2, <2>9 DEF vars, rows
  <2> QED
    BY <2>2, <2>4, <2>5, <2>6, <2>7, <2>8, <2>9, StepCases
<1> QED
  BY <1>1, <1>2, ColumnsInvariant, PTL DEF Spec

-----------------------------------------------------------------------------
(* Numbers *)

\* Every number the counter has passed since it was last set is on exactly one invoice.
THEOREM NumbersHaveNoGaps == Spec => []NumbersGapless
<1> USE InvoicesAssumption DEF InvoicesAssumption
<1>1. Init => NumbersGapless
  BY DEF Init, NumbersGapless, Numbers
<1>2. ColumnsOK /\ PdfMatchesRows /\ NumbersGapless /\ [Next]_vars => NumbersGapless'
  <2> SUFFICES ASSUME ColumnsOK, PdfMatchesRows, NumbersGapless, [Next]_vars
               PROVE  NumbersGapless'
    OBVIOUS
  <2> USE DEF NumbersGapless
  <2>1. ASSUME NEW i \in Invoices, NEW parties, IssueInvoice(i, parties)
        PROVE  NumbersGapless'
    <3> USE DEF ColumnsOK
    <3>1. number[i] = NoNumber
      BY <2>1 DEF IssueInvoice, PdfMatchesRows
    <3>2. /\ number' = [number EXCEPT ![i] = nextNumber]
          /\ \A j \in Invoices : number[j] # nextNumber
          /\ nextNumber' = nextNumber + 1
          /\ resumed' = resumed
      BY <2>1 DEF IssueInvoice, AllocateInvoiceNumber
    <3>3. ASSUME NEW n \in Numbers, resumed' <= n, n < nextNumber'
          PROVE  \E j \in Invoices : number'[j] = n
      <4>1. CASE n = nextNumber
        BY <3>2, <4>1
      <4>2. CASE n # nextNumber
        <5>1. n < nextNumber
          BY <3>2, <3>3, <4>2 DEF Numbers
        <5>2. PICK j \in Invoices : number[j] = n
          BY <3>2, <3>3, <5>1
        <5>3. j # i
          BY <3>1, <5>2
        <5> QED
          BY <3>2, <5>2, <5>3
      <4> QED
        BY <4>1, <4>2
    <3>4. ASSUME NEW j \in Invoices, NEW k \in Invoices,
                 number'[j] = number'[k], number'[j] # NoNumber
          PROVE  j = k
      BY <3>2, <3>4
    <3> QED
      BY <3>3, <3>4
  <2>2. ASSUME NEW next \in Numbers, SaveSettings(next)
        PROVE  NumbersGapless'
    BY <2>2 DEF SaveSettings, rows, Numbers
  <2>3. CASE UNCHANGED <<number, nextNumber, resumed>>
    BY <2>3
  <2>4. ASSUME NEW i \in Invoices,
               \/ \E refs, invoiceable, generated, rated :
                    CreateDraft(i, refs, invoiceable, generated, rated)
               \/ \E typed, deletions : UpdateDraft(i, typed, deletions)
               \/ DeleteDraft(i) \/ MarkPaid(i) \/ VoidInvoice(i)
        PROVE  UNCHANGED <<number, nextNumber, resumed>>
    BY <2>4 DEF CreateDraft, UpdateDraft, DeleteDraft, MarkPaid, VoidInvoice
  <2>5. CASE UNCHANGED vars
    BY <2>3, <2>5 DEF vars, rows
  <2> QED
    BY <2>1, <2>2, <2>3, <2>4, <2>5, StepCases
<1> QED
  BY <1>1, <1>2, ColumnsInvariant, PagesMatchRows, PTL DEF Spec

-----------------------------------------------------------------------------
(* An invoice's life *)

\* No step takes an invoice back in its life.
THEOREM LivesGoForward == Spec => LifeIsForward
<1>1. ColumnsOK /\ [Next]_vars => \A i \in Invoices : Rank[status[i]] <= Rank[status'[i]]
  <2> SUFFICES ASSUME ColumnsOK, [Next]_vars, NEW j \in Invoices
               PROVE  Rank[status[j]] <= Rank[status'[j]]
    OBVIOUS
  <2> USE DEF ColumnsOK, InvoiceStatus, Rank
  <2>1. ASSUME NEW i \in Invoices, NEW refs, NEW invoiceable, NEW generated, NEW rated,
               CreateDraft(i, refs, invoiceable, generated, rated)
        PROVE  Rank[status[j]] <= Rank[status'[j]]
    BY <2>1 DEF CreateDraft
  <2>2. ASSUME NEW i \in Invoices, NEW parties, IssueInvoice(i, parties)
        PROVE  Rank[status[j]] <= Rank[status'[j]]
    BY <2>2 DEF IssueInvoice
  <2>3. ASSUME NEW i \in Invoices, DeleteDraft(i) \/ MarkPaid(i) \/ VoidInvoice(i)
        PROVE  Rank[status[j]] <= Rank[status'[j]]
    BY <2>3 DEF DeleteDraft, MarkPaid, VoidInvoice
  <2>4. CASE UNCHANGED status
    BY <2>4
  <2>5. ASSUME NEW next, SaveSettings(next)
        PROVE  UNCHANGED status
    BY <2>5 DEF SaveSettings, rows
  <2>6. ASSUME NEW i, NEW typed, NEW deletions, UpdateDraft(i, typed, deletions)
        PROVE  UNCHANGED status
    BY <2>6 DEF UpdateDraft
  <2>7. CASE UNCHANGED vars
    BY <2>4, <2>7 DEF vars, rows
  <2> QED
    BY <2>1, <2>2, <2>3, <2>4, <2>5, <2>6, <2>7, StepCases
<1> QED
  BY <1>1, ColumnsInvariant, PTL DEF Spec, LifeIsForward
=============================================================================
