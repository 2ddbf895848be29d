--------------------------- MODULE TimeReportingProofs ---------------------------
(* What the modules record twice they record alike, for any number of users, *)
(* projects, months and invoices and whatever their commands interleave.     *)
EXTENDS TimeReporting, TLAPS

-----------------------------------------------------------------------------
(* The inductive invariant *)

\* The columns two modules share, with the parents of what they refer to.
SharedOK ==
    /\ period \in [Projects \X Months -> Invoices \cup {NotSent, NoInvoice}]
    /\ report \in [E!Reports -> {"none", "draft", "submitted", "approved", "returned"}]
    /\ locked \subseteq E!Reports
    /\ invoice \in [Invoices -> {"none", "draft", "issued", "paid", "void"}]
    /\ link \subseteq Invoices \X (Projects \X Months)

\* An invoice's links go with its row.
LinksHaveInvoices == \A k \in link : invoice[k[1]] # "none"

shared == <<period, report, locked, invoice, link>>

\* What a step does to the shared columns.
ReportMoves(r) ==
    /\ report' \in {[report EXCEPT ![r] = s] : s \in {"draft", "submitted", "approved", "returned"}}
    /\ report[r] = "approved" => r \notin locked
    /\ UNCHANGED <<period, locked, invoice, link>>

ReportGoes(r) ==
    /\ report[r] = "draft"
    /\ report' = [report EXCEPT ![r] = "none"]
    /\ locked' = locked \ {r}
    /\ UNCHANGED <<period, invoice, link>>

InvoiceGoesOn(i) ==
    /\ invoice[i] \in {"draft", "issued"}
    /\ invoice' \in {[invoice EXCEPT ![i] = s] : s \in {"issued", "paid"}}
    /\ UNCHANGED <<period, report, locked, link>>

\* Every step that touches a shared column does so in one of these ways.
LEMMA StepCases ==
    ASSUME SharedOK, [Next]_vars
    PROVE  \/ UNCHANGED shared
           \/ \E r \in E!Reports : ReportMoves(r) \/ ReportGoes(r)
           \/ \E i \in Invoices : InvoiceGoesOn(i)
           \/ \E p \in Projects, m \in Months :
                SendProjectMonthToBilling(p, m) \/ ReopenProjectBillingPeriod(p, m)
           \/ \E i \in Invoices, customer \in Customers, refs \in SUBSET (Projects \X Months) :
                CreateInvoiceDraft(i, customer, refs)
           \/ \E i \in Invoices : DeleteInvoiceDraft(i) \/ VoidInvoice(i)
<1> USE DEF shared, timesheetVars, expenseVars, invoiceVars, settingVars
<1>1. SaveWeek \/ ReviewWeek => UNCHANGED shared
  BY DEF SaveWeek, ReviewWeek, T!SaveWeek, T!SubmitWeek, T!ApproveWeek, T!ReturnWeek
<1>2. WriteReport => \/ UNCHANGED shared
                     \/ \E r \in E!Reports : ReportMoves(r) \/ ReportGoes(r)
  <2>1. ASSUME NEW r \in E!Reports, E!CreateReport(r, TRUE), UNCHANGED <<period, invoice, link>>
        PROVE  ReportMoves(r)
    BY <2>1 DEF E!CreateReport, ReportMoves
  <2>2. ASSUME NEW r \in E!Reports, E!DeleteReport(r), UNCHANGED <<period, invoice, link>>
        PROVE  ReportGoes(r)
    BY <2>2 DEF E!DeleteReport, ReportGoes
  <2>3. ASSUME NEW r, NEW updates, NEW additions, NEW deletions,
               E!SaveLines(r, updates, additions, deletions, LineValues),
               UNCHANGED <<period, invoice, link>>
        PROVE  UNCHANGED shared
    BY <2>3 DEF E!SaveLines
  <2> QED
    BY <2>1, <2>2, <2>3 DEF WriteReport
<1>3. ReviewReport => \E r \in E!Reports : ReportMoves(r)
  BY DEF ReviewReport, ReportMoves, E!SubmitReport, E!ApproveReport, E!ReturnReport, E!EditableStatuses
<1>4. EditInvoice => UNCHANGED shared \/ \E i \in Invoices : InvoiceGoesOn(i)
  <2>1. ASSUME NEW i \in Invoices, NEW parties, I!IssueInvoice(i, parties) \/ I!MarkPaid(i),
               UNCHANGED <<period, report, locked>>
        PROVE  InvoiceGoesOn(i)
    BY <2>1 DEF I!IssueInvoice, I!MarkPaid, InvoiceGoesOn
  <2>2. ASSUME NEW i, NEW typed, NEW deletions, I!UpdateDraft(i, typed, deletions),
               UNCHANGED <<period, report, locked>>
        PROVE  UNCHANGED shared
    BY <2>2 DEF I!UpdateDraft
  <2> QED
    BY <2>1, <2>2 DEF EditInvoice
<1>5. UpdateCompanySettings \/ (\E p \in Projects : UpdateProject(p)) => UNCHANGED shared
  BY DEF UpdateCompanySettings, UpdateProject, I!SaveSettings, I!rows
<1>6. UNCHANGED vars => UNCHANGED shared
  BY DEF vars
<1> QED
  BY <1>1, <1>2, <1>3, <1>4, <1>5, <1>6 DEF Next

\* The shared columns keep their types, and links have a row behind them.
LEMMA SharedInvariant == Spec => [](SharedOK /\ LinksHaveInvoices)
<1>1. Init => SharedOK /\ LinksHaveInvoices
  BY DEF Init, SharedOK, LinksHaveInvoices, T!Init, T!Periods, E!Init, I!Init
<1>2. SharedOK /\ LinksHaveInvoices /\ [Next]_vars => (SharedOK /\ LinksHaveInvoices)'
  <2> SUFFICES ASSUME SharedOK, LinksHaveInvoices, [Next]_vars
               PROVE  (SharedOK /\ LinksHaveInvoices)'
    OBVIOUS
  <2> USE DEF SharedOK, LinksHaveInvoices
  <2>1. CASE UNCHANGED shared
    BY <2>1 DEF shared
  <2>2. ASSUME NEW r \in E!Reports, ReportMoves(r) \/ ReportGoes(r)
        PROVE  (SharedOK /\ LinksHaveInvoices)'
    BY <2>2 DEF ReportMoves, ReportGoes
  <2>3. ASSUME NEW i \in Invoices, InvoiceGoesOn(i)
        PROVE  (SharedOK /\ LinksHaveInvoices)'
    BY <2>3 DEF InvoiceGoesOn
  <2>4. ASSUME NEW p \in Projects, NEW m \in Months, SendProjectMonthToBilling(p, m)
        PROVE  (SharedOK /\ LinksHaveInvoices)'
    BY <2>4 DEF SendProjectMonthToBilling, T!SendToBilling, E!LockProjectMonth, E!MonthReports, invoiceVars
  <2>5. ASSUME NEW p \in Projects, NEW m \in Months, ReopenProjectBillingPeriod(p, m)
        PROVE  (SharedOK /\ LinksHaveInvoices)'
    BY <2>5 DEF ReopenProjectBillingPeriod, T!ReopenPeriod, E!UnlockProjectMonth, invoiceVars
  <2>6. ASSUME NEW i \in Invoices, NEW customer, NEW refs \in SUBSET (Projects \X Months),
               CreateInvoiceDraft(i, customer, refs)
        PROVE  (SharedOK /\ LinksHaveInvoices)'
    BY <2>6 DEF CreateInvoiceDraft, I!CreateDraft, T!MarkInvoiced, T!Periods, expenseVars
  <2>7. ASSUME NEW i \in Invoices, DeleteInvoiceDraft(i)
        PROVE  (SharedOK /\ LinksHaveInvoices)'
    BY <2>7 DEF DeleteInvoiceDraft, I!DeleteDraft, T!ClearInvoiced, T!Periods, expenseVars
  <2>8. ASSUME NEW i \in Invoices, VoidInvoice(i)
        PROVE  (SharedOK /\ LinksHaveInvoices)'
    BY <2>8 DEF VoidInvoice, I!VoidInvoice, T!ClearInvoiced, T!Periods, expenseVars
  <2> QED
    BY <2>1, <2>2, <2>3, <2>4, <2>5, <2>6, <2>7, <2>8, StepCases
<1> QED
  BY <1>1, <1>2, PTL DEF Spec

-----------------------------------------------------------------------------
(* Locks *)

\* A locked report is approved and its month is sent, whatever order of sends,
\* reopenings, invoices, voids, reviews and deletions led here.
THEOREM LocksFollow == Spec => []LocksFollowPeriods
<1> USE TimeReportingAssumption DEF TimeReportingAssumption
<1>1. Init => LocksFollowPeriods
  BY DEF Init, LocksFollowPeriods, E!Init
<1>2. SharedOK /\ LocksFollowPeriods /\ [Next]_vars => LocksFollowPeriods'
  <2> SUFFICES ASSUME SharedOK, LocksFollowPeriods, [Next]_vars
               PROVE  LocksFollowPeriods'
    OBVIOUS
  <2> USE DEF SharedOK, LocksFollowPeriods, T!Sent, T!Periods, E!Reports
  <2>1. CASE UNCHANGED shared
    BY <2>1 DEF shared
  <2>2. ASSUME NEW r \in E!Reports, ReportMoves(r) \/ ReportGoes(r)
        PROVE  LocksFollowPeriods'
    BY <2>2 DEF ReportMoves, ReportGoes
  <2>3. ASSUME NEW i \in Invoices, InvoiceGoesOn(i)
        PROVE  LocksFollowPeriods'
    BY <2>3 DEF InvoiceGoesOn
  <2>4. ASSUME NEW p \in Projects, NEW m \in Months, SendProjectMonthToBilling(p, m)
        PROVE  LocksFollowPeriods'
    <3>1. \A r \in E!MonthReports(p, m) : report[r] = "approved"
      BY <2>4 DEF SendProjectMonthToBilling, T!SendToBilling, T!BillingReadiness, E!MonthStatuses
    <3> QED
      BY <2>4, <3>1 DEF SendProjectMonthToBilling, T!SendToBilling, E!LockProjectMonth, E!MonthReports
  <2>5. ASSUME NEW p \in Projects, NEW m \in Months, ReopenProjectBillingPeriod(p, m)
        PROVE  LocksFollowPeriods'
    <3>1. ASSUME NEW r \in locked'
          PROVE  r \in locked /\ <<r[2], r[3]>> # <<p, m>>
      BY <2>5, <3>1 DEF ReopenProjectBillingPeriod, E!UnlockProjectMonth, E!MonthReports
    <3> QED
      BY <2>5, <3>1 DEF ReopenProjectBillingPeriod, T!ReopenPeriod, E!UnlockProjectMonth
  <2>6. ASSUME UNCHANGED <<report, locked>>,
               \A r \in Projects \X Months : period[r] # NotSent => period'[r] # NotSent
        PROVE  LocksFollowPeriods'
    <3>1. \A r \in locked : <<r[2], r[3]>> \in Projects \X Months
      OBVIOUS
    <3> QED
      BY <2>6, <3>1
  <2>7. ASSUME NEW i \in Invoices, NEW customer, NEW refs \in SUBSET (Projects \X Months),
               CreateInvoiceDraft(i, customer, refs)
        PROVE  LocksFollowPeriods'
    BY <2>6, <2>7 DEF CreateInvoiceDraft, T!MarkInvoiced, expenseVars
  <2>8. ASSUME NEW i \in Invoices, DeleteInvoiceDraft(i) \/ VoidInvoice(i)
        PROVE  LocksFollowPeriods'
    BY <2>6, <2>8 DEF DeleteInvoiceDraft, VoidInvoice, T!ClearInvoiced, expenseVars
  <2> QED
    BY <2>1, <2>2, <2>3, <2>4, <2>5, <2>7, <2>8, StepCases
<1> QED
  BY <1>1, <1>2, SharedInvariant, PTL DEF Spec

-----------------------------------------------------------------------------
(* Holders *)

\* A period names an invoice exactly when the invoice stands and names the period.
THEOREM HoldersDoAgree == Spec => []HoldersAgree
<1> USE TimeReportingAssumption DEF TimeReportingAssumption
<1>1. Init => HoldersAgree
  BY DEF Init, HoldersAgree, T!Init, T!Periods, I!Init
<1>2. SharedOK /\ LinksHaveInvoices /\ HoldersAgree /\ [Next]_vars => HoldersAgree'
  <2> SUFFICES ASSUME SharedOK, LinksHaveInvoices, HoldersAgree, [Next]_vars
               PROVE  HoldersAgree'
    OBVIOUS
  <2> USE DEF SharedOK, HoldersAgree, Live, T!Periods
  <2>0. ASSUME UNCHANGED link,
               \A i \in Invoices : Live(i)' <=> Live(i),
               \A r \in Projects \X Months, i \in Invoices : period'[r] = i <=> period[r] = i
        PROVE  HoldersAgree'
    BY ONLY HoldersAgree, <2>0 DEF HoldersAgree
  <2>1. CASE UNCHANGED shared
    BY <2>0, <2>1 DEF shared
  <2>2. ASSUME NEW r \in E!Reports, ReportMoves(r) \/ ReportGoes(r)
        PROVE  HoldersAgree'
    BY <2>0, <2>2 DEF ReportMoves, ReportGoes
  <2>3. ASSUME NEW i \in Invoices, InvoiceGoesOn(i)
        PROVE  HoldersAgree'
    <3>1. UNCHANGED <<period, link>> /\ \A j \in Invoices : Live(j)' <=> Live(j)
      BY <2>3 DEF InvoiceGoesOn
    <3> QED
      BY <2>0, <3>1
  <2>4. ASSUME NEW p \in Projects, NEW m \in Months,
               SendProjectMonthToBilling(p, m) \/ ReopenProjectBillingPeriod(p, m)
        PROVE  HoldersAgree'
    <3>1. /\ UNCHANGED <<invoice, link>>
          /\ period[<<p, m>>] \in {NotSent, NoInvoice}
          /\ period' \in {[period EXCEPT ![<<p, m>>] = x] : x \in {NotSent, NoInvoice}}
      BY <2>4 DEF SendProjectMonthToBilling, ReopenProjectBillingPeriod,
                  T!SendToBilling, T!ReopenPeriod, T!Sent, invoiceVars
    <3>2. ASSUME NEW r \in Projects \X Months, NEW j \in Invoices
          PROVE  period'[r] = j <=> period[r] = j
      BY <3>1
    <3> QED
      BY <2>0, <3>1, <3>2
  <2>5. ASSUME NEW i \in Invoices, NEW customer, NEW refs \in SUBSET (Projects \X Months),
               CreateInvoiceDraft(i, customer, refs)
        PROVE  HoldersAgree'
    <3>1. /\ invoice[i] = "none"
          /\ invoice' = [invoice EXCEPT ![i] = "draft"]
          /\ link' = link \cup {<<i, r>> : r \in refs}
          /\ \A r \in refs, j \in Invoices : <<j, r>> \notin link
          /\ period' = [r \in Projects \X Months |-> IF r \in refs THEN i ELSE period[r]]
      BY <2>5 DEF CreateInvoiceDraft, I!CreateDraft, T!MarkInvoiced
    <3>2. \A r \in Projects \X Months : <<i, r>> \notin link /\ period[r] # i
      BY <3>1 DEF LinksHaveInvoices
    <3> SUFFICES ASSUME NEW r \in Projects \X Months, NEW j \in Invoices
                 PROVE  (period[r] = j <=> Live(j) /\ <<j, r>> \in link)'
      OBVIOUS
    <3>3. <<j, r>> \in link' <=> <<j, r>> \in link \/ (j = i /\ r \in refs)
      BY <3>1
    <3>4. CASE j = i
      BY <3>1, <3>2, <3>3, <3>4
    <3>5. CASE j # i
      BY <3>1, <3>3, <3>5
    <3> QED
      BY <3>4, <3>5
  <2>6. ASSUME NEW i \in Invoices, DeleteInvoiceDraft(i)
        PROVE  HoldersAgree'
    BY <2>6 DEF DeleteInvoiceDraft, I!DeleteDraft, T!ClearInvoiced
  <2>7. ASSUME NEW i \in Invoices, VoidInvoice(i)
        PROVE  HoldersAgree'
    BY <2>7 DEF VoidInvoice, I!VoidInvoice, T!ClearInvoiced
  <2> QED
    BY <2>1, <2>2, <2>3, <2>4, <2>5, <2>6, <2>7, StepCases
<1> QED
  BY <1>1, <1>2, SharedInvariant, PTL DEF Spec

-----------------------------------------------------------------------------
(* Invoices and the work they bill *)

\* Equal quantities add up alike.
LEMMA SameSum ==
    ASSUME NEW S, NEW f, NEW g, \A x \in S : f[x] = g[x]
    PROVE  FoldFunctionOnSet(+, 0, f, S) = FoldFunctionOnSet(+, 0, g, S)
<1> DEFINE Iter(it, h) == it = [s \in SUBSET S |->
                                  IF s = {} THEN 0
                                  ELSE LET x == CHOOSE x \in s : TRUE IN h[x] + it[s \ {x}]]
<1>1. /\ FoldFunctionOnSet(+, 0, f, S) = (CHOOSE it : Iter(it, f))[S]
      /\ FoldFunctionOnSet(+, 0, g, S) = (CHOOSE it : Iter(it, g))[S]
  BY DEF FoldFunctionOnSet, MapThenFoldSet
<1>2. ASSUME NEW it
      PROVE  Iter(it, f) <=> Iter(it, g)
  <2>1. ASSUME NEW s \in SUBSET S, s # {}
        PROVE  f[CHOOSE x \in s : TRUE] = g[CHOOSE x \in s : TRUE]
    BY <2>1
  <2> QED
    BY <2>1
<1> HIDE DEF Iter
<1>3. (CHOOSE it : Iter(it, f)) = (CHOOSE it : Iter(it, g))
  BY <1>2, Zenon
<1> QED
  BY <1>1, <1>3

\* A save leaves the time of a sent period as it is.
LEMMA SentTimeStays ==
    ASSUME SaveWeek, NEW r \in Projects \X Months, T!Sent(r[1], r[2]),
           NEW x \in Items, ProjectOf[x] = r[1]
    PROVE  Quantity(r, x)' = Quantity(r, x)
<1> DEFINE cells == {k \in Users \X Items \X Days : k[2] = x /\ MonthOf[k[3]] = r[2]}
<1>1. \E u \in Users, w \in Weeks : \E changes, comments :
        T!SaveWeek(u, w, changes, comments, Items)
  BY DEF SaveWeek
<1>2. PICK u \in Users, w \in Weeks :
        \E changes, comments : T!SaveWeek(u, w, changes, comments, Items)
  BY <1>1
<1>3. PICK changes, comments : T!SaveWeek(u, w, changes, comments, Items)
  BY <1>2
<1>4. \A k \in cells : entry'[k] = entry[k]
  <2> SUFFICES ASSUME NEW k \in cells
               PROVE  entry'[k] = entry[k]
    OBVIOUS
  <2>1. <<k[2], k[3]>> \notin DOMAIN changes
    <3>1. CASE <<k[2], k[3]>> \in DOMAIN changes
      <4>1. ~T!Sent(ProjectOf[<<k[2], k[3]>>[1]], MonthOf[<<k[2], k[3]>>[2]])
        BY <1>3, <3>1 DEF T!SaveWeek, T!NothingLocked
      <4> QED
        BY <4>1
    <3> QED
      BY <3>1
  <2> QED
    BY <1>3, <2>1 DEF T!SaveWeek, T!ApplyChanges
<1>5. FoldFunctionOnSet(+, 0, entry', cells) = FoldFunctionOnSet(+, 0, entry, cells)
  <2> HIDE DEF cells
  <2> QED
    BY <1>4, SameSum
<1> QED
  BY <1>5 DEF Quantity, FoldFunctionOnSet, MapThenFoldSet

\* InvoiceMatchesPeriods for the lines that bill time, and for those that bill the
\* expense lines of locked reports.
TimeMatches ==
    \A i \in Invoices, r \in Projects \X Months, x \in Items :
        LET o == <<"time", r, x>> IN
        Live(i) /\ <<i, r>> \in link /\ ProjectOf[x] = r[1] /\ Untyped(i, o) =>
            Quantity(r, x) > 0 /\ invoiceLine[i][o] = Quantity(r, x) * UnitRate[x]

ExpensesMatch ==
    \A i \in Invoices, r \in Projects \X Months, l \in Lines :
        LET o == <<"expense", r, l>> IN
        Live(i) /\ <<i, r>> \in link /\ l \in LockedExpenses(r) /\ Untyped(i, o) =>
            invoiceLine[i][o] = expense[l].value

\* Line by line, the two say that invoices match their periods.
LEMMA LineByLine ==
    ASSUME LocksFollowPeriods, TimeMatches, ExpensesMatch
    PROVE  InvoiceMatchesPeriods
<1> SUFFICES ASSUME NEW i \in Invoices, Live(i), NEW r \in I!Covered(i),
                    NEW o \in TimeOrigins(r)
                                \cup {x \in ExpenseOrigins(r) : x[3] \in LockedExpenses(r)},
                    Untyped(i, o)
             PROVE  o \in GeneratedOrigins(r) /\ invoiceLine[i][o] = GeneratedLines({r})[o]
  BY DEF InvoiceMatchesPeriods
<1>0. r \in Projects \X Months /\ <<i, r>> \in link
  BY DEF I!Covered
<1>1. UNION {GeneratedOrigins(s) : s \in {r}} = GeneratedOrigins(r)
  OBVIOUS
<1>2. CASE o \in TimeOrigins(r)
  <2>1. PICK x \in Items : ProjectOf[x] = r[1] /\ o = <<"time", r, x>>
    BY <1>2 DEF TimeOrigins
  <2>2. Quantity(r, x) > 0 /\ invoiceLine[i][o] = Quantity(r, x) * UnitRate[x]
    BY <1>0, <2>1 DEF TimeMatches
  <2>3. o \in GeneratedOrigins(r)
    BY <1>2, <2>1, <2>2 DEF GeneratedOrigins
  <2>4. GeneratedLines({r})[o] = Quantity(r, x) * UnitRate[x]
    BY <1>1, <2>1, <2>3 DEF GeneratedLines
  <2> QED
    BY <2>2, <2>3, <2>4
<1>3. CASE o \in ExpenseOrigins(r) /\ o[3] \in LockedExpenses(r)
  <2>1. PICK l \in Lines : o = <<"expense", r, l>>
    BY <1>3 DEF ExpenseOrigins
  <2>2. invoiceLine[i][o] = expense[l].value
    BY <1>0, <1>3, <2>1 DEF ExpensesMatch
  <2>3. l \in ExportedExpenses(r)
    BY <1>3, <2>1 DEF LockedExpenses, ExportedExpenses, LocksFollowPeriods
  <2>4. o \in GeneratedOrigins(r)
    BY <1>3, <2>1, <2>3 DEF GeneratedOrigins
  <2>5. GeneratedLines({r})[o] = expense[l].value
    BY <1>1, <2>1, <2>4 DEF GeneratedLines
  <2> QED
    BY <2>2, <2>4, <2>5
<1> QED
  BY <1>2, <1>3

\* Every invoice has an amount or none for every origin.
InvoiceLinesOK == invoiceLine = [i \in Invoices |-> invoiceLine[i]]

\* Updates of a draft type amounts or take lines out: what stays untyped stays as it is.
LEMMA UntypedStays ==
    ASSUME InvoiceLinesOK, NEW i \in Invoices, NEW deletions,
           NEW typed \in I!PartialFunctions(I!Origins, TypedAmounts),
           I!UpdateDraft(i, typed, deletions),
           NEW j \in Invoices, NEW o \in I!Origins, Untyped(j, o)'
    PROVE  Untyped(j, o) /\ invoiceLine'[j][o] = invoiceLine[j][o]
<1>1. \A x \in DOMAIN typed : typed[x] \in TypedAmounts
  BY Zenon DEF I!PartialFunctions
<1>2. invoiceLine'[j][o] \in {invoiceLine[j][o], NoLine} \cup TypedAmounts
  <2>1. CASE i = j
    BY <1>1, <2>1 DEF I!UpdateDraft, I!Overlaid, InvoiceLinesOK
  <2>2. CASE i # j
    BY <2>2 DEF I!UpdateDraft, InvoiceLinesOK
  <2> QED
    BY <2>1, <2>2
<1> QED
  BY <1>2, TimeReportingAssumption DEF Untyped, TimeReportingAssumption

\* A draft has a line for every item with time in its periods and every exported
\* expense, and no other.
LEMMA DraftedLines ==
    ASSUME InvoiceLinesOK, NEW i \in Invoices, NEW customer, NEW refs \in SUBSET (Projects \X Months),
           CreateInvoiceDraft(i, customer, refs)
    PROVE  /\ \A r \in refs, x \in Items : ProjectOf[x] = r[1] /\ Untyped(i, <<"time", r, x>>)' =>
                /\ Quantity(r, x) > 0
                /\ invoiceLine'[i][<<"time", r, x>>] = Quantity(r, x) * UnitRate[x]
           /\ \A r \in refs, l \in Lines : Untyped(i, <<"expense", r, l>>)' =>
                invoiceLine'[i][<<"expense", r, l>>] = expense[l].value
           /\ \A j \in Invoices : j # i => invoiceLine'[j] = invoiceLine[j]
<1> DEFINE generated == UNION {GeneratedOrigins(r) : r \in refs}
<1>1. /\ \A j \in Invoices : j # i => invoiceLine'[j] = invoiceLine[j]
      /\ invoiceLine'[i] = I!Overlaid(I!NoLines, GeneratedLines(refs))
  BY DEF CreateInvoiceDraft, I!CreateDraft, InvoiceLinesOK
<1>2. DOMAIN GeneratedLines(refs) = generated
  BY DEF GeneratedLines
<1>3. ASSUME NEW o \in I!Origins, Untyped(i, o)'
      PROVE  o \in generated /\ invoiceLine'[i][o] = GeneratedLines(refs)[o]
  BY <1>1, <1>2, <1>3, TimeReportingAssumption
     DEF Untyped, I!Overlaid, I!NoLines, TimeReportingAssumption
<1>4. ASSUME NEW r \in refs, NEW x \in Items, ProjectOf[x] = r[1], Untyped(i, <<"time", r, x>>)'
      PROVE  /\ Quantity(r, x) > 0
             /\ invoiceLine'[i][<<"time", r, x>>] = Quantity(r, x) * UnitRate[x]
  <2> DEFINE o == <<"time", r, x>>
  <2>1. o \in TimeOrigins(r)
    BY <1>4 DEF TimeOrigins
  <2>2. o \in I!Origins
    BY <2>1 DEF I!Origins
  <2>3. o \in generated /\ invoiceLine'[i][o] = GeneratedLines(refs)[o]
    BY <1>3, <1>4, <2>2
  <2>4. PICK s \in refs : o \in GeneratedOrigins(s)
    BY <2>3
  <2>5. Quantity(s, x) > 0 /\ s = r
    BY <2>4 DEF GeneratedOrigins, TimeOrigins, ExpenseOrigins
  <2>6. GeneratedLines(refs)[o] = Quantity(r, x) * UnitRate[x]
    BY <2>3 DEF GeneratedLines
  <2> QED
    BY <2>3, <2>5, <2>6
<1>5. ASSUME NEW r \in refs, NEW l \in Lines, Untyped(i, <<"expense", r, l>>)'
      PROVE  invoiceLine'[i][<<"expense", r, l>>] = expense[l].value
  <2> DEFINE o == <<"expense", r, l>>
  <2>1. o \in I!Origins
    BY DEF I!Origins, ExpenseOrigins
  <2>2. o \in generated /\ invoiceLine'[i][o] = GeneratedLines(refs)[o]
    BY <1>3, <1>5, <2>1
  <2> QED
    BY <2>2 DEF GeneratedLines
<1> QED
  BY <1>1, <1>4, <1>5

\* An untyped line of a standing invoice has been there, or is of the draft just made.
LEMMA LinesStay ==
    ASSUME SharedOK, LinksHaveInvoices, InvoiceLinesOK, [Next]_vars,
           NEW i \in Invoices, NEW r \in Projects \X Months, NEW o \in I!Origins,
           Live(i)', <<i, r>> \in link', Untyped(i, o)'
    PROVE  \/ /\ Live(i) /\ <<i, r>> \in link
              /\ Untyped(i, o) /\ invoiceLine'[i][o] = invoiceLine[i][o]
           \/ \E customer \in Customers, refs \in SUBSET (Projects \X Months) :
                r \in refs /\ CreateInvoiceDraft(i, customer, refs)
<1> DEFINE Same == /\ Live(i) /\ <<i, r>> \in link
                   /\ Untyped(i, o) /\ invoiceLine'[i][o] = invoiceLine[i][o]
<1>1. ASSUME Live(i), <<i, r>> \in link, invoiceLine'[i] = invoiceLine[i]
      PROVE  Same
  BY <1>1 DEF Untyped
<1>2. CASE UNCHANGED <<invoice, link, invoiceLine>>
  BY <1>1, <1>2 DEF Live
<1>3. ASSUME EditInvoice
      PROVE  Same
  <2>1. ASSUME NEW j \in Invoices, NEW typed \in I!PartialFunctions(I!Origins, TypedAmounts),
               NEW deletions, I!UpdateDraft(j, typed, deletions)
        PROVE  Same
    BY <2>1, UntypedStays DEF I!UpdateDraft, Live
  <2>2. ASSUME NEW j \in Invoices, NEW parties, I!IssueInvoice(j, parties) \/ I!MarkPaid(j)
        PROVE  Same
    BY <1>1, <2>2 DEF I!IssueInvoice, I!MarkPaid, Live, SharedOK
  <2> QED
    BY <1>3, <2>1, <2>2 DEF EditInvoice
<1>4. ASSUME NEW j \in Invoices, NEW customer \in Customers,
             NEW refs \in SUBSET (Projects \X Months), CreateInvoiceDraft(j, customer, refs)
      PROVE  Same \/ (j = i /\ r \in refs)
  <2>1. /\ invoice[j] = "none"
        /\ invoice' = [invoice EXCEPT ![j] = "draft"]
        /\ link' = link \cup {<<j, s>> : s \in refs}
    BY <1>4 DEF CreateInvoiceDraft, I!CreateDraft
  <2>2. CASE j = i
    BY <2>1, <2>2 DEF LinksHaveInvoices
  <2>3. CASE j # i
    <3>1. Live(i) /\ <<i, r>> \in link
      BY <2>1, <2>3 DEF Live, SharedOK
    <3>2. invoiceLine'[i] = invoiceLine[i]
      BY <1>4, <2>3, DraftedLines
    <3> QED
      BY <1>1, <3>1, <3>2
  <2> QED
    BY <2>2, <2>3
<1>5. ASSUME NEW j \in Invoices, DeleteInvoiceDraft(j) \/ VoidInvoice(j)
      PROVE  Same
  <2>1. i # j
    BY <1>5 DEF DeleteInvoiceDraft, VoidInvoice, I!DeleteDraft, I!VoidInvoice, Live, SharedOK
  <2>2. Live(i) /\ <<i, r>> \in link /\ invoiceLine'[i] = invoiceLine[i]
    BY <1>5, <2>1 DEF DeleteInvoiceDraft, VoidInvoice, I!DeleteDraft, I!VoidInvoice, Live,
                      SharedOK, InvoiceLinesOK
  <2> QED
    BY <1>1, <2>2
<1>6. \/ SaveWeek \/ ReviewWeek \/ WriteReport \/ ReviewReport \/ UpdateCompanySettings
      \/ \E p \in Projects :
           \/ UpdateProject(p)
           \/ \E m \in Months : SendProjectMonthToBilling(p, m) \/ ReopenProjectBillingPeriod(p, m)
      \/ UNCHANGED vars
      => UNCHANGED <<invoice, link, invoiceLine>>
  BY DEF SaveWeek, ReviewWeek, WriteReport, ReviewReport, UpdateCompanySettings, UpdateProject,
         SendProjectMonthToBilling, ReopenProjectBillingPeriod, I!SaveSettings, I!rows,
         vars, invoiceVars
<1> QED
  BY <1>2, <1>3, <1>4, <1>5, <1>6 DEF Next

\* An expense line of a locked report has been one before the step, if its month was
\* sent then, and says what it said.
LEMMA LockedExpensesStay ==
    ASSUME SharedOK, LocksFollowPeriods, [Next]_vars,
           NEW r \in Projects \X Months, T!Sent(r[1], r[2]),
           NEW l \in Lines, l \in LockedExpenses(r)'
    PROVE  l \in LockedExpenses(r) /\ expense'[l] = expense[l]
<1> USE DEF LockedExpenses, E!MonthReports
<1>1. ASSUME UNCHANGED <<locked, expense>>
      PROVE  l \in LockedExpenses(r) /\ expense'[l] = expense[l]
  BY <1>1 DEF LocksFollowPeriods, SharedOK
<1>2. ASSUME NEW w \in E!Reports, NEW updates, NEW additions, NEW deletions,
             E!SaveLines(w, updates, additions, deletions, LineValues)
      PROVE  l \in LockedExpenses(r) /\ expense'[l] = expense[l]
  <2>1. w \notin locked /\ UNCHANGED <<report, locked>>
    BY <1>2 DEF E!SaveLines, E!Editable
  <2>2. expense'[l] = expense[l]
    BY <1>2, <2>1 DEF E!SaveLines
  <2> QED
    BY <1>1, <2>1, <2>2
<1>3. ASSUME NEW w \in E!Reports, E!DeleteReport(w)
      PROVE  l \in LockedExpenses(r) /\ expense'[l] = expense[l]
  BY <1>3 DEF E!DeleteReport, SharedOK
<1>4. ASSUME NEW p \in Projects, NEW m \in Months, SendProjectMonthToBilling(p, m)
      PROVE  l \in LockedExpenses(r) /\ expense'[l] = expense[l]
  <2>1. r # <<p, m>>
    BY <1>4 DEF SendProjectMonthToBilling, T!SendToBilling
  <2> QED
    BY <1>4, <2>1 DEF SendProjectMonthToBilling, E!LockProjectMonth
<1>5. ASSUME NEW p \in Projects, NEW m \in Months, ReopenProjectBillingPeriod(p, m)
      PROVE  l \in LockedExpenses(r) /\ expense'[l] = expense[l]
  BY <1>5 DEF ReopenProjectBillingPeriod, E!UnlockProjectMonth
<1>6. ASSUME WriteReport
      PROVE  l \in LockedExpenses(r) /\ expense'[l] = expense[l]
  BY <1>1, <1>2, <1>3, <1>6 DEF WriteReport, E!CreateReport
<1>7. \/ SaveWeek \/ ReviewWeek \/ ReviewReport \/ EditInvoice \/ UpdateCompanySettings
      \/ \E p \in Projects : UpdateProject(p)
      \/ \E i \in Invoices :
           \/ \E customer \in Customers, refs \in SUBSET (Projects \X Months) :
                CreateInvoiceDraft(i, customer, refs)
           \/ DeleteInvoiceDraft(i)
           \/ VoidInvoice(i)
      \/ UNCHANGED vars
      => UNCHANGED <<locked, expense>>
  BY DEF SaveWeek, ReviewWeek, ReviewReport, EditInvoice, UpdateCompanySettings, UpdateProject,
         CreateInvoiceDraft, DeleteInvoiceDraft, VoidInvoice, E!SubmitReport, E!ApproveReport,
         E!ReturnReport, vars, expenseVars
<1> QED
  BY <1>1, <1>4, <1>5, <1>6, <1>7 DEF Next

\* The lines of the invoices keep their types.
LEMMA InvoiceLinesInvariant == Spec => []InvoiceLinesOK
<1> USE DEF InvoiceLinesOK
<1>1. Init => InvoiceLinesOK
  BY DEF Init, I!Init
<1>2. InvoiceLinesOK /\ [Next]_vars => InvoiceLinesOK'
  <2> SUFFICES ASSUME InvoiceLinesOK, [Next]_vars
               PROVE  InvoiceLinesOK'
    OBVIOUS
  <2>1. CASE UNCHANGED invoiceLine
    BY <2>1
  <2>2. CASE EditInvoice
    BY <2>1, <2>2 DEF EditInvoice, I!UpdateDraft, I!IssueInvoice, I!MarkPaid
  <2>3. ASSUME NEW i \in Invoices, NEW customer, NEW refs,
               \/ CreateInvoiceDraft(i, customer, refs)
               \/ DeleteInvoiceDraft(i)
               \/ VoidInvoice(i)
        PROVE  InvoiceLinesOK'
    BY <2>3 DEF CreateInvoiceDraft, DeleteInvoiceDraft, VoidInvoice,
                I!CreateDraft, I!DeleteDraft, I!VoidInvoice
  <2>4. \/ SaveWeek \/ ReviewWeek \/ WriteReport \/ ReviewReport \/ UpdateCompanySettings
        \/ \E p \in Projects :
             \/ UpdateProject(p)
             \/ \E m \in Months : SendProjectMonthToBilling(p, m) \/ ReopenProjectBillingPeriod(p, m)
        \/ UNCHANGED vars
        => UNCHANGED invoiceLine
    BY DEF SaveWeek, ReviewWeek, WriteReport, ReviewReport, UpdateCompanySettings, UpdateProject,
           SendProjectMonthToBilling, ReopenProjectBillingPeriod, I!SaveSettings, I!rows,
           vars, invoiceVars
  <2> QED
    BY <2>1, <2>2, <2>3, <2>4 DEF Next
<1> QED
  BY <1>1, <1>2, PTL DEF Spec

\* No step but a save writes an entry.
LEMMA OnlySavesWriteTime ==
    ASSUME [Next]_vars, ~SaveWeek, NEW r, NEW x
    PROVE  Quantity(r, x)' = Quantity(r, x)
<1>1. entry' = entry
  <2>1. \/ WriteReport \/ ReviewReport \/ EditInvoice \/ UpdateCompanySettings
        \/ \E p \in Projects : UpdateProject(p)
        \/ UNCHANGED vars
        => UNCHANGED entry
    BY DEF WriteReport, ReviewReport, EditInvoice, UpdateCompanySettings, UpdateProject,
           vars, timesheetVars
  <2>2. ReviewWeek => UNCHANGED entry
    BY DEF ReviewWeek, T!SubmitWeek, T!ApproveWeek, T!ReturnWeek
  <2>3. ASSUME NEW p, NEW m, SendProjectMonthToBilling(p, m) \/ ReopenProjectBillingPeriod(p, m)
        PROVE  UNCHANGED entry
    BY <2>3 DEF SendProjectMonthToBilling, ReopenProjectBillingPeriod, T!SendToBilling, T!ReopenPeriod
  <2>4. ASSUME NEW i, NEW customer, NEW refs,
               \/ CreateInvoiceDraft(i, customer, refs)
               \/ DeleteInvoiceDraft(i)
               \/ VoidInvoice(i)
        PROVE  UNCHANGED entry
    BY <2>4 DEF CreateInvoiceDraft, DeleteInvoiceDraft, VoidInvoice, T!MarkInvoiced, T!ClearInvoiced
  <2> QED
    BY <2>1, <2>2, <2>3, <2>4 DEF Next
<1> QED
  BY <1>1 DEF Quantity, FoldFunctionOnSet, MapThenFoldSet

\* As long as an invoice stands, each line of it the accountant has not retyped bills
\* what is in its periods now: the periods it covers stay sent, so that no save, no
\* edit of a report, no return, deletion or reopening can reach what was billed.
THEOREM InvoicesStayInStep == Spec => []InvoiceMatchesPeriods
<1> DEFINE IInv == /\ SharedOK /\ LinksHaveInvoices /\ InvoiceLinesOK
                   /\ HoldersAgree /\ LocksFollowPeriods
           Matches == TimeMatches /\ ExpensesMatch
<1>1. Init => Matches
  BY DEF Init, I!Init, TimeMatches, ExpensesMatch
<1>2. ASSUME IInv, NEW i \in Invoices, NEW r \in Projects \X Months, Live(i), <<i, r>> \in link
      PROVE  T!Sent(r[1], r[2])
  BY <1>2, TimeReportingAssumption DEF HoldersAgree, T!Sent, TimeReportingAssumption
<1>3. IInv /\ TimeMatches /\ [Next]_vars => TimeMatches'
  <2> SUFFICES ASSUME IInv, TimeMatches, [Next]_vars,
                      NEW i \in Invoices, NEW r \in Projects \X Months, NEW x \in Items,
                      ProjectOf[x] = r[1], Live(i)', <<i, r>> \in link',
                      Untyped(i, <<"time", r, x>>)'
               PROVE  /\ Quantity(r, x)' > 0
                      /\ invoiceLine'[i][<<"time", r, x>>] = Quantity(r, x)' * UnitRate[x]
    BY DEF TimeMatches
  <2> DEFINE o == <<"time", r, x>>
  <2>1. o \in I!Origins
    BY DEF I!Origins, TimeOrigins
  <2>2. ASSUME Live(i), <<i, r>> \in link, Untyped(i, o), invoiceLine'[i][o] = invoiceLine[i][o]
        PROVE  /\ Quantity(r, x)' > 0
               /\ invoiceLine'[i][o] = Quantity(r, x)' * UnitRate[x]
    <3>1. Quantity(r, x) > 0 /\ invoiceLine[i][o] = Quantity(r, x) * UnitRate[x]
      BY <2>2 DEF TimeMatches
    <3>2. Quantity(r, x)' = Quantity(r, x)
      BY <1>2, <2>2, SentTimeStays, OnlySavesWriteTime
    <3> QED
      BY <2>2, <3>1, <3>2
  <2>3. ASSUME NEW customer \in Customers, NEW refs \in SUBSET (Projects \X Months), r \in refs,
               CreateInvoiceDraft(i, customer, refs)
        PROVE  /\ Quantity(r, x)' > 0
               /\ invoiceLine'[i][o] = Quantity(r, x)' * UnitRate[x]
    <3>1. Quantity(r, x) > 0 /\ invoiceLine'[i][o] = Quantity(r, x) * UnitRate[x]
      BY <2>3, DraftedLines
    <3>2. Quantity(r, x)' = Quantity(r, x)
      BY <2>3 DEF CreateInvoiceDraft, T!MarkInvoiced, Quantity, FoldFunctionOnSet, MapThenFoldSet
    <3> QED
      BY <3>1, <3>2
  <2> QED
    BY <2>1, <2>2, <2>3, LinesStay
<1>4. IInv /\ ExpensesMatch /\ [Next]_vars => ExpensesMatch'
  <2> SUFFICES ASSUME IInv, ExpensesMatch, [Next]_vars,
                      NEW i \in Invoices, NEW r \in Projects \X Months, NEW l \in Lines,
                      l \in LockedExpenses(r)', Live(i)', <<i, r>> \in link',
                      Untyped(i, <<"expense", r, l>>)'
               PROVE  invoiceLine'[i][<<"expense", r, l>>] = expense'[l].value
    BY DEF ExpensesMatch
  <2> DEFINE o == <<"expense", r, l>>
  <2>1. o \in I!Origins
    BY DEF I!Origins, ExpenseOrigins
  <2>2. ASSUME Live(i), <<i, r>> \in link, Untyped(i, o), invoiceLine'[i][o] = invoiceLine[i][o]
        PROVE  invoiceLine'[i][o] = expense'[l].value
    <3>1. l \in LockedExpenses(r) /\ expense'[l] = expense[l]
      BY <1>2, <2>2, LockedExpensesStay
    <3> QED
      BY <2>2, <3>1 DEF ExpensesMatch
  <2>3. ASSUME NEW customer \in Customers, NEW refs \in SUBSET (Projects \X Months), r \in refs,
               CreateInvoiceDraft(i, customer, refs)
        PROVE  invoiceLine'[i][o] = expense'[l].value
    BY <2>3, DraftedLines DEF CreateInvoiceDraft, expenseVars
  <2> QED
    BY <2>1, <2>2, <2>3, LinesStay
<1>5. LocksFollowPeriods /\ Matches => InvoiceMatchesPeriods
  BY LineByLine
<1> QED
  BY <1>1, <1>3, <1>4, <1>5, SharedInvariant, InvoiceLinesInvariant, HoldersDoAgree, LocksFollow,
     PTL DEF Spec

-----------------------------------------------------------------------------
(* The modules under their callers *)

SelfReviewOK == selfReview \in BOOLEAN

\* The setting is on or off.
LEMMA SelfReviewInvariant == Spec => []SelfReviewOK
<1> USE DEF SelfReviewOK
<1>1. Init => SelfReviewOK
  BY DEF Init
<1>2. SelfReviewOK /\ [Next]_vars => SelfReviewOK'
  BY DEF vars, settingVars, Next, SaveWeek, ReviewWeek, WriteReport, ReviewReport, EditInvoice,
         UpdateProject, UpdateCompanySettings, SendProjectMonthToBilling,
         ReopenProjectBillingPeriod, CreateInvoiceDraft, DeleteInvoiceDraft, VoidInvoice
<1> QED
  BY <1>1, <1>2, PTL DEF Spec

\* The application's steps are steps of the timesheets module, or leave it alone:
\* what TimesheetsProofs shows of that module alone holds of it here.
THEOREM TimesheetsRefinement == Spec => ImplementsTimesheets
<1> USE DEF timesheetVars
<1>1. Init => T!Init
  BY DEF Init
<1>2. SharedOK /\ SelfReviewOK /\ [Next]_vars => [T!Next]_(T!vars)
  <2> SUFFICES ASSUME SharedOK, SelfReviewOK, [Next]_vars
               PROVE  [T!Next]_(T!vars)
    OBVIOUS
  <2>1. ASSUME SaveWeek
        PROVE  T!Next
    <3>1. PICK u \in Users, w \in Weeks,
               changes \in T!PartialFunctions(T!Cells, Quantities \cup {0}, MaxBatch),
               comments \in T!PartialFunctions(Items, BOOLEAN, MaxBatch) :
            T!SaveWeek(u, w, changes, comments, Items)
      BY <2>1 DEF SaveWeek
    <3>2. changes \in T!PartialFunctions(T!CellsIn(w), Quantities \cup {0}, MaxBatch)
      BY <3>1 DEF T!PartialFunctions, T!SaveWeek
    <3>3. Items \in SUBSET Items
      OBVIOUS
    <3>4. T!EditStep
      BY <3>1, <3>2, <3>3 DEF T!EditStep
    <3> QED
      BY <3>4 DEF T!Next
  <2>2. ASSUME ReviewWeek
        PROVE  T!Next
    <3>1. CASE \E u \in Users, w \in Weeks : T!SubmitWeek(u, w)
      BY <3>1 DEF T!Next, T!EditStep
    <3>2. CASE \E u \in Users, w \in Weeks, r \in Managers :
                 T!ApproveWeek(u, w, r, selfReview) \/ T!ReturnWeek(u, w, r, selfReview)
      BY <3>2 DEF T!Next, T!ReviewStep, SelfReviewOK
    <3> QED
      BY <2>2, <3>1, <3>2 DEF ReviewWeek
  <2>3. ASSUME NEW p \in Projects, NEW m \in Months,
               SendProjectMonthToBilling(p, m) \/ ReopenProjectBillingPeriod(p, m)
        PROVE  T!Next
    <3>1. E!MonthStatuses(p, m) \in SUBSET {"draft", "submitted", "approved", "returned"}
      BY DEF E!MonthStatuses, E!MonthReports, SharedOK
    <3>2. (p \in internal) \in BOOLEAN
      OBVIOUS
    <3>3. T!BillingStep
      BY <2>3, <3>1, <3>2 DEF SendProjectMonthToBilling, ReopenProjectBillingPeriod, T!BillingStep
    <3> QED
      BY <3>3 DEF T!Next
  <2>4. ASSUME NEW i \in Invoices, NEW customer, NEW refs \in SUBSET (Projects \X Months),
               \/ CreateInvoiceDraft(i, customer, refs)
               \/ DeleteInvoiceDraft(i)
               \/ VoidInvoice(i)
        PROVE  T!Next
    BY <2>4 DEF CreateInvoiceDraft, DeleteInvoiceDraft, VoidInvoice,
                T!Next, T!BillingStep, T!Periods
  <2>5. CASE UNCHANGED timesheetVars
    BY <2>5 DEF T!vars
  <2>6. \/ WriteReport \/ ReviewReport \/ EditInvoice \/ UpdateCompanySettings
        \/ \E p \in Projects : UpdateProject(p)
        \/ UNCHANGED vars
        => UNCHANGED timesheetVars
    BY DEF WriteReport, ReviewReport, EditInvoice, UpdateCompanySettings, UpdateProject, vars
  <2> QED
    BY <2>1, <2>2, <2>3, <2>4, <2>5, <2>6 DEF Next
<1> QED
  BY <1>1, <1>2, SharedInvariant, SelfReviewInvariant, PTL DEF Spec, ImplementsTimesheets, T!Spec

\* Its steps are steps of the expenses module, receipts aside, or leave it alone: in
\* particular a month is locked only when every report of it is approved.
THEOREM ExpensesRefinement == Spec => ImplementsExpenses
<1>1. Init => E!Init
  BY DEF Init
<1>2. SharedOK /\ SelfReviewOK /\ [Next]_vars => [E!Next]_(E!vars)
  <2> SUFFICES ASSUME SharedOK, SelfReviewOK, [Next]_vars
               PROVE  [E!Next]_(E!vars)
    OBVIOUS
  <2>1. ASSUME WriteReport
        PROVE  E!Next
    <3>1. PICK r \in E!Reports :
            \/ E!CreateReport(r, TRUE)
            \/ \E U, A \in SUBSET Lines, deletions \in SUBSET Lines :
                 \E updates \in [U -> LineValues], additions \in [A -> LineValues] :
                   E!SaveLines(r, updates, additions, deletions, LineValues)
            \/ E!DeleteReport(r)
      BY <2>1 DEF WriteReport
    <3>2. CASE E!CreateReport(r, TRUE) \/ E!DeleteReport(r)
      BY <3>2 DEF E!Next, E!OwnerStep
    <3>3. CASE \E U, A \in SUBSET Lines, deletions \in SUBSET Lines :
                 \E updates \in [U -> LineValues], additions \in [A -> LineValues] :
                   E!SaveLines(r, updates, additions, deletions, LineValues)
      <4>1. LineValues \in SUBSET LineValues
        OBVIOUS
      <4>2. E!OwnerStep
        BY <3>3, <4>1 DEF E!OwnerStep
      <4> QED
        BY <4>2 DEF E!Next
    <3> QED
      BY <3>1, <3>2, <3>3
  <2>2. ASSUME ReviewReport
        PROVE  E!Next
    BY <2>2 DEF ReviewReport, E!Next, E!OwnerStep, E!ReviewStep, SelfReviewOK
  <2>3. ASSUME NEW p \in Projects, NEW m \in Months,
               SendProjectMonthToBilling(p, m) \/ ReopenProjectBillingPeriod(p, m)
        PROVE  [E!Next]_(E!vars)
    <3>1. CASE m \in ReportMonths /\ SendProjectMonthToBilling(p, m)
      <4>1. E!MonthStatuses(p, m) \subseteq {"approved"} /\ E!LockProjectMonth(p, m)
        BY <3>1 DEF SendProjectMonthToBilling, T!SendToBilling, T!BillingReadiness
      <4> QED
        BY <3>1, <4>1 DEF E!Next, E!BillingStep
    <3>2. CASE m \in ReportMonths /\ ReopenProjectBillingPeriod(p, m)
      BY <3>2 DEF ReopenProjectBillingPeriod, E!Next, E!BillingStep
    <3>3. CASE m \notin ReportMonths
      <4>1. E!MonthReports(p, m) = {}
        BY <3>3 DEF E!MonthReports, E!Reports
      <4> QED
        BY <2>3, <4>1 DEF SendProjectMonthToBilling, ReopenProjectBillingPeriod,
                          E!LockProjectMonth, E!UnlockProjectMonth, E!vars
    <3> QED
      BY <2>3, <3>1, <3>2, <3>3
  <2>4. \/ SaveWeek \/ ReviewWeek \/ EditInvoice \/ UpdateCompanySettings
        \/ \E p \in Projects : UpdateProject(p)
        \/ \E i \in Invoices :
             \/ \E customer \in Customers, refs \in SUBSET (Projects \X Months) :
                  CreateInvoiceDraft(i, customer, refs)
             \/ DeleteInvoiceDraft(i)
             \/ VoidInvoice(i)
        \/ UNCHANGED vars
        => UNCHANGED E!vars
    BY DEF SaveWeek, ReviewWeek, EditInvoice, UpdateCompanySettings, UpdateProject,
           CreateInvoiceDraft, DeleteInvoiceDraft, VoidInvoice, vars, expenseVars, E!vars
  <2> QED
    BY <2>1, <2>2, <2>3, <2>4 DEF Next
<1> QED
  BY <1>1, <1>2, SharedInvariant, SelfReviewInvariant, PTL DEF Spec, ImplementsExpenses, E!Spec
=============================================================================
