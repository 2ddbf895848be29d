---------------------------- MODULE ExpensesProofs ----------------------------
(* Theorems about Expenses and the accountant's package of it, for any      *)
(* number of users, months, lines and receipts: what every step keeps, then *)
(* what the loops of build_package make of the rows.                        *)
EXTENDS AccountantPackage, FiniteSetTheorems, TLAPS

\* The commands, with their arguments typed: what every proof below splits on.
LEMMA StepCases ==
    ASSUME Next
    PROVE  \/ \E r \in Reports : CreateReport(r, TRUE) \/ DeleteReport(r) \/ SubmitReport(r)
           \/ \E r \in Reports, valid \in SUBSET LineValues, U, A, D \in SUBSET Lines :
                \E updates \in [U -> LineValues], additions \in [A -> LineValues] :
                  SaveLines(r, updates, additions, D, valid)
           \/ \E r \in Reports, a \in Attachments : DeleteAttachment(r, a)
           \/ \E r \in Reports, a \in Attachments, l \in Lines \cup {NoLine} :
                AddAttachment(r, a, l) \/ SetAttachmentLine(r, a, l)
           \/ \E r \in Reports, reviewer \in Managers, selfReview \in BOOLEAN :
                ApproveReport(r, reviewer, selfReview) \/ ReturnReport(r, reviewer, selfReview)
           \/ \E p \in Projects, m \in Months :
                MonthStatuses(p, m) \subseteq {"approved"} /\ LockProjectMonth(p, m)
           \/ \E p \in Projects, m \in Months : UnlockProjectMonth(p, m)
<1>1. CASE OwnerStep
  <2>1. PICK r \in Reports :
          \/ \E isOpen \in BOOLEAN : CreateReport(r, isOpen)
          \/ \E U, A, D \in SUBSET Lines, valid \in SUBSET LineValues :
               \E updates \in [U -> LineValues], additions \in [A -> LineValues] :
                 SaveLines(r, updates, additions, D, valid)
          \/ DeleteReport(r)
          \/ SubmitReport(r)
          \/ \E a \in Attachments :
               \/ DeleteAttachment(r, a)
               \/ \E l \in Lines \cup {NoLine} :
                    AddAttachment(r, a, l) \/ SetAttachmentLine(r, a, l)
    BY <1>1 DEF OwnerStep
  <2>2. ASSUME NEW isOpen \in BOOLEAN, CreateReport(r, isOpen)
        PROVE  CreateReport(r, TRUE)
    BY <2>2 DEF CreateReport
  <2> QED
    BY <2>1, <2>2, Zenon
<1>2. CASE ReviewStep
  BY <1>2, Zenon DEF ReviewStep
<1>3. CASE BillingStep
  BY <1>3, Zenon DEF BillingStep
<1> QED
  BY <1>1, <1>2, <1>3 DEF Next

-----------------------------------------------------------------------------
(* Types *)

\* Every table of the expenses module keeps its type: a line or a receipt row
\* always names a report, and a receipt's link is a line or NULL.
THEOREM TypeCorrect == Spec => []TypeOK
<1>1. Init => TypeOK
  BY DEF Init, TypeOK
<1>2. TypeOK /\ [Next]_vars => TypeOK'
  <2> SUFFICES ASSUME TypeOK, [Next]_vars
               PROVE  TypeOK'
    OBVIOUS
  <2> USE DEF TypeOK, ExpenseReportStatus
  <2>1. ASSUME NEW r \in Reports, CreateReport(r, TRUE) \/ SubmitReport(r)
        PROVE  TypeOK'
    BY <2>1 DEF CreateReport, SubmitReport
  <2>2. ASSUME NEW r \in Reports, DeleteReport(r)
        PROVE  TypeOK'
    BY <2>2 DEF DeleteReport
  <2>3. ASSUME NEW r \in Reports, NEW valid \in SUBSET LineValues,
               NEW U \in SUBSET Lines, NEW A \in SUBSET Lines, NEW D \in SUBSET Lines,
               NEW updates \in [U -> LineValues], NEW additions \in [A -> LineValues],
               SaveLines(r, updates, additions, D, valid)
        PROVE  TypeOK'
    <3>1. line' \in [Lines -> LineRow \cup {NoRow}]
      BY <2>3 DEF SaveLines, LineRow
    <3>2. attachment' \in [Attachments -> AttachmentRow \cup {NoRow}]
      BY <2>3 DEF SaveLines, AttachmentRow
    <3> QED
      BY <2>3, <3>1, <3>2 DEF SaveLines
  <2>4. ASSUME NEW r \in Reports, NEW a \in Attachments, DeleteAttachment(r, a)
        PROVE  TypeOK'
    BY <2>4 DEF DeleteAttachment
  <2>5. ASSUME NEW r \in Reports, NEW a \in Attachments, NEW l \in Lines \cup {NoLine},
               AddAttachment(r, a, l) \/ SetAttachmentLine(r, a, l)
        PROVE  TypeOK'
    BY <2>5 DEF AddAttachment, SetAttachmentLine, AttachmentRow
  <2>6. ASSUME NEW r \in Reports, NEW reviewer \in Managers, NEW selfReview \in BOOLEAN,
               ApproveReport(r, reviewer, selfReview) \/ ReturnReport(r, reviewer, selfReview)
        PROVE  TypeOK'
    BY <2>6 DEF ApproveReport, ReturnReport
  <2>7. ASSUME NEW p \in Projects, NEW m \in Months,
               LockProjectMonth(p, m) \/ UnlockProjectMonth(p, m)
        PROVE  TypeOK'
    BY <2>7 DEF LockProjectMonth, UnlockProjectMonth, MonthReports
  <2>8. CASE UNCHANGED vars
    BY <2>8 DEF vars
  <2>9. CASE Next
    BY <2>1, <2>2, <2>3, <2>4, <2>5, <2>6, <2>7, <2>9, StepCases
  <2> QED
    BY <2>8, <2>9
<1> QED
  BY <1>1, <1>2, PTL DEF Spec

-----------------------------------------------------------------------------
(* The lock *)

\* A locked report is approved, in every reachable state: billing locks only
\* reports it found approved, and every command that would move a report out of
\* that status stops at the lock or at the status.
THEOREM LockedIsApproved == Spec => []LockedApproved
<1>1. Init => LockedApproved
  BY DEF Init, LockedApproved
<1>2. TypeOK /\ LockedApproved /\ [Next]_vars => LockedApproved'
  <2> SUFFICES ASSUME TypeOK, LockedApproved, [Next]_vars
               PROVE  LockedApproved'
    OBVIOUS
  <2> USE DEF TypeOK, LockedApproved
  <2>1. ASSUME NEW r \in Reports, CreateReport(r, TRUE) \/ SubmitReport(r) \/ DeleteReport(r)
        PROVE  LockedApproved'
    BY <2>1 DEF CreateReport, SubmitReport, DeleteReport, EditableStatuses
  <2>2. ASSUME NEW r \in Reports, NEW reviewer \in Managers, NEW selfReview \in BOOLEAN,
               ApproveReport(r, reviewer, selfReview) \/ ReturnReport(r, reviewer, selfReview)
        PROVE  LockedApproved'
    BY <2>2 DEF ApproveReport, ReturnReport
  <2>3. ASSUME NEW p \in Projects, NEW m \in Months,
               MonthStatuses(p, m) \subseteq {"approved"}, LockProjectMonth(p, m)
        PROVE  LockedApproved'
    <3>1. \A r \in MonthReports(p, m) : status[r] = "approved"
      BY <2>3 DEF MonthStatuses
    <3> QED
      BY <2>3, <3>1 DEF LockProjectMonth
  <2>4. ASSUME NEW p \in Projects, NEW m \in Months, UnlockProjectMonth(p, m)
        PROVE  LockedApproved'
    BY <2>4 DEF UnlockProjectMonth
  <2>5. CASE UNCHANGED <<status, locked>>
    BY <2>5
  <2>6. ASSUME NEW r, NEW valid, NEW U, NEW A, NEW D,
               NEW updates \in [U -> LineValues], NEW additions \in [A -> LineValues],
               SaveLines(r, updates, additions, D, valid)
        PROVE  LockedApproved'
    BY <2>5, <2>6 DEF SaveLines
  <2>7. ASSUME NEW r, NEW a, NEW l,
               DeleteAttachment(r, a) \/ AddAttachment(r, a, l) \/ SetAttachmentLine(r, a, l)
        PROVE  LockedApproved'
    BY <2>5, <2>7 DEF DeleteAttachment, AddAttachment, SetAttachmentLine
  <2>8. CASE Next
    BY <2>1, <2>2, <2>3, <2>4, <2>6, <2>7, <2>8, StepCases, Zenon
  <2> QED
    BY <2>5, <2>8 DEF vars
<1> QED
  BY <1>1, <1>2, TypeCorrect, PTL DEF Spec

-----------------------------------------------------------------------------
(* Rows and their owners *)

\* No stray rows: in every reachable state a line and a receipt belong to a
\* report that exists, and a receipt's link is to a line of that report.  The
\* cascade of DeleteReport and the unlinking of SaveLines are what it takes.
THEOREM RowsAreOwned == Spec => []RowsOwned
<1> USE ExpensesAssumption DEF ExpensesAssumption
<1>1. Init => RowsOwned
  BY DEF Init, RowsOwned
<1>2. TypeOK /\ RowsOwned /\ [Next]_vars => RowsOwned'
  <2> SUFFICES ASSUME TypeOK, RowsOwned, [Next]_vars
               PROVE  RowsOwned'
    OBVIOUS
  <2> USE DEF TypeOK, RowsOwned, OwnLine, LinesOf, AttachmentsOf
  <2>1. ASSUME NEW r \in Reports, CreateReport(r, TRUE) \/ SubmitReport(r)
        PROVE  RowsOwned'
    <3>1. /\ line' = line /\ attachment' = attachment
          /\ \A x \in Reports : status[x] # "none" => status'[x] # "none"
      BY <2>1 DEF CreateReport, SubmitReport
    <3> QED
      BY <3>1 DEF LineRow, AttachmentRow
  <2>2. ASSUME NEW r \in Reports, DeleteReport(r)
        PROVE  RowsOwned'
    <3>1. \A l \in Lines : line'[l] # NoRow => line'[l] = line[l] /\ line[l].report # r
      BY <2>2 DEF DeleteReport
    <3>2. \A l \in Lines : line[l] # NoRow /\ line[l].report # r => line'[l] = line[l]
      BY <2>2 DEF DeleteReport
    <3>3. \A a \in Attachments : attachment'[a] # NoRow =>
            attachment'[a] = attachment[a] /\ attachment[a].report # r
      BY <2>2 DEF DeleteReport
    <3>4. \A x \in Reports : x # r => status'[x] = status[x]
      BY <2>2 DEF DeleteReport
    <3> QED
      BY <3>1, <3>2, <3>3, <3>4 DEF LineRow, AttachmentRow
  <2>3. ASSUME NEW r \in Reports, NEW valid \in SUBSET LineValues,
               NEW U \in SUBSET Lines, NEW A \in SUBSET Lines, NEW D \in SUBSET Lines,
               NEW updates \in [U -> LineValues], NEW additions \in [A -> LineValues],
               SaveLines(r, updates, additions, D, valid)
        PROVE  RowsOwned'
    <3>0. status' = status /\ status[r] # "none"
      BY <2>3 DEF SaveLines, Editable, EditableStatuses
    <3>1. ASSUME NEW l \in Lines, line'[l] # NoRow
          PROVE  status'[line'[l].report] # "none"
      BY <2>3, <3>0, <3>1 DEF SaveLines
    <3>2. ASSUME NEW l \in Lines, line[l] # NoRow, ~(l \in D /\ line[l].report = r)
          PROVE  line'[l] # NoRow /\ line'[l].report = line[l].report
      BY <2>3, <3>2 DEF SaveLines, LineRow
    <3>3. ASSUME NEW a \in Attachments, attachment'[a] # NoRow
          PROVE  /\ status'[attachment'[a].report] # "none"
                 /\ OwnLine(attachment[a].report, attachment[a].line)'
      <4>1. CASE a \in AttachmentsOf(r) /\ attachment[a].line \in D \cap LinesOf(r)
        <5>1. attachment'[a] = [report |-> r, line |-> NoLine]
          BY <2>3, <4>1 DEF SaveLines
        <5> QED
          BY <3>0, <5>1
      <4>2. CASE ~(a \in AttachmentsOf(r) /\ attachment[a].line \in D \cap LinesOf(r))
        <5>1. attachment'[a] = attachment[a]
          BY <2>3, <4>2 DEF SaveLines
        <5>2. attachment[a] # NoRow /\ attachment[a] \in AttachmentRow
          BY <3>3, <5>1
        <5>3. CASE attachment[a].line = NoLine
          BY <3>0, <5>1, <5>2, <5>3
        <5>4. CASE attachment[a].line \in LinesOf(attachment[a].report)
          <6>1. ~(attachment[a].line \in D /\ line[attachment[a].line].report = r)
            BY <4>2, <5>2, <5>4
          <6>2. /\ line'[attachment[a].line] # NoRow
                /\ line'[attachment[a].line].report = attachment[a].report
            BY <3>2, <5>4, <6>1
          <6> QED
            BY <3>0, <5>1, <5>2, <5>4, <6>2
        <5> QED
          BY <5>2, <5>3, <5>4
      <4> QED
        BY <4>1, <4>2
    <3> QED
      BY <3>1, <3>3
  <2>4. ASSUME NEW r \in Reports, NEW a \in Attachments, DeleteAttachment(r, a)
        PROVE  RowsOwned'
    BY <2>4 DEF DeleteAttachment
  <2>5. ASSUME NEW r \in Reports, NEW a \in Attachments, NEW l \in Lines \cup {NoLine},
               AddAttachment(r, a, l) \/ SetAttachmentLine(r, a, l)
        PROVE  RowsOwned'
    BY <2>5 DEF AddAttachment, SetAttachmentLine, Editable, EditableStatuses
  <2>6. ASSUME NEW r \in Reports, NEW reviewer \in Managers, NEW selfReview \in BOOLEAN,
               ApproveReport(r, reviewer, selfReview) \/ ReturnReport(r, reviewer, selfReview)
        PROVE  RowsOwned'
    <3>1. /\ line' = line /\ attachment' = attachment
          /\ \A x \in Reports : status[x] # "none" => status'[x] # "none"
      BY <2>6 DEF ApproveReport, ReturnReport
    <3> QED
      BY <3>1 DEF LineRow, AttachmentRow
  <2>7. CASE UNCHANGED <<status, line, attachment>>
    BY <2>7
  <2>8. ASSUME NEW p, NEW m, LockProjectMonth(p, m) \/ UnlockProjectMonth(p, m)
        PROVE  RowsOwned'
    BY <2>7, <2>8 DEF LockProjectMonth, UnlockProjectMonth
  <2>9. ASSUME NEW r \in Reports, CreateReport(r, TRUE) \/ DeleteReport(r) \/ SubmitReport(r)
        PROVE  RowsOwned'
    BY <2>1, <2>2, <2>9
  <2>10. CASE UNCHANGED vars
    BY <2>7, <2>10 DEF vars
  <2> HIDE DEF TypeOK, RowsOwned, OwnLine, LinesOf, AttachmentsOf
  <2>11. CASE Next
    BY <2>3, <2>4, <2>5, <2>6, <2>8, <2>9, <2>11, StepCases, Zenon
  <2> QED
    BY <2>10, <2>11
<1> QED
  BY <1>1, <1>2, TypeCorrect, PTL DEF Spec

-----------------------------------------------------------------------------
(* What was reviewed stays *)

\* A step that writes only rows which are not those of r, before or after it,
\* leaves the content of r alone.
LEMMA OthersRows ==
    ASSUME NEW r \in Reports,
           \A l \in Lines : line'[l] # line[l] => l \notin LinesOf(r) /\ l \notin LinesOf(r)',
           \A a \in Attachments : attachment'[a] # attachment[a] =>
                a \notin AttachmentsOf(r) /\ a \notin AttachmentsOf(r)'
    PROVE  Content(r)' = Content(r)
<1>1. LinesOf(r)' = LinesOf(r) /\ \A l \in LinesOf(r) : line'[l] = line[l]
  BY DEF LinesOf
<1>2. AttachmentsOf(r)' = AttachmentsOf(r) /\ \A a \in AttachmentsOf(r) : attachment'[a] = attachment[a]
  BY DEF AttachmentsOf
<1>3. [l \in LinesOf(r)' |-> line'[l].value] = [l \in LinesOf(r) |-> line[l].value]
  BY <1>1
<1>4. [a \in AttachmentsOf(r)' |-> attachment'[a].line] = [a \in AttachmentsOf(r) |-> attachment[a].line]
  BY <1>2
<1> QED
  BY <1>3, <1>4 DEF Content

\* From its submission until it is returned, the content of a report does not
\* change: what was reviewed is what is approved, billed and invoiced.
THEOREM ReviewedContentStays == Spec => ReviewedContentFrozen
<1> DEFINE Frozen == \A r \in Reports :
                       status[r] \in ReviewableStatuses /\ status'[r] # "returned" =>
                          Content(r)' = Content(r)
<1>1. TypeOK /\ Next => Frozen
  <2> SUFFICES ASSUME TypeOK, Next, NEW r \in Reports, status[r] \in ReviewableStatuses
               PROVE  Content(r)' = Content(r)
    OBVIOUS
  <2>0. status[r] \notin EditableStatuses /\ status[r] \notin {"draft", "none"}
    BY DEF EditableStatuses, ReviewableStatuses
  <2>1. CASE UNCHANGED <<line, attachment>>
    BY <2>1, OthersRows
  <2>2. ASSUME NEW x \in Reports, DeleteReport(x)
        PROVE  Content(r)' = Content(r)
    <3>1. x # r
      BY <2>0, <2>2 DEF DeleteReport
    <3>2. \A l \in Lines : line'[l] # line[l] => l \notin LinesOf(r) /\ l \notin LinesOf(r)'
      BY <2>2, <3>1 DEF DeleteReport, LinesOf, TypeOK
    <3>3. \A a \in Attachments : attachment'[a] # attachment[a] =>
            a \notin AttachmentsOf(r) /\ a \notin AttachmentsOf(r)'
      BY <2>2, <3>1 DEF DeleteReport, AttachmentsOf, TypeOK
    <3> QED
      BY <3>2, <3>3, OthersRows
  <2>3. ASSUME NEW x \in Reports, NEW valid \in SUBSET LineValues,
               NEW U \in SUBSET Lines, NEW A \in SUBSET Lines, NEW D \in SUBSET Lines,
               NEW updates \in [U -> LineValues], NEW additions \in [A -> LineValues],
               SaveLines(x, updates, additions, D, valid)
        PROVE  Content(r)' = Content(r)
    <3>1. x # r
      BY <2>0, <2>3 DEF SaveLines, Editable
    <3>2. \A l \in Lines : line'[l] # line[l] => l \notin LinesOf(r) /\ l \notin LinesOf(r)'
      BY <2>3, <3>1 DEF SaveLines, LinesOf, TypeOK
    <3>3. \A a \in Attachments : attachment'[a] # attachment[a] =>
            a \notin AttachmentsOf(r) /\ a \notin AttachmentsOf(r)'
      BY <2>3, <3>1 DEF SaveLines, AttachmentsOf, TypeOK
    <3> QED
      BY <3>2, <3>3, OthersRows
  <2>4. ASSUME NEW x \in Reports, NEW a \in Attachments, NEW l \in Lines \cup {NoLine},
               DeleteAttachment(x, a) \/ AddAttachment(x, a, l) \/ SetAttachmentLine(x, a, l)
        PROVE  Content(r)' = Content(r)
    <3>1. x # r /\ line' = line
      BY <2>0, <2>4 DEF DeleteAttachment, AddAttachment, SetAttachmentLine, Editable
    <3>2. ASSUME NEW b \in Attachments, attachment'[b] # attachment[b]
          PROVE  b \notin AttachmentsOf(r) /\ b \notin AttachmentsOf(r)'
      BY <2>4, <3>1, <3>2
         DEF DeleteAttachment, AddAttachment, SetAttachmentLine, AttachmentsOf, TypeOK
    <3> QED
      BY <3>1, <3>2, OthersRows
  <2>5. ASSUME NEW x \in Reports, CreateReport(x, TRUE) \/ DeleteReport(x) \/ SubmitReport(x)
        PROVE  Content(r)' = Content(r)
    BY <2>1, <2>2, <2>5 DEF CreateReport, SubmitReport
  <2>6. ASSUME NEW x \in Reports, NEW reviewer, NEW selfReview,
               ApproveReport(x, reviewer, selfReview) \/ ReturnReport(x, reviewer, selfReview)
        PROVE  Content(r)' = Content(r)
    BY <2>1, <2>6 DEF ApproveReport, ReturnReport
  <2>7. ASSUME NEW p, NEW m, LockProjectMonth(p, m) \/ UnlockProjectMonth(p, m)
        PROVE  Content(r)' = Content(r)
    BY <2>1, <2>7 DEF LockProjectMonth, UnlockProjectMonth
  <2>8. ASSUME NEW x \in Reports, NEW a \in Attachments, DeleteAttachment(x, a)
        PROVE  Content(r)' = Content(r)
    BY <2>4, <2>8
  <2> QED
    BY <2>3, <2>4, <2>5, <2>6, <2>7, <2>8, StepCases, Zenon
<1>2. TypeOK /\ [Next]_vars => [Frozen]_vars
  BY <1>1
<1>3. Spec => [][Frozen]_vars
  BY <1>2, TypeCorrect, PTL DEF Spec
<1> QED
  BY <1>3 DEF ReviewedContentFrozen

-----------------------------------------------------------------------------
(* Folding a sequence into the package *)

\* A nonempty collection of subsets of a finite set has a smallest one.
LEMMA SmallestSubset ==
    ASSUME NEW S, IsFiniteSet(S), NEW T \in SUBSET SUBSET S, T # {}
    PROVE  \E s \in T : \A t \in T : t \subseteq s => t = s
<1>1. IsWellFoundedOn(StrictSubsetOrdering(S), SUBSET S)
  BY FS_FiniteSubsetsOfFinite, FS_StrictSubsetOrderingWellFounded
<1>2. PICK s \in T : \A t \in T : <<t, s>> \notin StrictSubsetOrdering(S)
  BY <1>1, WFMin, Zenon
<1> QED
  BY <1>2 DEF StrictSubsetOrdering

\* The two loops of build_package, told apart by what they go through.
Added(kind, package, x) == IF kind = "lines" THEN AddLine(package, x) ELSE AddReport(package, x)

\* What such a loop has made of each part of its sequence.
IsLoop(kind, package, seq, S, it) ==
    it = [s \in SUBSET S |->
            IF s = {} THEN package ELSE Added(kind, it[s \ {Max(s)}], seq[Max(s)])]

LoopOf(kind, package, seq, S) == CHOOSE it : IsLoop(kind, package, seq, S, it)

\* The fold over the lines of a report is such a loop, and so is the one over the reports.
LEMMA FoldOfLines ==
    ASSUME NEW package, NEW seq
    PROVE  FoldLeft(AddLine, package, seq)
             = LoopOf("lines", package, seq, DOMAIN seq)[DOMAIN seq]
<1> DEFINE Loop(it) == it = [s \in SUBSET DOMAIN seq |->
                               IF s = {} THEN package ELSE AddLine(it[s \ {Max(s)}], seq[Max(s)])]
<1>1. FoldLeft(AddLine, package, seq) = (CHOOSE it : Loop(it))[DOMAIN seq]
  BY DEF FoldLeft, MapThenFoldSet
<1>2. \A p, x : Added("lines", p, x) = AddLine(p, x)
  BY DEF Added
<1>3. \A it : Loop(it) <=> IsLoop("lines", package, seq, DOMAIN seq, it)
  BY <1>2 DEF IsLoop
<1> HIDE DEF Loop
<1>4. (CHOOSE it : Loop(it)) = LoopOf("lines", package, seq, DOMAIN seq)
  BY <1>3, Zenon DEF LoopOf
<1> QED
  BY <1>1, <1>4

\* The same, for the reports.
LEMMA FoldOfReports ==
    ASSUME NEW package, NEW seq
    PROVE  FoldLeft(AddReport, package, seq)
             = LoopOf("reports", package, seq, DOMAIN seq)[DOMAIN seq]
<1> DEFINE Loop(it) == it = [s \in SUBSET DOMAIN seq |->
                               IF s = {} THEN package ELSE AddReport(it[s \ {Max(s)}], seq[Max(s)])]
<1>1. FoldLeft(AddReport, package, seq) = (CHOOSE it : Loop(it))[DOMAIN seq]
  BY DEF FoldLeft, MapThenFoldSet
<1>2. \A p, x : Added("reports", p, x) = AddReport(p, x)
  BY DEF Added
<1>3. \A it : Loop(it) <=> IsLoop("reports", package, seq, DOMAIN seq, it)
  BY <1>2 DEF IsLoop
<1> HIDE DEF Loop
<1>4. (CHOOSE it : Loop(it)) = LoopOf("reports", package, seq, DOMAIN seq)
  BY <1>3, Zenon DEF LoopOf
<1> QED
  BY <1>1, <1>4

Positions(n) == 1..n

\* The last of some positions is one of them.
LEMMA LastIsIn ==
    ASSUME NEW n \in Nat, NEW s \in SUBSET Positions(n), s # {}
    PROVE  Max(s) \in s
<1> USE DEF Positions
<1> DEFINE bounds == {b \in Nat : \A x \in s : x <= b}
<1>1. n \in bounds
  OBVIOUS
<1>2. PICK b \in bounds : \A c \in bounds : <<c, b>> \notin OpToRel(<, Nat)
  <2>1. bounds \subseteq Nat /\ bounds # {}
    BY <1>1
  <2> HIDE DEF bounds
  <2> QED
    BY <2>1, NatLessThanWellFounded, WFMin, Zenon
<1>3. \A c \in bounds : ~ (c < b)
  BY <1>2 DEF OpToRel
<1>4. b \in s
  <2> SUFFICES ASSUME b \notin s
               PROVE  FALSE
    OBVIOUS
  <2>1. \A x \in s : x \in Nat /\ x <= b - 1 /\ x > 0
    OBVIOUS
  <2>2. PICK x \in s : TRUE
    OBVIOUS
  <2>3. x \in Nat /\ x <= b - 1 /\ x > 0 /\ b \in Nat
    BY <2>1
  <2>4. b - 1 \in Nat
    <3> HIDE DEF bounds
    <3> QED
      BY ONLY <2>3
  <2>5. b - 1 \in bounds
    BY <2>1, <2>4
  <2> QED
    BY <1>3, <2>3, <2>5
<1>5. \E x \in s : \A y \in s : x >= y
  BY <1>4
<1> QED
  BY <1>5 DEF Max

\* Positions of a sequence are finitely many.
LEMMA PositionsAreFinite ==
    ASSUME NEW n \in Nat, NEW s \in SUBSET Positions(n)
    PROVE  IsFiniteSet(s)
<1>1. IsFiniteSet(Positions(n))
  BY FS_Interval DEF Positions
<1> QED
  BY <1>1, FS_Subset

\* Two such loops agree where both are defined.
LEMMA LoopIsUnique ==
    ASSUME NEW kind, NEW package, NEW seq, NEW n \in Nat,
           NEW S, NEW T, T \in SUBSET Positions(n), T \subseteq S, NEW a, NEW b,
           IsLoop(kind, package, seq, S, a), IsLoop(kind, package, seq, T, b)
    PROVE  \A s \in SUBSET T : a[s] = b[s]
<1> DEFINE bad == {s \in SUBSET T : a[s] # b[s]}
<1> SUFFICES ASSUME bad # {}
             PROVE  FALSE
  OBVIOUS
<1>0. IsFiniteSet(T)
  BY PositionsAreFinite
<1>1. PICK s \in bad : \A t \in bad : t \subseteq s => t = s
  <2>1. bad \in SUBSET SUBSET T
    OBVIOUS
  <2> HIDE DEF bad
  <2> QED
    BY <1>0, <2>1, SmallestSubset
<1>2. /\ a[s] = IF s = {} THEN package ELSE Added(kind, a[s \ {Max(s)}], seq[Max(s)])
      /\ b[s] = IF s = {} THEN package ELSE Added(kind, b[s \ {Max(s)}], seq[Max(s)])
  BY DEF IsLoop
<1>3. s # {} => a[s \ {Max(s)}] = b[s \ {Max(s)}]
  <2> SUFFICES ASSUME s # {}
               PROVE  a[s \ {Max(s)}] = b[s \ {Max(s)}]
    OBVIOUS
  <2>1. Max(s) \in s
    BY LastIsIn
  <2>2. s \ {Max(s)} \subseteq s /\ s \ {Max(s)} # s
    BY <2>1
  <2> QED
    BY <1>1, <2>2
<1> QED
  BY <1>2, <1>3

\* There is one.
LEMMA LoopExists ==
    ASSUME NEW kind, NEW package, NEW seq, NEW n \in Nat, NEW S \in SUBSET Positions(n)
    PROVE  IsLoop(kind, package, seq, S, LoopOf(kind, package, seq, S))
<1> DEFINE Loop(s)  == LoopOf(kind, package, seq, s)
           Is(s, it) == IsLoop(kind, package, seq, s, it)
           bad == {s \in SUBSET S : ~ \E it : Is(s, it)}
<1>0. IsFiniteSet(S)
  BY PositionsAreFinite
<1>1. ASSUME bad # {}
      PROVE  FALSE
  <2>1. PICK T \in bad : \A t \in bad : t \subseteq T => t = T
    <3>1. bad \in SUBSET SUBSET S
      OBVIOUS
    <3> HIDE DEF bad
    <3> QED
      BY <1>0, <1>1, <3>1, SmallestSubset
  <2>2. T \in SUBSET S /\ ~ \E it : Is(T, it)
    OBVIOUS
  <2>3. ASSUME NEW U \in SUBSET T, U # T
        PROVE  Is(U, Loop(U))
    <3>1. \E it : Is(U, it)
      BY <2>1, <2>2, <2>3
    <3> QED
      BY <3>1, Zenon DEF LoopOf
  <2> HIDE DEF bad
  <2> DEFINE rest(s) == s \ {Max(s)}
             it == [s \in SUBSET T |-> IF s = {} THEN package
                      ELSE Added(kind, Loop(rest(s))[rest(s)], seq[Max(s)])]
  <2>4. ASSUME NEW U \in SUBSET T, U # T
        PROVE  it[U] = Loop(U)[U]
    <3>1. Loop(U)[U] = IF U = {} THEN package ELSE Added(kind, Loop(U)[rest(U)], seq[Max(U)])
      BY <2>3, <2>4 DEF IsLoop
    <3>2. CASE U = {}
      BY <3>1, <3>2
    <3>3. CASE U # {}
      <4> DEFINE V == rest(U)
      <4>1. Max(U) \in U
        BY <2>2, <3>3, LastIsIn
      <4>2. V \subseteq U /\ V \in SUBSET T /\ V # T
        BY <4>1
      <4>3. Is(U, Loop(U)) /\ Is(V, Loop(V))
        BY <2>3, <2>4, <4>2
      <4>4. V \in SUBSET Positions(n)
        BY <2>2, <4>2
      <4> HIDE DEF V, Loop
      <4>5. \A s \in SUBSET V : Loop(U)[s] = Loop(V)[s]
        BY <4>2, <4>3, <4>4, LoopIsUnique
      <4>6. Loop(U)[V] = Loop(V)[V]
        BY <4>5
      <4> USE DEF V
      <4> QED
        BY <3>1, <3>3, <4>6
    <3> QED
      BY <3>2, <3>3
  <2>5. ASSUME NEW s \in SUBSET T, s # {}
        PROVE  Loop(rest(s))[rest(s)] = it[rest(s)]
    <3>1. Max(s) \in s
      BY <2>2, <2>5, LastIsIn
    <3>2. rest(s) \in SUBSET T /\ rest(s) # T
      BY <3>1
    <3> HIDE DEF it, Loop
    <3> QED
      BY <2>4, <3>2
  <2>6. Is(T, it)
    <3>1. \A s \in SUBSET T :
            (IF s = {} THEN package ELSE Added(kind, Loop(rest(s))[rest(s)], seq[Max(s)]))
               = (IF s = {} THEN package ELSE Added(kind, it[rest(s)], seq[Max(s)]))
      BY <2>5
    <3> QED
      BY <3>1 DEF IsLoop
  <2> QED
    BY <2>2, <2>6
<1>2. \E it : Is(S, it)
  BY <1>1
<1> QED
  BY <1>2, Zenon DEF LoopOf

\* What the loop has made of the positions s of its sequence.
LoopAt(kind, package, seq, s) == LoopOf(kind, package, seq, s)[s]

\* A loop over nothing leaves the package as it is.
LEMMA LoopStartsWith ==
    ASSUME NEW kind, NEW package, NEW seq
    PROVE  LoopAt(kind, package, seq, {}) = package
<1>1. IsLoop(kind, package, seq, {}, LoopOf(kind, package, seq, {}))
  <2>1. {} \in SUBSET Positions(0)
    OBVIOUS
  <2> QED
    BY <2>1, LoopExists
<1> QED
  BY <1>1 DEF IsLoop, LoopAt

\* A loop over some positions ends with the last of them.
LEMMA LoopEndsWith ==
    ASSUME NEW kind, NEW package, NEW seq, NEW n \in Nat, NEW s \in SUBSET Positions(n), s # {}
    PROVE  LoopAt(kind, package, seq, s)
             = Added(kind, LoopAt(kind, package, seq, s \ {Max(s)}), seq[Max(s)])
<1> DEFINE t == s \ {Max(s)}
<1>1. t \subseteq s /\ t \in SUBSET Positions(n)
  OBVIOUS
<1>2. /\ IsLoop(kind, package, seq, s, LoopOf(kind, package, seq, s))
      /\ IsLoop(kind, package, seq, t, LoopOf(kind, package, seq, t))
  BY <1>1, LoopExists
<1>3. LoopOf(kind, package, seq, s)[s] = Added(kind, LoopOf(kind, package, seq, s)[t], seq[Max(s)])
  BY <1>2 DEF IsLoop
<1> HIDE DEF t
<1>4. \A x \in SUBSET t : LoopOf(kind, package, seq, s)[x] = LoopOf(kind, package, seq, t)[x]
  BY <1>1, <1>2, LoopIsUnique
<1>5. LoopOf(kind, package, seq, s)[t] = LoopOf(kind, package, seq, t)[t]
  BY <1>4
<1> USE DEF t
<1> QED
  BY <1>3, <1>5 DEF LoopAt

\* SetToSeq lists each element once.
LEMMA ListsEachOnce ==
    ASSUME NEW S, IsFiniteSet(S)
    PROVE  /\ Cardinality(S) \in Nat
           /\ DOMAIN SetToSeq(S) = 1..Cardinality(S)
           /\ Len(SetToSeq(S)) = Cardinality(S)
           /\ \A i \in 1..Cardinality(S) : SetToSeq(S)[i] \in S
           /\ \A i, j \in 1..Cardinality(S) : SetToSeq(S)[i] = SetToSeq(S)[j] => i = j
           /\ \A x \in S : \E i \in 1..Cardinality(S) : SetToSeq(S)[i] = x
<1> DEFINE n == Cardinality(S)
<1>1. n \in Nat /\ ExistsBijection(1..n, S)
  BY FS_CardinalityType
<1>2. \E f \in [1..n -> S] : IsInjective(f)
  BY <1>1 DEF ExistsBijection, Bijection, Injection, IsInjective
<1>3. SetToSeq(S) \in [1..n -> S] /\ IsInjective(SetToSeq(S))
  BY <1>2, Zenon DEF SetToSeq
<1>4. SetToSeq(S) \in Injection(1..n, S)
  BY <1>3 DEF Injection, IsInjective
<1>5. Cardinality(1..n) = n
  BY <1>1, FS_Interval
<1>6. SetToSeq(S) \in Surjection(1..n, S)
  BY <1>4, <1>5, FS_Injection
<1>7. Len(SetToSeq(S)) = n
  BY <1>1, <1>3
<1> QED
  BY <1>1, <1>3, <1>6, <1>7 DEF Surjection, IsInjective

-----------------------------------------------------------------------------
(* The package of a month *)

IsNumbered(f) == f.name \notin Reports
Number(f)     == f.name[1]

\* Each line of L has one row, and each receipt of A one file.
RowsHold(rows, L) ==
    /\ {row.line : row \in rows} = L
    /\ \A x, y \in rows : x.line = y.line => x = y

FilesHold(files, A) ==
    /\ {f.receipt : f \in files} = A
    /\ \A x, y \in files : x.receipt = y.receipt => x = y

\* The numbers given so far are below the next one, each to one file, and stand in
\* the row of the line that the file's receipt is for.
NumbersHold(rows, files, next, L) ==
    /\ next \in Nat \ {0}
    /\ \A row \in rows : row.numbers \subseteq 1..(next - 1)
    /\ \A f \in files :
         IF IsNumbered(f) THEN Number(f) \in 1..(next - 1) /\ attachment[f.receipt].line \in L
                          ELSE attachment[f.receipt].line = NoLine
    /\ \A f, g \in files : IsNumbered(f) /\ IsNumbered(g) /\ Number(f) = Number(g) => f = g
    /\ \A row \in rows, f \in files : IsNumbered(f) =>
         (Number(f) \in row.numbers <=> attachment[f.receipt].line = row.line)

\* What build_package has after the lines of L and the receipts of A.
Holds(package, L, A) ==
    /\ package = [rows |-> package.rows, files |-> package.files, next |-> package.next]
    /\ RowsHold(package.rows, L)
    /\ FilesHold(package.files, A)
    /\ NumbersHold(package.rows, package.files, package.next, L)

\* A sequence has each element of a set once.
Lists(q, S) ==
    /\ Len(q) \in Nat
    /\ DOMAIN q = 1..Len(q)
    /\ \A i \in 1..Len(q) : q[i] \in S
    /\ \A i, j \in 1..Len(q) : q[i] = q[j] => i = j
    /\ \A x \in S : \E i \in 1..Len(q) : q[i] = x

\* The same, as it is used below.
LEMMA ListsAll == ASSUME NEW S, IsFiniteSet(S) PROVE Lists(SetToSeq(S), S)
  BY ListsEachOnce DEF Lists

\* Adding a line puts its row and its receipts in, under numbers of their own.
LEMMA LineAdded ==
    ASSUME NEW package, NEW L, NEW A, Holds(package, L, A), NoLine \notin L,
           NEW l, l # NoLine, l \notin L, NEW q, NEW R, Lists(q, R), R \cap A = {},
           \A a \in R : attachment[a].line = l
    PROVE  Holds(AddLine(package, [id |-> l, receipts |-> q]), L \cup {l}, A \cup R)
<1> DEFINE first == package.next
           n     == Len(q)
           row   == [line |-> l, numbers |-> first..(first + n - 1)]
           file(i) == [name |-> <<first + i - 1>>, receipt |-> q[i]]
           new   == {file(i) : i \in 1..n}
           rows  == package.rows \cup {row}
           files == package.files \cup new
           next  == first + n
<1>1. /\ AddLine(package, [id |-> l, receipts |-> q])
           = [rows |-> rows, files |-> files, next |-> next]
      /\ n \in Nat /\ first \in Nat \ {0}
  BY DEF AddLine, Lists, Holds, NumbersHold
<1>2. \A i \in 1..n : /\ IsNumbered(file(i)) /\ Number(file(i)) = first + i - 1
                      /\ file(i).receipt = q[i]
  BY DEF IsNumbered, Number, Reports
<1>3. /\ \A f \in new : \E i \in 1..n : f = file(i)
      /\ \A i \in 1..n : file(i) \in new
  OBVIOUS
<1>4. \A f \in new : /\ IsNumbered(f)
                     /\ Number(f) \in first..(first + n - 1)
                     /\ f.receipt \in R
                     /\ attachment[f.receipt].line = l
  <2> SUFFICES ASSUME NEW f \in new
               PROVE  /\ IsNumbered(f)
                      /\ Number(f) \in first..(first + n - 1)
                      /\ f.receipt \in R
                      /\ attachment[f.receipt].line = l
    OBVIOUS
  <2>1. PICK i \in 1..n : f = file(i)
    OBVIOUS
  <2>2. q[i] \in R
    BY DEF Lists
  <2>3. first + i - 1 \in first..(first + n - 1)
    BY <1>1
  <2> HIDE DEF file
  <2> QED
    BY <1>2, <2>1, <2>2, <2>3
<1>5. row.line = l /\ row.numbers = first..(first + n - 1)
  OBVIOUS
<1>6. RowsHold(rows, L \cup {l})
  <2>1. RowsHold(package.rows, L)
    BY DEF Holds
  <2> HIDE DEF row
  <2> QED
    BY <1>5, <2>1 DEF RowsHold
<1>7. FilesHold(files, A \cup R)
  <2>1. FilesHold(package.files, A)
    BY DEF Holds
  <2>2. \A x, y \in new : x.receipt = y.receipt => x = y
    <3> SUFFICES ASSUME NEW x \in new, NEW y \in new, x.receipt = y.receipt
                 PROVE  x = y
      OBVIOUS
    <3>1. PICK i \in 1..n : x = file(i)
      OBVIOUS
    <3>2. PICK j \in 1..n : y = file(j)
      OBVIOUS
    <3>3. i = j
      BY <1>2, <3>1, <3>2 DEF Lists
    <3> QED
      BY <3>1, <3>2, <3>3
  <2>3. {f.receipt : f \in new} = R
    <3>1. \A x \in R : \E i \in 1..n : q[i] = x
      BY DEF Lists
    <3>2. \A x \in R : \E f \in new : f.receipt = x
      BY <1>2, <1>3, <3>1
    <3> HIDE DEF new
    <3> QED
      BY <1>4, <3>2
  <2> HIDE DEF new
  <2> QED
    BY <2>1, <2>2, <2>3 DEF FilesHold
<1>8. NumbersHold(rows, files, next, L \cup {l})
  <2>1. NumbersHold(package.rows, package.files, first, L) /\ RowsHold(package.rows, L)
    BY DEF Holds
  <2>2. next \in Nat \ {0}
    BY <1>1
  <2>3. \A x \in rows : x.numbers \subseteq 1..(next - 1)
    <3>1. first..(first + n - 1) \subseteq 1..(next - 1) /\ 1..(first - 1) \subseteq 1..(next - 1)
      BY <1>1
    <3> HIDE DEF row, first, n, next
    <3> QED
      BY <1>5, <2>1, <3>1 DEF NumbersHold
  <2>4. \A f \in files :
          IF IsNumbered(f) THEN /\ Number(f) \in 1..(next - 1)
                                /\ attachment[f.receipt].line \in L \cup {l}
                           ELSE attachment[f.receipt].line = NoLine
    <3>1. first..(first + n - 1) \subseteq 1..(next - 1) /\ 1..(first - 1) \subseteq 1..(next - 1)
      BY <1>1
    <3> HIDE DEF row, first, n, next, new
    <3> QED
      BY <1>4, <2>1, <3>1 DEF NumbersHold
  <2>5. \A f, g \in files : IsNumbered(f) /\ IsNumbered(g) /\ Number(f) = Number(g) => f = g
    <3>1. \A f, g \in new : Number(f) = Number(g) => f = g
      <4> SUFFICES ASSUME NEW f \in new, NEW g \in new, Number(f) = Number(g)
                   PROVE  f = g
        OBVIOUS
      <4>1. PICK i \in 1..n : f = file(i)
        OBVIOUS
      <4>2. PICK j \in 1..n : g = file(j)
        OBVIOUS
      <4>3. first + i - 1 = first + j - 1
        BY <1>2, <4>1, <4>2
      <4>4. i = j
        BY <1>1, <4>3
      <4> QED
        BY <4>1, <4>2, <4>4
    <3>2. \A i \in 1..(first - 1), j \in first..(first + n - 1) : i # j
      BY <1>1
    <3> HIDE DEF new, first, n
    <3> QED
      BY <1>4, <2>1, <3>1, <3>2 DEF NumbersHold
  <2>6. ASSUME NEW x \in rows, NEW f \in files, IsNumbered(f)
        PROVE  Number(f) \in x.numbers <=> attachment[f.receipt].line = x.line
    <3>0. \A i \in 1..(first - 1), j \in first..(first + n - 1) : i # j
      BY <1>1
    <3>1. CASE x \in package.rows /\ f \in package.files
      BY <2>1, <2>6, <3>1 DEF NumbersHold
    <3>2. CASE x \in package.rows /\ f \in new
      <4>1. x.line \in L /\ x.numbers \subseteq 1..(first - 1)
        BY <2>1, <3>2 DEF NumbersHold, RowsHold
      <4> HIDE DEF new, first, n
      <4> QED
        BY <1>4, <3>0, <3>2, <4>1
    <3>3. CASE x = row /\ f \in package.files
      <4>1. attachment[f.receipt].line \in L /\ Number(f) \in 1..(first - 1)
        BY <2>1, <2>6, <3>3 DEF NumbersHold
      <4> HIDE DEF row, new, first, n
      <4> QED
        BY <1>5, <3>0, <3>3, <4>1
    <3>4. CASE x = row /\ f \in new
      <4> HIDE DEF row, new, first, n
      <4> QED
        BY <1>4, <1>5, <3>4
    <3> HIDE DEF row, new
    <3> QED
      BY <3>1, <3>2, <3>3, <3>4
  <2> HIDE DEF rows, files, next
  <2> QED
    BY <2>2, <2>3, <2>4, <2>5, <2>6 DEF NumbersHold
<1> HIDE DEF rows, files, next
<1> QED
  BY <1>1, <1>6, <1>7, <1>8 DEF Holds

\* Adding the receipts of no line puts their files in, which have no number.
LEMMA UnlinkedAdded ==
    ASSUME NEW package, NEW L, NEW A, Holds(package, L, A),
           NEW report, report.id \in Reports, NEW R, Lists(report.unlinked, R), R \cap A = {},
           \A a \in R : attachment[a].line = NoLine
    PROVE  Holds(AddUnlinked(package, report), L, A \cup R)
<1> DEFINE new   == {[name |-> report.id, receipt |-> a] : a \in R}
           files == package.files \cup new
<1>1. ToSet(report.unlinked) = R
  BY DEF ToSet, Lists
<1>2. AddUnlinked(package, report)
        = [rows |-> package.rows, files |-> files, next |-> package.next]
  <2>1. package = [rows |-> package.rows, files |-> package.files, next |-> package.next]
    BY DEF Holds
  <2>2. AddUnlinked(package, report) = [package EXCEPT !.files = @ \cup new]
    BY <1>1 DEF AddUnlinked
  <2> HIDE DEF new
  <2> QED
    BY <2>1, <2>2
<1>3. \A f \in new : /\ ~IsNumbered(f)
                     /\ f.receipt \in R
                     /\ attachment[f.receipt].line = NoLine
  BY DEF IsNumbered
<1>4. {f.receipt : f \in new} = R /\ \A x, y \in new : x.receipt = y.receipt => x = y
  <2> DEFINE file(a) == [name |-> report.id, receipt |-> a]
  <2>1. \A a \in R : file(a) \in new /\ file(a).receipt = a
    OBVIOUS
  <2>2. \A f \in new : f.receipt \in R /\ f = file(f.receipt)
    OBVIOUS
  <2> HIDE DEF new, file
  <2> QED
    BY <2>1, <2>2
<1>5. FilesHold(files, A \cup R)
  <2>1. FilesHold(package.files, A)
    BY DEF Holds
  <2> HIDE DEF new
  <2> QED
    BY <1>3, <1>4, <2>1 DEF FilesHold
<1>6. NumbersHold(package.rows, files, package.next, L)
  <2>1. NumbersHold(package.rows, package.files, package.next, L)
    BY DEF Holds
  <2> HIDE DEF new
  <2> QED
    BY <1>3, <2>1 DEF NumbersHold
<1> HIDE DEF files
<1> QED
  BY <1>2, <1>5, <1>6 DEF Holds

\* The receipts of the lines of r.
LinkedOf(r) == {a \in AttachmentsOf(r) : attachment[a].line \in LinesOf(r)}

\* What the loop over the lines of a report adds.
LEMMA LinesAdded ==
    ASSUME IsFiniteSet(Lines), IsFiniteSet(Attachments), NoLine \notin Lines,
           NEW package, NEW L \in SUBSET Lines, NEW A, Holds(package, L, A),
           NEW r, L \cap LinesOf(r) = {}, A \cap AttachmentsOf(r) = {}
    PROVE  Holds(FoldLeft(AddLine, package, SetToSeq(ExpenseMonthReport(r).lines)),
                 L \cup LinesOf(r), A \cup LinkedOf(r))
<1> DEFINE entry(l) == [id |-> l, receipts |-> SetToSeq(ReceiptsOf(r, l))]
           entries  == {entry(l) : l \in LinesOf(r)}
           q        == SetToSeq(entries)
           n        == Len(q)
           ids(s)   == {q[i].id : i \in s}
           linked(s) == UNION {ReceiptsOf(r, q[i].id) : i \in s}
           done(s)  == LoopAt("lines", package, q, s)
           Good(s)  == Holds(done(s), L \cup ids(s), A \cup linked(s))
           bad      == {s \in SUBSET Positions(n) : ~Good(s)}
<1>1. IsFiniteSet(entries)
  <2> DEFINE f == [l \in LinesOf(r) |-> entry(l)]
  <2>1. IsFiniteSet(LinesOf(r))
    BY FS_Subset DEF LinesOf
  <2>2. f \in Surjection(LinesOf(r), entries)
    BY DEF Surjection
  <2> HIDE DEF f, entries
  <2> QED
    BY <2>1, <2>2, FS_Surjection
<1>2. Lists(q, entries)
  <2> HIDE DEF entries
  <2> QED
    BY <1>1, ListsAll
<1>3. \A l : Lists(SetToSeq(ReceiptsOf(r, l)), ReceiptsOf(r, l))
  <2> SUFFICES ASSUME NEW l
               PROVE  IsFiniteSet(ReceiptsOf(r, l))
    BY ListsAll
  <2> QED
    BY FS_Subset DEF ReceiptsOf, AttachmentsOf
<1>4. /\ n \in Nat /\ DOMAIN q = Positions(n)
      /\ \A i \in Positions(n) : q[i].id \in LinesOf(r) /\ q[i] = entry(q[i].id)
      /\ \A i, j \in Positions(n) : q[i].id = q[j].id => i = j
      /\ \A l \in LinesOf(r) : \E i \in Positions(n) : q[i].id = l
  <2>1. /\ n \in Nat /\ DOMAIN q = Positions(n)
        /\ \A i \in Positions(n) : q[i] \in entries
        /\ \A i, j \in Positions(n) : q[i] = q[j] => i = j
        /\ \A x \in entries : \E i \in Positions(n) : q[i] = x
    BY <1>2 DEF Lists, Positions
  <2> HIDE DEF q
  <2>2. \A x \in entries : x.id \in LinesOf(r) /\ x = entry(x.id)
    OBVIOUS
  <2>3. \A l \in LinesOf(r) : entry(l) \in entries /\ entry(l).id = l
    OBVIOUS
  <2> HIDE DEF entries, entry, n
  <2> QED
    BY <2>1, <2>2, <2>3
<1>5. ASSUME bad # {}
      PROVE  FALSE
  <2>1. PICK s \in bad : \A t \in bad : t \subseteq s => t = s
    <3>1. IsFiniteSet(Positions(n))
      <4>1. Positions(n) \in SUBSET Positions(n)
        OBVIOUS
      <4> HIDE DEF n
      <4> QED
        BY <1>4, <4>1, PositionsAreFinite
    <3>2. bad \in SUBSET SUBSET Positions(n)
      OBVIOUS
    <3> HIDE DEF bad, n
    <3> QED
      BY <1>5, <3>1, <3>2, SmallestSubset
  <2>2. s \in SUBSET Positions(n) /\ ~Good(s)
    OBVIOUS
  <2> DEFINE m == Max(s)
             t == s \ {m}
             l == q[m].id
  <2>3. s # {}
    <3>1. ids({}) = {} /\ linked({}) = {}
      OBVIOUS
    <3>2. done({}) = package
      BY LoopStartsWith
    <3>3. Good({})
      BY <3>1, <3>2
    <3> QED
      BY <2>2, <3>3
  <2>4. m \in s
    <3> HIDE DEF n
    <3> QED
      BY <1>4, <2>2, <2>3, LastIsIn
  <2>5. Good(t)
    <3>1. t \in SUBSET Positions(n) /\ t \subseteq s /\ t # s
      BY <2>2, <2>4
    <3> HIDE DEF Good, t, n
    <3> QED
      BY <2>1, <3>1
  <2>6. done(s) = AddLine(done(t), [id |-> l, receipts |-> SetToSeq(ReceiptsOf(r, l))])
    <3>1. done(s) = Added("lines", done(t), q[m])
      <4> HIDE DEF n, q
      <4> QED
        BY <1>4, <2>2, <2>3, LoopEndsWith
    <3>2. q[m] = [id |-> l, receipts |-> SetToSeq(ReceiptsOf(r, l))]
      BY <1>4, <2>2, <2>4
    <3> HIDE DEF q, l
    <3> QED
      BY <3>1, <3>2 DEF Added
  <2>7. l \in LinesOf(r) /\ \A i \in t : q[i].id \in LinesOf(r) /\ q[i].id # l
    BY <1>4, <2>2, <2>4
  <2>8. l \notin L \cup ids(t) /\ NoLine \notin L \cup ids(t) /\ l # NoLine
    BY <2>7 DEF LinesOf
  <2>9. /\ ReceiptsOf(r, l) \cap (A \cup linked(t)) = {}
        /\ \A a \in ReceiptsOf(r, l) : attachment[a].line = l
    <3> HIDE DEF q
    <3> QED
      BY <2>7 DEF ReceiptsOf
  <2>10. ids(t) \cup {l} = ids(s) /\ linked(t) \cup ReceiptsOf(r, l) = linked(s)
    <3> HIDE DEF q
    <3> QED
      BY <2>4
  <2>11. Holds(AddLine(done(t), [id |-> l, receipts |-> SetToSeq(ReceiptsOf(r, l))]),
               (L \cup ids(t)) \cup {l}, (A \cup linked(t)) \cup ReceiptsOf(r, l))
    <3> DEFINE L2 == L \cup ids(t)
               A2 == A \cup linked(t)
               R2 == ReceiptsOf(r, l)
               q2 == SetToSeq(ReceiptsOf(r, l))
    <3>1. Holds(done(t), L2, A2)
      BY <2>5
    <3>2. NoLine \notin L2 /\ l # NoLine /\ l \notin L2 /\ Lists(q2, R2) /\ R2 \cap A2 = {}
      BY <1>3, <2>8, <2>9
    <3>3. \A a \in R2 : attachment[a].line = l
      BY <2>9
    <3> HIDE DEF L2, A2, R2, q2, l, done, t
    <3>4. Holds(AddLine(done(t), [id |-> l, receipts |-> q2]), L2 \cup {l}, A2 \cup R2)
      BY <3>1, <3>2, <3>3, LineAdded
    <3> USE DEF L2, A2, R2, q2
    <3> QED
      BY <3>4
  <2>12. /\ (L \cup ids(t)) \cup {l} = L \cup ids(s)
         /\ (A \cup linked(t)) \cup ReceiptsOf(r, l) = A \cup linked(s)
    <3> HIDE DEF ids, linked, t, l
    <3> QED
      BY <2>10
  <2>13. Good(s)
    <3> HIDE DEF ids, linked, t, l, done
    <3> QED
      BY <2>6, <2>11, <2>12
  <2> QED
    BY <2>2, <2>13
<1>6. Good(Positions(n))
  <2>1. Positions(n) \in SUBSET Positions(n)
    OBVIOUS
  <2> HIDE DEF Good
  <2> QED
    BY <1>5, <2>1
<1>7. ids(Positions(n)) = LinesOf(r)
  <2> HIDE DEF q, n
  <2> QED
    BY <1>4
<1>8. linked(Positions(n)) = LinkedOf(r)
  <2> HIDE DEF q, n
  <2> QED
    <3>1. \A a : a \in linked(Positions(n))
                  <=> \E i \in Positions(n) : a \in ReceiptsOf(r, q[i].id)
      OBVIOUS
    <3>2. \A a : a \in linked(Positions(n))
                  <=> a \in AttachmentsOf(r) /\ attachment[a].line \in LinesOf(r)
      BY <1>4, <3>1 DEF ReceiptsOf
    <3> HIDE DEF linked
    <3> QED
      BY <3>2 DEF LinkedOf
<1>9. FoldLeft(AddLine, package, q) = done(Positions(n))
  <2> HIDE DEF q, n
  <2> QED
    BY <1>4, FoldOfLines DEF LoopAt
<1>10. SetToSeq(ExpenseMonthReport(r).lines) = q
  BY DEF ExpenseMonthReport
<1> HIDE DEF q, n, ids, linked, done
<1> QED
  BY <1>6, <1>7, <1>8, <1>9, <1>10

\* What the turn of a report adds: its lines and all its receipts.
LEMMA ReportAdded ==
    ASSUME PackageAssumption, ExpensesAssumption, RowsOwned,
           NEW package, NEW L \in SUBSET Lines, NEW A, Holds(package, L, A),
           NEW r \in Reports, L \cap LinesOf(r) = {}, A \cap AttachmentsOf(r) = {}
    PROVE  Holds(AddReport(package, ExpenseMonthReport(r)), L \cup LinesOf(r), A \cup AttachmentsOf(r))
<1> DEFINE report == ExpenseMonthReport(r)
           after  == FoldLeft(AddLine, package, SetToSeq(report.lines))
           L2     == L \cup LinesOf(r)
           A2     == A \cup LinkedOf(r)
           R      == ReceiptsOf(r, NoLine)
<1>1. NoLine \notin Lines /\ IsFiniteSet(Lines) /\ IsFiniteSet(Attachments)
  BY DEF PackageAssumption, ExpensesAssumption
<1>2. Holds(after, L2, A2)
  BY <1>1, LinesAdded
<1>3. report.id = r /\ report.unlinked = SetToSeq(R)
  BY DEF ExpenseMonthReport
<1>4. Lists(report.unlinked, R)
  <2>1. IsFiniteSet(R)
    BY <1>1, FS_Subset DEF ReceiptsOf, AttachmentsOf
  <2> QED
    BY <1>3, <2>1, ListsAll
<1>5. R \cap A2 = {} /\ \A a \in R : attachment[a].line = NoLine
  BY <1>1 DEF LinkedOf, ReceiptsOf, LinesOf
<1>6. Holds(AddUnlinked(after, report), L2, A2 \cup R)
  <2> HIDE DEF after, L2, A2, R, report
  <2> QED
    BY <1>2, <1>3, <1>4, <1>5, UnlinkedAdded
<1>7. A2 \cup R = A \cup AttachmentsOf(r)
  BY DEF RowsOwned, LinkedOf, ReceiptsOf, AttachmentsOf
<1>8. AddReport(package, report) = AddUnlinked(after, report)
  BY DEF AddReport
<1> HIDE DEF A2, after
<1> QED
  BY <1>6, <1>7, <1>8

\* The reports of one month are finitely many.
LEMMA MonthIsFinite ==
    ASSUME PackageAssumption, NEW m \in Months
    PROVE  IsFiniteSet(MonthOf(m))
<1> DEFINE pairs == Users \X Projects
           of    == [p \in pairs |-> <<p[1], p[2], m>>]
           all   == {of[p] : p \in pairs}
<1>1. IsFiniteSet(pairs)
  BY FS_Product DEF PackageAssumption
<1>2. of \in Surjection(pairs, all)
  BY DEF Surjection
<1>3. IsFiniteSet(all)
  <2> HIDE DEF pairs, of, all
  <2> QED
    BY <1>1, <1>2, FS_Surjection
<1>4. MonthOf(m) \in SUBSET all
  <2> SUFFICES ASSUME NEW r \in MonthOf(m)
               PROVE  r \in all
    OBVIOUS
  <2>1. r \in Reports /\ r[3] = m
    BY DEF MonthOf
  <2>2. <<r[1], r[2]>> \in pairs /\ r = <<r[1], r[2], m>>
    BY <2>1 DEF Reports
  <2>3. of[<<r[1], r[2]>>] = r
    BY <2>2
  <2> HIDE DEF pairs, of
  <2> QED
    BY <2>2, <2>3
<1> HIDE DEF all
<1> QED
  BY <1>3, <1>4, FS_Subset

\* The package of a month has the lines and the receipts of its approved reports.
LEMMA PackageHolds ==
    ASSUME PackageAssumption, ExpensesAssumption, RowsOwned, NEW m \in Months
    PROVE  Holds(Package(m), LinesIn(ApprovedReports(m)), ReceiptsIn(ApprovedReports(m)))
<1> DEFINE approved == ApprovedReports(m)
           reports  == {ExpenseMonthReport(r) : r \in approved}
           q        == SetToSeq(reports)
           n        == Len(q)
           lines(s)    == UNION {LinesOf(q[i].id) : i \in s}
           receipts(s) == UNION {AttachmentsOf(q[i].id) : i \in s}
           done(s)  == LoopAt("reports", Empty, q, s)
           Good(s)  == Holds(done(s), lines(s), receipts(s))
           bad      == {s \in SUBSET Positions(n) : ~Good(s)}
<1>1. IsFiniteSet(reports)
  <2> DEFINE f == [r \in approved |-> ExpenseMonthReport(r)]
  <2>1. IsFiniteSet(approved)
    BY MonthIsFinite, FS_Subset DEF ApprovedReports
  <2>2. f \in Surjection(approved, reports)
    BY DEF Surjection
  <2> HIDE DEF f, reports, approved
  <2> QED
    BY <2>1, <2>2, FS_Surjection
<1>2. Lists(q, reports)
  <2> HIDE DEF reports
  <2> QED
    BY <1>1, ListsAll
<1>3. approved \subseteq Reports
  BY DEF ApprovedReports, MonthOf
<1>4. /\ n \in Nat /\ DOMAIN q = Positions(n)
      /\ \A i \in Positions(n) : q[i].id \in approved /\ q[i] = ExpenseMonthReport(q[i].id)
      /\ \A i, j \in Positions(n) : q[i].id = q[j].id => i = j
      /\ \A r \in approved : \E i \in Positions(n) : q[i].id = r
  <2>1. /\ n \in Nat /\ DOMAIN q = Positions(n)
        /\ \A i \in Positions(n) : q[i] \in reports
        /\ \A i, j \in Positions(n) : q[i] = q[j] => i = j
        /\ \A x \in reports : \E i \in Positions(n) : q[i] = x
    BY <1>2 DEF Lists, Positions
  <2> HIDE DEF q
  <2>2. \A r : ExpenseMonthReport(r).id = r
    BY DEF ExpenseMonthReport
  <2>3. \A x \in reports : x.id \in approved /\ x = ExpenseMonthReport(x.id)
    BY <2>2
  <2>4. \A r \in approved : ExpenseMonthReport(r) \in reports
    OBVIOUS
  <2> HIDE DEF reports, approved, n
  <2> QED
    BY <2>1, <2>2, <2>3, <2>4
<1>5. ASSUME bad # {}
      PROVE  FALSE
  <2>1. PICK s \in bad : \A t \in bad : t \subseteq s => t = s
    <3>1. IsFiniteSet(Positions(n))
      <4>1. Positions(n) \in SUBSET Positions(n)
        OBVIOUS
      <4> HIDE DEF n
      <4> QED
        BY <1>4, <4>1, PositionsAreFinite
    <3>2. bad \in SUBSET SUBSET Positions(n)
      OBVIOUS
    <3> HIDE DEF bad, n
    <3> QED
      BY <1>5, <3>1, <3>2, SmallestSubset
  <2>2. s \in SUBSET Positions(n) /\ ~Good(s)
    OBVIOUS
  <2> DEFINE k == Max(s)
             t == s \ {k}
             r == q[k].id
  <2>3. s # {}
    <3>1. lines({}) = {} /\ receipts({}) = {}
      OBVIOUS
    <3>2. done({}) = Empty
      BY LoopStartsWith
    <3>3. Holds(Empty, {}, {})
      BY DEF Holds, Empty, RowsHold, FilesHold, NumbersHold
    <3>4. Good({})
      BY <3>1, <3>2, <3>3
    <3> QED
      BY <2>2, <3>4
  <2>4. k \in s
    <3> HIDE DEF n
    <3> QED
      BY <1>4, <2>2, <2>3, LastIsIn
  <2>5. Good(t)
    <3>1. t \in SUBSET Positions(n) /\ t \subseteq s /\ t # s
      BY <2>2, <2>4
    <3> HIDE DEF Good, t, n
    <3> QED
      BY <2>1, <3>1
  <2>6. done(s) = AddReport(done(t), ExpenseMonthReport(r))
    <3>1. done(s) = Added("reports", done(t), q[k])
      <4> HIDE DEF n, q
      <4> QED
        BY <1>4, <2>2, <2>3, LoopEndsWith
    <3>2. q[k] = ExpenseMonthReport(r)
      BY <1>4, <2>2, <2>4
    <3> HIDE DEF q, r
    <3> QED
      BY <3>1, <3>2 DEF Added
  <2>7. r \in Reports /\ \A i \in t : q[i].id \in Reports /\ q[i].id # r
    BY <1>3, <1>4, <2>2, <2>4
  <2>8. /\ lines(t) \in SUBSET Lines
        /\ lines(t) \cap LinesOf(r) = {} /\ receipts(t) \cap AttachmentsOf(r) = {}
    <3> HIDE DEF q
    <3> QED
      BY <2>7 DEF LinesOf, AttachmentsOf
  <2>9. lines(t) \cup LinesOf(r) = lines(s) /\ receipts(t) \cup AttachmentsOf(r) = receipts(s)
    <3> HIDE DEF q
    <3> QED
      BY <2>4
  <2>10. Good(s)
    <3> HIDE DEF lines, receipts, t, r, done
    <3>1. Holds(AddReport(done(t), ExpenseMonthReport(r)),
                lines(t) \cup LinesOf(r), receipts(t) \cup AttachmentsOf(r))
      BY <2>5, <2>7, <2>8, ReportAdded
    <3> QED
      BY <2>6, <2>9, <3>1
  <2> QED
    BY <2>2, <2>10
<1>6. Good(Positions(n))
  <2>1. Positions(n) \in SUBSET Positions(n)
    OBVIOUS
  <2> HIDE DEF Good
  <2> QED
    BY <1>5, <2>1
<1>7. lines(Positions(n)) = LinesIn(approved) /\ receipts(Positions(n)) = ReceiptsIn(approved)
  <2> HIDE DEF q, n, approved
  <2> QED
    BY <1>4 DEF LinesIn, ReceiptsIn
<1>8. Package(m) = done(Positions(n))
  <2>1. Package(m) = FoldLeft(AddReport, Empty, q)
    BY DEF Package
  <2> HIDE DEF q, n
  <2> QED
    BY <1>4, <2>1, FoldOfReports DEF LoopAt
<1> HIDE DEF q, n, lines, receipts, done
<1> QED
  BY <1>6, <1>7, <1>8

\* Sets in a one-to-one correspondence have the same size.
LEMMA SameSize ==
    ASSUME NEW S, NEW T, NEW f \in [S -> T], IsFiniteSet(S) \/ IsFiniteSet(T),
           \A x, y \in S : f[x] = f[y] => x = y, \A t \in T : \E x \in S : f[x] = t
    PROVE  IsFiniteSet(S) /\ Cardinality(S) = Cardinality(T)
<1>1. f \in Injection(S, T) /\ f \in Surjection(S, T)
  BY DEF Injection, IsInjective, Surjection
<1>2. CASE IsFiniteSet(S)
  BY <1>1, <1>2, FS_Surjection
<1>3. CASE IsFiniteSet(T)
  BY <1>1, <1>3, FS_Injection
<1> QED
  BY <1>2, <1>3

\* Whatever happened to the lines and receipts of a month before it was closed, the
\* accountant's package of it has each approved line in one row and each receipt in
\* one file, no two numbered files share a number, and the numbers of a row are those
\* of its line's own receipts.
THEOREM PackageAlwaysHoldsMonth == Spec => []PackageHoldsMonth
<1> USE PackageAssumption, ExpensesAssumption
<1>1. RowsOwned => PackageHoldsMonth
  <2> SUFFICES ASSUME RowsOwned, NEW m \in Months
               PROVE  LET package  == Package(m)
                          numbered == {f \in package.files : f.name \notin Reports} IN
         /\ {row.line : row \in package.rows} = LinesIn(ApprovedReports(m))
         /\ {f.receipt : f \in package.files} = ReceiptsIn(ApprovedReports(m))
         /\ Cardinality(package.rows) = Cardinality(LinesIn(ApprovedReports(m)))
         /\ Cardinality(package.files) = Cardinality(ReceiptsIn(ApprovedReports(m)))
         /\ Cardinality({f.name : f \in numbered}) = Cardinality(numbered)
         /\ \A row \in package.rows :
               {f.receipt : f \in {x \in numbered : x.name[1] \in row.numbers}}
                  = {a \in Attachments : attachment[a] # NoRow /\ attachment[a].line = row.line}
         /\ NotApproved(m) = 0 => LinesIn(ApprovedReports(m)) = LinesIn(MonthOf(m))
    BY DEF PackageHoldsMonth
  <2> DEFINE rows     == Package(m).rows
             files    == Package(m).files
             L        == LinesIn(ApprovedReports(m))
             A        == ReceiptsIn(ApprovedReports(m))
             numbered == {f \in files : f.name \notin Reports}
  <2>1. /\ RowsHold(rows, L) /\ FilesHold(files, A)
        /\ NumbersHold(rows, files, Package(m).next, L)
    BY PackageHolds DEF Holds
  <2> HIDE DEF rows, files
  <2>2. {row.line : row \in rows} = L /\ {f.receipt : f \in files} = A
    BY <2>1 DEF RowsHold, FilesHold
  <2>3. L \in SUBSET Lines /\ A \in SUBSET Attachments
    BY DEF LinesIn, ReceiptsIn, LinesOf, AttachmentsOf
  <2>4. IsFiniteSet(L) /\ IsFiniteSet(A)
    <3> HIDE DEF L, A
    <3> QED
      BY <2>3, FS_Subset DEF PackageAssumption
  <2>5. Cardinality(rows) = Cardinality(L)
    <3> DEFINE f == [row \in rows |-> row.line]
    <3> HIDE DEF L
    <3>1. f \in [rows -> L] /\ \A t \in L : \E x \in rows : f[x] = t
      BY <2>2
    <3>2. \A x, y \in rows : f[x] = f[y] => x = y
      BY <2>1 DEF RowsHold
    <3> HIDE DEF f
    <3> QED
      BY <2>4, <3>1, <3>2, SameSize
  <2>6. IsFiniteSet(files) /\ Cardinality(files) = Cardinality(A)
    <3> DEFINE f == [x \in files |-> x.receipt]
    <3> HIDE DEF A
    <3>1. f \in [files -> A] /\ \A t \in A : \E x \in files : f[x] = t
      BY <2>2
    <3>2. \A x, y \in files : f[x] = f[y] => x = y
      BY <2>1 DEF FilesHold
    <3> HIDE DEF f
    <3> QED
      BY <2>4, <3>1, <3>2, SameSize
  <2>7. Cardinality({f.name : f \in numbered}) = Cardinality(numbered)
    <3> DEFINE names == {f.name : f \in numbered}
               g     == [f \in numbered |-> f.name]
    <3>1. IsFiniteSet(numbered)
      BY <2>6, FS_Subset
    <3>2. \A x, y \in numbered : g[x] = g[y] => x = y
      BY <2>1 DEF NumbersHold, IsNumbered, Number
    <3>3. g \in [numbered -> names] /\ \A t \in names : \E x \in numbered : g[x] = t
      OBVIOUS
    <3> HIDE DEF g, names, numbered
    <3>4. Cardinality(numbered) = Cardinality(names)
      BY <3>1, <3>2, <3>3, SameSize
    <3> USE DEF names
    <3> QED
      BY <3>4
  <2>8. ASSUME NEW row \in rows
        PROVE  {f.receipt : f \in {x \in numbered : x.name[1] \in row.numbers}}
                  = {a \in Attachments : attachment[a] # NoRow /\ attachment[a].line = row.line}
    <3>1. ASSUME NEW f \in numbered, f.name[1] \in row.numbers
          PROVE  /\ f.receipt \in Attachments /\ attachment[f.receipt] # NoRow
                 /\ attachment[f.receipt].line = row.line
      <4>1. f.receipt \in A
        BY <2>2
      <4>2. f.receipt \in Attachments /\ attachment[f.receipt] # NoRow
        BY <4>1 DEF ReceiptsIn, AttachmentsOf
      <4> QED
        BY <2>1, <3>1, <4>2 DEF NumbersHold, IsNumbered, Number
    <3>2. ASSUME NEW a \in Attachments, attachment[a] # NoRow, attachment[a].line = row.line
          PROVE  \E f \in numbered : f.name[1] \in row.numbers /\ f.receipt = a
      <4>1. row.line \in L
        BY <2>2
      <4>2. PICK r \in ApprovedReports(m) : row.line \in LinesOf(r)
        BY <4>1 DEF LinesIn
      <4>3. attachment[a].line # NoLine /\ attachment[a].report = r
        BY <3>2, <4>2 DEF RowsOwned, LinesOf, ExpensesAssumption
      <4>4. a \in A
        BY <3>2, <4>2, <4>3 DEF ReceiptsIn, AttachmentsOf
      <4>5. PICK f \in files : f.receipt = a
        <5> HIDE DEF A
        <5> QED
          BY <2>2, <4>4
      <4>6. IsNumbered(f)
        BY <2>1, <4>3, <4>5 DEF NumbersHold
      <4>7. f \in numbered /\ f.name[1] \in row.numbers
        BY <2>1, <3>2, <4>5, <4>6 DEF NumbersHold, IsNumbered, Number
      <4> QED
        BY <4>5, <4>7
    <3> HIDE DEF numbered
    <3> QED
      BY <3>1, <3>2
  <2>9. ASSUME NotApproved(m) = 0
        PROVE  L = LinesIn(MonthOf(m))
    <3> DEFINE others == {r \in MonthOf(m) : status[r] # "approved"}
    <3>1. IsFiniteSet(others) /\ Cardinality(others) = 0
      BY <2>9, MonthIsFinite, FS_Subset DEF NotApproved
    <3>2. others = {}
      <4> HIDE DEF others
      <4> QED
        BY <3>1, FS_EmptySet
    <3>3. ApprovedReports(m) = MonthOf(m)
      BY <3>2 DEF ApprovedReports
    <3> QED
      BY <3>3
  <2> HIDE DEF L, A
  <2>10. L = LinesIn(ApprovedReports(m)) /\ A = ReceiptsIn(ApprovedReports(m))
    BY DEF L, A
  <2> USE DEF rows, files
  <2> QED
    BY <2>2, <2>5, <2>6, <2>7, <2>8, <2>9, <2>10
<1> QED
  BY <1>1, RowsAreOwned, PTL
=============================================================================
