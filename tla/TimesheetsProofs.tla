--------------------------- MODULE TimesheetsProofs ---------------------------
(* Theorems about Timesheets, for every calendar, any number of users,       *)
(* projects and items, and batches of any size.                              *)
EXTENDS Timesheets, FiniteSetTheorems, TLAPS

\* A batch of n changes at most is in particular a function on part of S.
LEMMA PartialFunctionsType ==
    ASSUME NEW S, NEW T, NEW n, NEW f \in PartialFunctions(S, T, n)
    PROVE  /\ DOMAIN f \subseteq S
           /\ \A x \in DOMAIN f : f[x] \in T
<1>1. PICK D \in {X \in SUBSET S : Cardinality(X) <= n} : f \in [D -> T]
  BY DEF PartialFunctions
<1> QED
  BY <1>1

\* Every variable of the timesheets module keeps its type: the quantities that
\* SaveWeek writes are those of a batch, the statuses those of the workflow.
THEOREM TypeCorrect == Spec => []TypeOK
<1>1. Init => TypeOK
  BY DEF Init, TypeOK, TimesheetWeekStatus, Periods
<1>2. TypeOK /\ [Next]_vars => TypeOK'
  <2> SUFFICES ASSUME TypeOK, [Next]_vars
               PROVE  TypeOK'
    OBVIOUS
  <2> USE TimesheetsAssumption DEF TimesheetsAssumption
  <2>1. ASSUME NEW u \in Users, NEW w \in Weeks,
               NEW changes \in PartialFunctions(CellsIn(w), Quantities \cup {0}, MaxBatch),
               NEW comments \in PartialFunctions(Items, BOOLEAN, MaxBatch),
               NEW open \in SUBSET Items,
               SaveWeek(u, w, changes, comments, open)
        PROVE  TypeOK'
    <3>0. \A x \in DOMAIN changes : changes[x] \in Quantities \cup {0}
      BY PartialFunctionsType, Zenon
    <3>1. \A x \in DOMAIN changes : changes[x] \in Nat
      <4>1. Quantities \cup {0} \subseteq Nat
        OBVIOUS
      <4> QED
        BY <3>0, <4>1, Zenon
    <3>2. entry' \in [Users \X Items \X Days -> Nat]
      BY <2>1, <3>1 DEF SaveWeek, ApplyChanges, TypeOK
    <3>3. comment' \subseteq Users \X Weeks \X Items
      BY <2>1 DEF SaveWeek, ApplyRowComments
    <3>4. UNCHANGED <<week, period>>
      BY <2>1 DEF SaveWeek
    <3> QED
      BY <3>2, <3>3, <3>4 DEF TypeOK
  <2>2. ASSUME NEW u \in Users, NEW w \in Weeks, SubmitWeek(u, w)
        PROVE  TypeOK'
    BY <2>2 DEF SubmitWeek, TypeOK, TimesheetWeekStatus
  <2>3. ASSUME NEW u \in Users, NEW w \in Weeks, NEW r \in Managers, NEW selfReview \in BOOLEAN,
               ApproveWeek(u, w, r, selfReview)
        PROVE  TypeOK'
    BY <2>3 DEF ApproveWeek, TypeOK, TimesheetWeekStatus
  <2>4. ASSUME NEW u \in Users, NEW w \in Weeks, NEW r \in Managers, NEW selfReview \in BOOLEAN,
               ReturnWeek(u, w, r, selfReview)
        PROVE  TypeOK'
    BY <2>4 DEF ReturnWeek, TypeOK, TimesheetWeekStatus
  <2>5. ASSUME NEW p \in Projects, NEW m \in Months, NEW isInternal \in BOOLEAN, NEW reports,
               SendToBilling(p, m, isInternal, reports)
        PROVE  TypeOK'
    BY <2>5 DEF SendToBilling, TypeOK, Periods
  <2>6. ASSUME NEW p \in Projects, NEW m \in Months, ReopenPeriod(p, m)
        PROVE  TypeOK'
    BY <2>6 DEF ReopenPeriod, TypeOK, Periods
  <2>7. ASSUME NEW invoice \in Invoices, NEW refs \in SUBSET Periods,
               MarkInvoiced(refs, invoice)
        PROVE  TypeOK'
    BY <2>7 DEF MarkInvoiced, TypeOK
  <2>8. ASSUME NEW invoice \in Invoices, ClearInvoiced(invoice)
        PROVE  TypeOK'
    BY <2>8 DEF ClearInvoiced, TypeOK
  <2>9. CASE UNCHANGED vars
    BY <2>9 DEF vars, TypeOK
  <2>10. CASE EditStep
    BY <2>1, <2>2, <2>10 DEF EditStep
  <2>11. CASE ReviewStep
    BY <2>3, <2>4, <2>11 DEF ReviewStep
  <2>12. CASE BillingStep
    BY <2>5, <2>6, <2>7, <2>8, <2>12 DEF BillingStep
  <2> QED
    BY <2>9, <2>10, <2>11, <2>12 DEF Next
<1> QED
  BY <1>1, <1>2, PTL DEF Spec

-----------------------------------------------------------------------------
(* What each command may touch *)

\* A batch writes its own user's cells and nothing else, and none of them is in
\* a sent period; it edits the comments of its own week, of no project with a
\* sent period over it.
LEMMA SaveWeekTouches ==
    ASSUME TypeOK,
           NEW u \in Users, NEW w \in Weeks,
           NEW changes \in PartialFunctions(CellsIn(w), Quantities \cup {0}, MaxBatch),
           NEW comments \in PartialFunctions(Items, BOOLEAN, MaxBatch),
           NEW open \in SUBSET Items,
           SaveWeek(u, w, changes, comments, open)
    PROVE  /\ \A v \in Users, i \in Items, d \in Days :
                entry'[<<v, i, d>>] # entry[<<v, i, d>>] =>
                    v = u /\ ~Sent(ProjectOf[i], MonthOf[d])
           /\ \A v \in Users, x \in Weeks, i \in Items :
                ~(<<v, x, i>> \in comment' <=> <<v, x, i>> \in comment) =>
                    x = w /\ Overlapping(ProjectOf[i], w) = {}
<1>1. ASSUME NEW v \in Users, NEW i \in Items, NEW d \in Days,
             entry'[<<v, i, d>>] # entry[<<v, i, d>>]
      PROVE  v = u /\ ~Sent(ProjectOf[i], MonthOf[d])
  <2>1. v = u /\ <<i, d>> \in DOMAIN changes
    BY <1>1 DEF SaveWeek, ApplyChanges
  <2>2. ~Sent(ProjectOf[<<i, d>>[1]], MonthOf[<<i, d>>[2]])
    BY <2>1 DEF SaveWeek, NothingLocked
  <2> QED
    BY <2>1, <2>2
<1>2. ASSUME NEW v \in Users, NEW x \in Weeks, NEW i \in Items,
             ~(<<v, x, i>> \in comment' <=> <<v, x, i>> \in comment)
      PROVE  x = w /\ Overlapping(ProjectOf[i], w) = {}
  <2>1. <<v, x, i>> \in comment' <=>
          IF v = u /\ x = w /\ i \in DOMAIN comments
          THEN comments[i] ELSE <<v, x, i>> \in comment
    BY DEF SaveWeek, ApplyRowComments
  <2>2. x = w /\ i \in DOMAIN comments
    BY <1>2, <2>1
  <2> QED
    BY <2>2 DEF SaveWeek, NothingLocked
<1> QED
  BY <1>1, <1>2

-----------------------------------------------------------------------------
(* Whatever was handed to billing has been reviewed *)

\* SentWeeksApproved, entry by entry.
SentEntriesApproved ==
    \A u \in Users, i \in Items, d \in Days :
        entry[<<u, i, d>>] > 0 /\ Sent(ProjectOf[i], MonthOf[d]) =>
            week[<<u, WeekOf[d]>>] = "approved"

\* What holds entry by entry holds of the weeks in scope.
LEMMA ScopeByEntry == TypeOK /\ SentEntriesApproved => SentWeeksApproved
<1> SUFFICES ASSUME TypeOK, SentEntriesApproved,
                    NEW p \in Projects, NEW m \in Months, Sent(p, m),
                    NEW s \in ScopePairs(p, m)
             PROVE  week[s] = "approved"
  BY DEF SentWeeksApproved
<1>1. PICK k \in Users \X Items \X Days :
         /\ ProjectOf[k[2]] = p
         /\ MonthOf[k[3]] = m
         /\ entry[k] > 0
         /\ s = <<k[1], WeekOf[k[3]]>>
  BY DEF ScopePairs
<1>2. k = <<k[1], k[2], k[3]>> /\ k[1] \in Users /\ k[2] \in Items /\ k[3] \in Days
  OBVIOUS
<1> QED
  BY <1>1, <1>2 DEF SentEntriesApproved

\* The months of the week an entry lies in include the entry's own.
LEMMA EntryOverlaps ==
    ASSUME NEW u \in Users, NEW i \in Items, NEW d \in Days,
           entry[<<u, i, d>>] > 0, Sent(ProjectOf[i], MonthOf[d])
    PROVE  WeekBilled(u, WeekOf[d])
<1>1. <<i, d>> \in CellsIn(WeekOf[d])
  BY DEF CellsIn, Cells
<1>2. ProjectOf[i] \in EntryProjects(u, WeekOf[d])
  <2>1. <<i, d>> \in {x \in CellsIn(WeekOf[d]) : entry[<<u, x[1], x[2]>>] > 0}
    BY <1>1
  <2>2. ProjectOf[<<i, d>>[1]] \in EntryProjects(u, WeekOf[d])
    BY <2>1, Zenon DEF EntryProjects
  <2> QED
    BY <2>2
<1>3. MonthOf[d] \in Overlapping(ProjectOf[i], WeekOf[d])
  BY DEF Overlapping, MonthsIn
<1> QED
  BY <1>2, <1>3 DEF WeekBilled

\* Whatever was handed to billing has been reviewed: SentWeeksApproved holds in
\* every reachable state.  The send establishes it; a save cannot add an entry to
\* a sent month, a return cannot un-approve a week one overlaps, and a submit
\* cannot demote an approved week.
THEOREM SentImpliesApproved == Spec => []SentWeeksApproved
<1>1. Init => SentEntriesApproved
  BY TimesheetsAssumption DEF Init, SentEntriesApproved, Sent, Periods, TimesheetsAssumption
<1>2. TypeOK /\ TypeOK' /\ SentEntriesApproved /\ [Next]_vars => SentEntriesApproved'
  <2> SUFFICES ASSUME TypeOK, TypeOK', SentEntriesApproved, [Next]_vars,
                      NEW v \in Users, NEW i \in Items, NEW d \in Days,
                      entry'[<<v, i, d>>] > 0, Sent(ProjectOf[i], MonthOf[d])'
               PROVE  week'[<<v, WeekOf[d]>>] = "approved"
    BY DEF SentEntriesApproved
  <2>0. /\ ProjectOf[i] \in Projects
        /\ MonthOf[d] \in Months
        /\ WeekOf[d] \in Weeks
        /\ NotSent \notin Invoices
        /\ NotSent # NoInvoice
    BY TimesheetsAssumption DEF TimesheetsAssumption
  <2>1. ASSUME NEW u \in Users, NEW w \in Weeks,
               NEW changes \in PartialFunctions(CellsIn(w), Quantities \cup {0}, MaxBatch),
               NEW comments \in PartialFunctions(Items, BOOLEAN, MaxBatch),
               NEW open \in SUBSET Items,
               SaveWeek(u, w, changes, comments, open)
        PROVE  week'[<<v, WeekOf[d]>>] = "approved"
    <3>1. UNCHANGED <<week, period>>
      BY <2>1 DEF SaveWeek
    <3>2. Sent(ProjectOf[i], MonthOf[d])
      BY <3>1 DEF Sent
    <3>3. entry'[<<v, i, d>>] = entry[<<v, i, d>>]
      BY <2>1, <3>2, SaveWeekTouches
    <3> QED
      BY <3>1, <3>2, <3>3 DEF SentEntriesApproved
  <2>2. ASSUME NEW u \in Users, NEW w \in Weeks, SubmitWeek(u, w)
        PROVE  week'[<<v, WeekOf[d]>>] = "approved"
    BY <2>0, <2>2 DEF SubmitWeek, Editable, EditableStatuses, SentEntriesApproved, Sent, TypeOK
  <2>3. ASSUME NEW u \in Users, NEW w \in Weeks, NEW r \in Managers, NEW selfReview \in BOOLEAN,
               ApproveWeek(u, w, r, selfReview)
        PROVE  week'[<<v, WeekOf[d]>>] = "approved"
    BY <2>0, <2>3 DEF ApproveWeek, SentEntriesApproved, Sent, TypeOK
  <2>4. ASSUME NEW u \in Users, NEW w \in Weeks, NEW r \in Managers, NEW selfReview \in BOOLEAN,
               ReturnWeek(u, w, r, selfReview)
        PROVE  week'[<<v, WeekOf[d]>>] = "approved"
    <3>1. entry' = entry /\ period' = period /\ ~WeekBilled(u, w)
      BY <2>4 DEF ReturnWeek, MayReturn
    <3>2. entry[<<v, i, d>>] > 0 /\ Sent(ProjectOf[i], MonthOf[d])
      BY <3>1 DEF Sent
    <3>3. WeekBilled(v, WeekOf[d])
      BY <3>2, EntryOverlaps
    <3>4. <<v, WeekOf[d]>> # <<u, w>>
      BY <3>1, <3>3
    <3> QED
      BY <2>0, <2>4, <3>2, <3>4 DEF ReturnWeek, SentEntriesApproved, TypeOK
  <2>5. ASSUME NEW p \in Projects, NEW m \in Months, NEW isInternal \in BOOLEAN, NEW reports,
               SendToBilling(p, m, isInternal, reports)
        PROVE  week'[<<v, WeekOf[d]>>] = "approved"
    <3>1. entry' = entry /\ week' = week
      BY <2>5 DEF SendToBilling
    <3>2. CASE ProjectOf[i] = p /\ MonthOf[d] = m
      <4>1. <<v, WeekOf[d]>> \in ScopePairs(p, m)
        <5>1. <<v, i, d>> \in Users \X Items \X Days /\ entry[<<v, i, d>>] > 0
          BY <3>1
        <5> QED
          BY <3>2, <5>1 DEF ScopePairs
      <4>2. \A s \in ScopePairs(p, m) : week[s] = "approved"
        BY <2>5 DEF SendToBilling, BillingReadiness
      <4> QED
        BY <3>1, <4>1, <4>2
    <3>3. CASE ~(ProjectOf[i] = p /\ MonthOf[d] = m)
      <4>1. Sent(ProjectOf[i], MonthOf[d])
        BY <2>0, <2>5, <3>3 DEF SendToBilling, Sent, TypeOK, Periods
      <4> QED
        BY <3>1, <4>1 DEF SentEntriesApproved
    <3> QED
      BY <3>2, <3>3
  <2>6. ASSUME NEW p \in Projects, NEW m \in Months, ReopenPeriod(p, m)
        PROVE  week'[<<v, WeekOf[d]>>] = "approved"
    BY <2>0, <2>6 DEF ReopenPeriod, SentEntriesApproved, Sent, TypeOK, Periods
  <2>7. ASSUME NEW invoice \in Invoices, NEW refs \in SUBSET Periods,
               MarkInvoiced(refs, invoice)
        PROVE  week'[<<v, WeekOf[d]>>] = "approved"
    BY <2>0, <2>7 DEF MarkInvoiced, SentEntriesApproved, Sent, TypeOK, Periods
  <2>8. ASSUME NEW invoice \in Invoices, ClearInvoiced(invoice)
        PROVE  week'[<<v, WeekOf[d]>>] = "approved"
    BY <2>0, <2>8 DEF ClearInvoiced, SentEntriesApproved, Sent, TypeOK, Periods
  <2>9. CASE UNCHANGED vars
    BY <2>9 DEF vars, SentEntriesApproved, Sent
  <2>10. CASE EditStep
    BY <2>1, <2>2, <2>10 DEF EditStep
  <2>11. CASE ReviewStep
    BY <2>3, <2>4, <2>11 DEF ReviewStep
  <2>12. CASE BillingStep
    BY <2>5, <2>6, <2>7, <2>8, <2>12 DEF BillingStep
  <2> QED
    BY <2>9, <2>10, <2>11, <2>12 DEF Next
<1> QED
  BY <1>1, <1>2, TypeCorrect, ScopeByEntry, PTL DEF Spec

-----------------------------------------------------------------------------
(* The cap on a day's hours *)

\* A nonempty collection of subsets of a finite set has a smallest one: the
\* induction over finite sets that the sums below need.
LEMMA SmallestSubset ==
    ASSUME NEW S, IsFiniteSet(S), NEW T \in SUBSET SUBSET S, T # {}
    PROVE  \E s \in T : \A t \in T : t \subseteq s => t = s
<1>1. IsWellFoundedOn(StrictSubsetOrdering(S), SUBSET S)
  BY FS_FiniteSubsetsOfFinite, FS_StrictSubsetOrderingWellFounded
<1>2. PICK s \in T : \A t \in T : <<t, s>> \notin StrictSubsetOrdering(S)
  BY <1>1, WFMin, Zenon
<1> QED
  BY <1>2 DEF StrictSubsetOrdering

\* Zeros add up to zero, however many.
LEMMA SumOfZeros ==
    ASSUME NEW S, IsFiniteSet(S)
    PROVE  FoldFunction(+, 0, [x \in S |-> 0]) = 0
<1> DEFINE zero == [x \in S |-> 0]
           Iter(it) == it = [s \in SUBSET S |->
                               IF s = {} THEN 0
                               ELSE LET x == CHOOSE x \in s : TRUE IN zero[x] + it[s \ {x}]]
           sum == CHOOSE it : Iter(it)
<1>1. FoldFunction(+, 0, zero) = sum[S]
  BY DEF FoldFunction, FoldFunctionOnSet, MapThenFoldSet
<1>2. Iter([s \in SUBSET S |-> 0])
  OBVIOUS
<1>3. Iter(sum)
  BY <1>2
<1> HIDE DEF sum
<1> DEFINE NonZero == {s \in SUBSET S : sum[s] # 0}
<1>4. ASSUME NonZero # {}
      PROVE  FALSE
  <2>1. NonZero \in SUBSET SUBSET S
    OBVIOUS
  <2> HIDE DEF NonZero
  <2>2. PICK s \in NonZero : \A t \in NonZero : t \subseteq s => t = s
    BY <1>4, <2>1, SmallestSubset
  <2> USE DEF NonZero
  <2> DEFINE x == CHOOSE x \in s : TRUE
  <2>3. s # {}
    BY <1>3
  <2>4. sum[s \ {x}] = 0
    BY <2>2, <2>3
  <2>5. sum[s] = zero[x] + sum[s \ {x}]
    BY <1>3, <2>3
  <2> QED
    BY <2>3, <2>4, <2>5
<1> QED
  BY <1>1, <1>4

\* A user's hours on a day are those of the day's entries and of nothing else.
LEMMA HoursOfSameEntries ==
    ASSUME NEW e, NEW f, NEW u, NEW d,
           \A i \in HourItems : e[<<u, i, d>>] = f[<<u, i, d>>]
    PROVE  HoursOn(e, u, d) = HoursOn(f, u, d)
<1>1. [i \in HourItems |-> e[<<u, i, d>>]] = [i \in HourItems |-> f[<<u, i, d>>]]
  OBVIOUS
<1> QED
  BY <1>1 DEF HoursOn

\* No step but a save writes an entry.
LEMMA OnlySavesWrite ==
    ASSUME [Next]_vars, entry' # entry
    PROVE  \E u \in Users, w \in Weeks : \E changes, comments, open :
             SaveWeek(u, w, changes, comments, open)
<1>1. CASE EditStep
  BY <1>1 DEF EditStep, SubmitWeek
<1>2. ~ReviewStep
  BY DEF ReviewStep, ApproveWeek, ReturnWeek
<1>3. ~BillingStep
  BY DEF BillingStep, SendToBilling, ReopenPeriod, MarkInvoiced, ClearInvoiced
<1> QED
  BY <1>1, <1>2, <1>3 DEF Next, vars

\* No day of a user exceeds the cap: a save counts all the hours of the days it
\* writes, and leaves those of every other day as they were.
THEOREM DaysStayCapped == Spec => []DailyHoursCapped
<1> USE TimesheetsAssumption DEF TimesheetsAssumption
<1>1. Init => DailyHoursCapped
  <2> SUFFICES ASSUME Init, NEW u \in Users, NEW d \in Days
               PROVE  HoursOn(entry, u, d) <= MaxDailyHours
    BY DEF DailyHoursCapped
  <2>1. [i \in HourItems |-> entry[<<u, i, d>>]] = [i \in HourItems |-> 0]
    BY DEF Init
  <2>2. IsFiniteSet(HourItems)
    BY FS_Subset
  <2>3. HoursOn(entry, u, d) = 0
    BY <2>1, <2>2, SumOfZeros DEF HoursOn
  <2> QED
    BY <2>3
<1>2. DailyHoursCapped /\ [Next]_vars => DailyHoursCapped'
  <2> SUFFICES ASSUME DailyHoursCapped, [Next]_vars, NEW v \in Users, NEW d \in Days
               PROVE  HoursOn(entry', v, d) <= MaxDailyHours
    BY DEF DailyHoursCapped
  <2>1. ASSUME HoursOn(entry', v, d) = HoursOn(entry, v, d)
        PROVE  HoursOn(entry', v, d) <= MaxDailyHours
    BY <2>1 DEF DailyHoursCapped
  <2>2. CASE entry' = entry
    BY <2>1, <2>2
  <2>3. ASSUME NEW u \in Users, NEW w \in Weeks, NEW changes, NEW comments, NEW open,
               SaveWeek(u, w, changes, comments, open)
        PROVE  HoursOn(entry', v, d) <= MaxDailyHours
    <3>1. CASE v = u /\ \E i \in Items : <<i, d>> \in DOMAIN changes
      <4>1. PICK i \in Items : <<i, d>> \in DOMAIN changes
        BY <3>1
      <4>2. HoursOn(entry', u, <<i, d>>[2]) <= MaxDailyHours
        BY <2>3, <4>1 DEF SaveWeek, DailyHoursInRange
      <4> QED
        BY <3>1, <4>2
    <3>2. CASE ~(v = u /\ \E i \in Items : <<i, d>> \in DOMAIN changes)
      <4>1. \A i \in HourItems : entry'[<<v, i, d>>] = entry[<<v, i, d>>]
        BY <2>3, <3>2 DEF SaveWeek, ApplyChanges
      <4> QED
        BY <2>1, <4>1, HoursOfSameEntries
    <3> QED
      BY <3>1, <3>2
  <2> QED
    BY <2>2, <2>3, OnlySavesWrite
<1> QED
  BY <1>1, <1>2, PTL DEF Spec

-----------------------------------------------------------------------------
(* The lock of a sent period *)

\* A week the page offers to return can be returned: the projects of the week's
\* entries are among those of its rows, so the lock of the command is never
\* wider than the lock of the page.
THEOREM OfferedIsAccepted == Spec => []OfferedReturnAccepted
<1>1. OfferedReturnAccepted
  BY DEF OfferedReturnAccepted, CanReview, ReviewAllowed, MayReturn, IsLocked, WeekBilled,
         RowProjects
<1> QED
  BY <1>1, PTL

\* Only SaveWeek writes hours or row comments, and it refuses every cell and
\* comment of a sent period: nothing a sent period covers changes under it.
THEOREM BilledHoursNeverChange == Spec => BilledHoursFrozen
<1> DEFINE Frozen == \A p \in Projects, m \in Months :
                       Sent(p, m) /\ Sent(p, m)' => BilledHoursKept(p, m)
<1>1. TypeOK /\ [Next]_vars => Frozen
  <2> SUFFICES ASSUME TypeOK, [Next]_vars,
                      NEW p \in Projects, NEW m \in Months, Sent(p, m)
               PROVE  BilledHoursKept(p, m)
    OBVIOUS
  <2>1. ASSUME NEW u \in Users, NEW w \in Weeks,
               NEW changes \in PartialFunctions(CellsIn(w), Quantities \cup {0}, MaxBatch),
               NEW comments \in PartialFunctions(Items, BOOLEAN, MaxBatch),
               NEW open \in SUBSET Items,
               SaveWeek(u, w, changes, comments, open)
        PROVE  BilledHoursKept(p, m)
    <3>1. ASSUME NEW v \in Users, NEW i \in Items, NEW d \in Days,
                 ProjectOf[i] = p, MonthOf[d] = m
          PROVE  entry'[<<v, i, d>>] = entry[<<v, i, d>>]
      BY <2>1, <3>1, SaveWeekTouches
    <3>2. ASSUME NEW v \in Users, NEW x \in Weeks, NEW i \in Items,
                 ProjectOf[i] = p, m \in MonthsIn(x)
          PROVE  <<v, x, i>> \in comment' <=> <<v, x, i>> \in comment
      <4>1. Overlapping(ProjectOf[i], x) # {}
        BY <3>2 DEF Overlapping
      <4>2. ~(<<v, x, i>> \in comment' <=> <<v, x, i>> \in comment) =>
              x = w /\ Overlapping(ProjectOf[i], w) = {}
        BY <2>1, SaveWeekTouches, Zenon
      <4> QED
        BY <4>1, <4>2
    <3> QED
      BY <3>1, <3>2 DEF BilledHoursKept
  <2>2. CASE UNCHANGED <<entry, comment>>
    BY <2>2 DEF BilledHoursKept
  <2>3. CASE EditStep
    BY <2>1, <2>2, <2>3 DEF EditStep, SubmitWeek
  <2>4. CASE ReviewStep
    BY <2>2, <2>4 DEF ReviewStep, ApproveWeek, ReturnWeek
  <2>5. CASE BillingStep
    BY <2>2, <2>5 DEF BillingStep, SendToBilling, ReopenPeriod, MarkInvoiced, ClearInvoiced
  <2> QED
    BY <2>2, <2>3, <2>4, <2>5 DEF Next, vars
<1>2. TypeOK /\ [Next]_vars => [Frozen]_vars
  BY <1>1
<1>3. Spec => [][Frozen]_vars
  BY <1>2, TypeCorrect, PTL DEF Spec
<1> QED
  BY <1>3 DEF BilledHoursFrozen

-----------------------------------------------------------------------------
(* Timesheets implements the billing ledger *)

\* A step that leaves a period's entries alone leaves the hours the ledger sees
\* in it alone.
LEMMA SameEntriesSameHours ==
    ASSUME NEW r \in Periods,
           \A u \in Users, i \in Items, d \in Days :
             ProjectOf[i] = r[1] /\ MonthOf[d] = r[2] =>
               entry'[<<u, i, d>>] = entry[<<u, i, d>>]
    PROVE  PeriodHours(r[1], r[2])' = PeriodHours(r[1], r[2])
<1> DEFINE Rows == {x \in Users \X Items \X Days : ProjectOf[x[2]] = r[1] /\ MonthOf[x[3]] = r[2]}
<1>1. ASSUME NEW k \in Rows
      PROVE  entry'[k] = entry[k]
  <2>1. /\ k = <<k[1], k[2], k[3]>>
        /\ k[1] \in Users /\ k[2] \in Items /\ k[3] \in Days
        /\ ProjectOf[k[2]] = r[1] /\ MonthOf[k[3]] = r[2]
    OBVIOUS
  <2> QED
    BY <2>1
<1>2. [k \in Rows |-> entry'[k]] = [k \in Rows |-> entry[k]]
  BY <1>1
<1> QED
  BY <1>2 DEF PeriodHours

\* Seen from billing, the timesheets module is a billing ledger: every command is
\* one of the ledger's steps, or changes nothing the ledger sees.
THEOREM LedgerRefinement == Spec => ImplementsLedger
<1>1. Init => Ledger!Init
  BY DEF Init, Ledger!Init
<1>2. TypeOK /\ [Next]_vars => [Ledger!Next]_(Ledger!vars)
  <2> SUFFICES ASSUME TypeOK, [Next]_vars
               PROVE  [Ledger!Next]_(Ledger!vars)
    OBVIOUS
  <2>1. CASE UNCHANGED <<entry, period>>
    BY <2>1 DEF Ledger!vars, PeriodHours
  <2>2. ASSUME NEW u \in Users, NEW w \in Weeks,
               NEW changes \in PartialFunctions(CellsIn(w), Quantities \cup {0}, MaxBatch),
               NEW comments \in PartialFunctions(Items, BOOLEAN, MaxBatch),
               NEW open \in SUBSET Items,
               SaveWeek(u, w, changes, comments, open)
        PROVE  Ledger!Next
    <3>1. period' = period
      BY <2>2 DEF SaveWeek
    <3>2. ASSUME NEW r \in Periods, period[r] # NotSent
          PROVE  PeriodHours(r[1], r[2])' = PeriodHours(r[1], r[2])
      <4>1. r = <<r[1], r[2]>> /\ Sent(r[1], r[2])
        BY <3>2 DEF Periods, Sent
      <4>2. ASSUME NEW v \in Users, NEW i \in Items, NEW d \in Days,
                   ProjectOf[i] = r[1], MonthOf[d] = r[2]
            PROVE  entry'[<<v, i, d>>] = entry[<<v, i, d>>]
        <5>1. entry'[<<v, i, d>>] # entry[<<v, i, d>>] => ~Sent(ProjectOf[i], MonthOf[d])
          BY <2>2, SaveWeekTouches, Zenon
        <5> QED
          BY <4>1, <4>2, <5>1
      <4> QED
        BY <4>2, SameEntriesSameHours
    <3>3. Ledger!Work
      BY <3>1, <3>2 DEF Ledger!Work
    <3> QED
      BY <3>3 DEF Ledger!Next
  <2>3. ASSUME NEW p \in Projects, NEW m \in Months, NEW isInternal \in BOOLEAN, NEW reports,
               SendToBilling(p, m, isInternal, reports)
        PROVE  Ledger!Next
    <3>1. <<p, m>> \in Periods
      BY DEF Periods
    <3>2. Ledger!Send(<<p, m>>)
      BY <2>3 DEF SendToBilling, Sent, Ledger!Send, PeriodHours
    <3> QED
      BY <3>1, <3>2 DEF Ledger!Next
  <2>4. ASSUME NEW p \in Projects, NEW m \in Months, ReopenPeriod(p, m)
        PROVE  Ledger!Next
    <3>1. <<p, m>> \in Periods
      BY DEF Periods
    <3>2. Ledger!Reopen(<<p, m>>)
      BY <2>4 DEF ReopenPeriod, Ledger!Reopen, PeriodHours
    <3> QED
      BY <3>1, <3>2 DEF Ledger!Next
  <2>5. ASSUME NEW invoice \in Invoices, NEW refs \in SUBSET Periods,
               MarkInvoiced(refs, invoice)
        PROVE  Ledger!Next
    <3>1. Ledger!Invoice(refs, invoice)
      BY <2>5 DEF MarkInvoiced, Ledger!Invoice, PeriodHours
    <3> QED
      BY <3>1 DEF Ledger!Next
  <2>6. ASSUME NEW invoice \in Invoices, ClearInvoiced(invoice)
        PROVE  Ledger!Next
    <3>1. Ledger!Release(invoice)
      BY <2>6 DEF ClearInvoiced, Ledger!Release, PeriodHours
    <3> QED
      BY <3>1 DEF Ledger!Next
  <2>7. CASE EditStep
    BY <2>1, <2>2, <2>7 DEF EditStep, SubmitWeek
  <2>8. CASE ReviewStep
    BY <2>1, <2>8 DEF ReviewStep, ApproveWeek, ReturnWeek
  <2>9. CASE BillingStep
    BY <2>3, <2>4, <2>5, <2>6, <2>9 DEF BillingStep
  <2> QED
    BY <2>1, <2>7, <2>8, <2>9 DEF Next, vars
<1> QED
  BY <1>1, <1>2, TypeCorrect, PTL DEF Spec, ImplementsLedger, Ledger!Spec
=============================================================================
