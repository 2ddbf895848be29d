------------------------------- MODULE Summaries -------------------------------
(***************************************************************************)
(* The read side of timesheets: the month calendar, the month, year and    *)
(* week summaries of an employee, a manager's team overview, and the       *)
(* export of a billed month, with the work calendar they measure against.  *)
(*                                                                         *)
(* The same hours are added up by day, by ISO week, by month, by project,  *)
(* by billing item and by user, in queries of their own: the views are     *)
(* operators over the stored entries, one per query, and the properties    *)
(* say that they tell the same story.  Which entry may be written, when,   *)
(* is in Timesheets; the amounts of expense reports are in Expenses.       *)
(***************************************************************************)
EXTENDS Naturals, FiniteSets, Functions

CONSTANTS
    Users,
    Projects,
    MembersOf,      \* [Projects -> SUBSET Users], the members of today
    Items,          \* hour and day billing items
    ProjectOf,      \* [Items -> Projects]
    PresetOf,       \* [Items -> Presets]
    Days,           \* consecutive, as numbers
    WeekOf,         \* [Days -> Weeks], ISO weeks as consecutive numbers
    MonthOf,        \* [Days -> Months]
    Months,         \* consecutive, as numbers
    YearOf,         \* [Months -> Nat]
    Weekend,        \* the days that are Saturdays and Sundays
    Holidays,       \* the days the holidays library knows
    Kinds,          \* the kinds of non-working days in use
    Quantities,
    HoursPerDay,    \* settings.daily_working_hours
    MaxWeeks,       \* MAX_WEEKLY_HOURS_WEEKS
    MaxEntries,     \* bound on the entries at a time
    MaxOff          \* bound on the non-working days at a time

VARIABLES
    entry,          \* time_entries: the quantity of a (user, item, day), 0 when no row
    off,            \* non_working_days: the kind of a day's row, "none" without one
    today

vars == <<entry, off, today>>

-----------------------------------------------------------------------------
NonWorkingDayKind == {"public_holiday", "bridge_day", "company_day_off"}

HourPresets == {"normal", "overtime", "travel", "other"}
Presets     == HourPresets \cup {"day"}

ASSUME SummariesAssumption ==
    /\ MembersOf \in [Projects -> SUBSET Users]
    /\ ProjectOf \in [Items -> Projects]
    /\ PresetOf \in [Items -> Presets]
    /\ IsFiniteSet(Users) /\ IsFiniteSet(Projects) /\ IsFiniteSet(Items)
    /\ IsFiniteSet(Days) /\ IsFiniteSet(Months)
    /\ Days \subseteq Nat /\ Months \subseteq Nat
    /\ \A d \in Days : WeekOf[d] \in Nat /\ MonthOf[d] \in Months
    /\ \A d, e \in Days : d <= e => MonthOf[d] <= MonthOf[e]
    /\ \A m \in Months : YearOf[m] \in Nat
    /\ Weekend \cup Holidays \subseteq Days
    /\ Kinds \subseteq NonWorkingDayKind
    /\ Quantities \subseteq Nat \ {0}
    /\ {HoursPerDay, MaxWeeks, MaxEntries, MaxOff} \subseteq Nat

TypeOK ==
    /\ entry \in [Users \X Items \X Days -> Quantities \cup {0}]
    /\ off \in [Days -> NonWorkingDayKind \cup {"none"}]
    /\ today \in Days

Init ==
    /\ entry = [k \in Users \X Items \X Days |-> 0]
    /\ off = [d \in Days |-> "none"]
    /\ today \in Days

Rows    == {k \in DOMAIN entry : entry[k] > 0}
OffDays == {d \in Days : off[d] # "none"}

-----------------------------------------------------------------------------
(* The work calendar *)

AddNonWorkingDay(d, kind) ==
    /\ off[d] = "none"
    /\ off' = [off EXCEPT ![d] = kind]
    /\ UNCHANGED <<entry, today>>

\* A row moves to another day that is free, or stays.
UpdateNonWorkingDay(d, new) ==
    /\ off[d] # "none"
    /\ new # d => off[new] = "none"
    /\ off' = [off EXCEPT ![d] = "none", ![new] = off[d]]
    /\ UNCHANGED <<entry, today>>

DeleteNonWorkingDay(d) ==
    /\ off[d] # "none"
    /\ off' = [off EXCEPT ![d] = "none"]
    /\ UNCHANGED <<entry, today>>

\* Days that have a row keep it.
ImportPublicHolidays(y) ==
    /\ off' = [d \in Days |->
                  IF d \in Holidays /\ YearOf[MonthOf[d]] = y /\ off[d] = "none"
                  THEN "public_holiday" ELSE off[d]]
    /\ UNCHANGED <<entry, today>>

\* _is_working_day
IsWorkingDay(d) == d \notin Weekend /\ d \notin OffDays

Expected(days) == HoursPerDay * Cardinality({d \in days : IsWorkingDay(d)})
ToDate(days)   == {d \in days : d <= today}

-----------------------------------------------------------------------------
(* Ranges, and the sums over them *)

\* Mutant of DaysOfMonth: the whole weeks of the calendar's grid.
DaysOfMonth_Grid(m) == {d \in Days : \E e \in Days : MonthOf[e] = m /\ WeekOf[e] = WeekOf[d]}

DaysOfMonth(m)  == {d \in Days : MonthOf[d] = m}
DaysOfWeek(w)   == {d \in Days : WeekOf[d] = w}
WeeksOfMonth(m) == {WeekOf[d] : d \in DaysOfMonth(m)}
ThisMonth       == MonthOf[today]

HourItems    == {i \in Items : PresetOf[i] \in HourPresets}
ItemsOf(p)   == {i \in Items : ProjectOf[i] = p}

Quantity(users, items, days) ==
    SumFunctionOnSet(entry, {k \in users \X items \X days : entry[k] > 0})

\* _QuantityAccumulator: hours by preset, and days.
Accumulated(users, items, days) ==
    [preset \in Presets |-> Quantity(users, {i \in items : PresetOf[i] = preset}, days)]

TotalHours(acc) == acc["normal"] + acc["overtime"] + acc["travel"] + acc["other"]

Merged(accs, keys) ==
    [preset \in Presets |-> SumFunction([k \in keys |-> accs[k][preset]])]

-----------------------------------------------------------------------------
(* An employee's own views *)

CalendarWeek(u, w) ==
    [hours    |-> Quantity({u}, HourItems, DaysOfWeek(w)),
     expected |-> Expected(DaysOfWeek(w))]

\* The grid is whole weeks; the month's own sums are over its days alone.
MonthCalendar(u, m) ==
    [weeks    |-> [w \in WeeksOfMonth(m) |-> CalendarWeek(u, w)],
     hours    |-> SumFunction([d \in {e \in Days : MonthOf[e] = m} |->
                                   Quantity({u}, HourItems, {d})]),
     expected |-> Expected(DaysOfMonth(m)),
     toDate   |-> Expected(ToDate(DaysOfMonth(m)))]

\* Mutant of ExpectedToDate: a month counts as a whole, whatever the day.
ExpectedToDate_Whole(days, isCurrent) == Expected(days)

\* Outside the current month or week, to date is the whole of it.
ExpectedToDate(days, isCurrent) == Expected(IF isCurrent THEN ToDate(days) ELSE days)

MonthTimeSummary(u, m) ==
    [hours    |-> Accumulated({u}, Items, DaysOfMonth(m)),
     expected |-> Expected(DaysOfMonth(m)),
     toDate   |-> ExpectedToDate(DaysOfMonth(m), m = ThisMonth)]

\* A year shows its months up to the current one.
MonthsShown(y) == {m \in Months : YearOf[m] = y /\ m <= ThisMonth}

\* Mutant of ProjectHours: the accumulators are keyed by project alone.
ProjectHours_OfYear(u, p, m) ==
    Accumulated({u}, ItemsOf(p), {d \in Days : YearOf[MonthOf[d]] = YearOf[m]})

ProjectHours(u, p, m) == Accumulated({u}, ItemsOf(p), DaysOfMonth(m))

\* A month merges the sums of its billing items.
MonthRow(u, m) ==
    LET byItem == [i \in HourItems |-> Accumulated({u}, {i}, DaysOfMonth(m))]
    IN  [totals   |-> Merged(byItem, HourItems),
         projects |-> [p \in Projects |-> ProjectHours(u, p, m)],
         expected |-> Expected(DaysOfMonth(m)),
         toDate   |-> ExpectedToDate(DaysOfMonth(m), m = ThisMonth)]

YearHours(u, y) ==
    LET shown  == MonthsShown(y)
        months == [m \in shown |-> MonthRow(u, m)]
    IN  [months   |-> months,
         totals   |-> Merged([m \in shown |-> months[m].totals], shown),
         expected |-> SumFunction([m \in shown |-> months[m].expected]),
         toDate   |-> SumFunction([m \in shown |-> months[m].toDate])]

\* The current week and the ones before it, n in all.
WeeksShown(n) ==
    {w \in {WeekOf[d] : d \in Days} : w <= WeekOf[today] /\ WeekOf[today] < w + n}

\* Mutant of WindowDays: it ends today.
WindowDays_ToToday(n) == ToDate({d \in Days : WeekOf[d] \in WeeksShown(n)})

\* The window ends with the current week.
WindowDays(n) == {d \in Days : WeekOf[d] \in WeeksShown(n)}

WeekRow(u, w) ==
    [totals   |-> Accumulated({u}, HourItems, DaysOfWeek(w)),
     expected |-> Expected(DaysOfWeek(w)),
     toDate   |-> ExpectedToDate(DaysOfWeek(w), w = WeekOf[today])]

WeeklyHours(u, n) ==
    [weeks    |-> [w \in WeeksShown(n) |-> WeekRow(u, w)],
     projects |-> [p \in Projects |->
                     Accumulated({u}, HourItems \cap ItemsOf(p), WindowDays(n))]]

-----------------------------------------------------------------------------
(* The views of a project's month *)

RowsOf(p, m) == {k \in Users \X ItemsOf(p) \X DaysOfMonth(m) : entry[k] > 0}

\* Mutant of TeamUsers: members only, not who left with hours on the project.
TeamUsers_Members(p, m) == MembersOf[p]

TeamUsers(p, m) == MembersOf[p] \cup {k[1] : k \in RowsOf(p, m)}

ProjectWeek(u, p, m, w) ==
    Quantity({u}, HourItems \cap ItemsOf(p), DaysOfWeek(w) \cap DaysOfMonth(m))

\* The month's part of a week on the project, and the whole week on any project.
TeamMemberWeek(u, p, m, w) ==
    [projectHours |-> ProjectWeek(u, p, m, w),
     totalHours   |-> Quantity({u}, HourItems, DaysOfWeek(w)),
     expected     |-> Expected(DaysOfWeek(w))]

Warning(u, p, m, hours, total) ==
    IF u \notin MembersOf[p] THEN "none"
    ELSE IF hours = 0 THEN "no_entries"
    ELSE IF total < Expected(ToDate(DaysOfMonth(m))) THEN "under_expected_hours"
    ELSE "none"

TeamMember(u, p, m) ==
    LET hours == SumFunction([w \in WeeksOfMonth(m) |-> ProjectWeek(u, p, m, w)])
        total == Quantity({u}, HourItems, DaysOfMonth(m))
    IN  [weeks   |-> [w \in WeeksOfMonth(m) |-> TeamMemberWeek(u, p, m, w)],
         hours   |-> hours,
         total   |-> total,
         warning |-> Warning(u, p, m, hours, total)]

\* The time of a period in the team overview and, once sent, in the billing list.
BillingPeriod(p, m) == Accumulated(Users, ItemsOf(p), DaysOfMonth(m))

ExportRow(k) ==
    [user |-> k[1], item |-> k[2], day |-> k[3], quantity |-> entry[k],
     unit |-> IF k[2] \in HourItems THEN "hour" ELSE "day"]

ExportRows(p, m) == {ExportRow(k) : k \in RowsOf(p, m)}

-----------------------------------------------------------------------------
\* SaveTimesheetWeek, one cell of it; 0 deletes the entry.
Book(k, quantity) ==
    /\ quantity > 0 => Cardinality(Rows \cup {k}) <= MaxEntries
    /\ entry' = [entry EXCEPT ![k] = quantity]
    /\ UNCHANGED <<off, today>>

Midnight ==
    /\ today + 1 \in Days
    /\ today' = today + 1
    /\ UNCHANGED <<entry, off>>

CalendarStep ==
    \/ \E d \in Days :
         \/ Cardinality(OffDays) < MaxOff /\ \E kind \in Kinds : AddNonWorkingDay(d, kind)
         \/ \E new \in Days : UpdateNonWorkingDay(d, new)
         \/ DeleteNonWorkingDay(d)
    \/ \E m \in Months : ImportPublicHolidays(YearOf[m])

Next ==
    \/ \E k \in Users \X Items \X Days, quantity \in Quantities \cup {0} : Book(k, quantity)
    \/ CalendarStep
    \/ Midnight

Spec == Init /\ [][Next]_vars

-----------------------------------------------------------------------------
(* Properties *)

Years == {YearOf[m] : m \in Months}

\* The calendar, the month's summary and its row in the year's add up the same hours,
\* the first by day, the second by entry and the third by billing item in the database,
\* and expect the same of them, until today too.
MonthsAgree ==
    \A u \in Users, y \in Years : \A m \in MonthsShown(y) :
        LET row == YearHours(u, y).months[m]
            calendar == MonthCalendar(u, m)
            summary == MonthTimeSummary(u, m)
        IN  /\ calendar.hours = TotalHours(summary.hours)
            /\ calendar.hours = TotalHours(row.totals)
            /\ \A preset \in HourPresets : row.totals[preset] = summary.hours[preset]
            /\ {calendar.expected, summary.expected} = {row.expected}
            /\ {calendar.toDate, summary.toDate} = {row.toDate}

\* The total of a year, and of each of its months, is that of the projects listed under
\* the months.
YearAddsUp ==
    \A u \in Users, y \in Years :
        LET year == YearHours(u, y)
            hours(m) == SumFunction([p \in Projects |-> TotalHours(year.months[m].projects[p])])
        IN  /\ \A m \in DOMAIN year.months : hours(m) = TotalHours(year.months[m].totals)
            /\ TotalHours(year.totals) = SumFunction([m \in DOMAIN year.months |-> hours(m)])
            /\ year.toDate <= year.expected

\* A week is the same in the rolling window and in the calendar of every month it is a
\* part of, and the window's projects have all of its hours.
WeeksAgree ==
    \A u \in Users, n \in 1..MaxWeeks :
        LET window == WeeklyHours(u, n)
            hours(w) == TotalHours(window.weeks[w].totals)
        IN  /\ \A w \in DOMAIN window.weeks, m \in Months :
                   w \in WeeksOfMonth(m) =>
                       /\ MonthCalendar(u, m).weeks[w].hours = hours(w)
                       /\ MonthCalendar(u, m).weeks[w].expected = window.weeks[w].expected
            /\ SumFunction([w \in DOMAIN window.weeks |-> hours(w)])
                 = SumFunction([p \in Projects |-> TotalHours(window.projects[p])])

\* What a manager sees of a project's month before it is sent is what is billed: the
\* members' hours, the period's and the exported rows come to the same.
TeamSeesWhatIsBilled ==
    \A p \in Projects, m \in Months :
        LET billed == BillingPeriod(p, m)
            exported(unit) == SumFunction([r \in {x \in ExportRows(p, m) : x.unit = unit} |->
                                               r.quantity])
            team == [u \in TeamUsers(p, m) |-> TeamMember(u, p, m)]
        IN  /\ SumFunction([u \in DOMAIN team |-> team[u].hours]) = TotalHours(billed)
            /\ \A u \in DOMAIN team, w \in WeeksOfMonth(m) :
                   team[u].weeks[w].projectHours <= team[u].weeks[w].totalHours
            /\ exported("hour") = TotalHours(billed)
            /\ exported("day") = billed["day"]
=============================================================================
