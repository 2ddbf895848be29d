SPECIFICATION Spec
CONSTANTS
    ann = ann
    bob = bob
    p = p
    q = q
    normal = normal
    travel = travel
    perdiem = perdiem
    Users = {ann, bob}
    Projects = {p, q}
    MembersOf <- MCMembersOf
    Items = {normal, travel, perdiem}
    ProjectOf <- MCProjectOf
    PresetOf <- MCPresetOf
    Days = {1, 2, 3, 4}
    WeekOf <- MCWeekOf
    MonthOf <- MCMonthOf
    Months = {1, 2, 3}
    YearOf <- MCYearOf
    Weekend = {4}
    Holidays = {1, 3}
    Kinds = {"company_day_off"}
    Quantities = {2}
    HoursPerDay = 2
    MaxWeeks = 2
    MaxEntries = 2
    MaxOff = 1
INVARIANTS
    MonthsAgree
    YearAddsUp
    WeeksAgree
    TeamSeesWhatIsBilled
