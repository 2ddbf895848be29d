SPECIFICATION Spec
CONSTANTS
    p = p
    q = q
    ip = ip
    iq = iq
    Users = {ann}
    Managers = {ann, mia}
    Projects = {p, q}
    Items = {ip, iq}
    ProjectOf <- MCProjectOf
    HourItems = {ip, iq}
    Days = {1, 2, 3}
    WeekOf <- MCWeekOf
    MonthOf <- MCMonthOf
    Weeks = {1, 2}
    Months = {1, 2}
    Quantities = {1}
    MaxQuantity <- MCMaxQuantity
    MaxDailyHours = 1
    MaxBatch = 1
    Invoices = {i1}
    NotSent = NotSent
    NoInvoice = NoInvoice
INVARIANTS
    SentWeeksApproved
    DailyHoursCapped
    OfferedReturnAccepted
PROPERTIES
    BilledHoursFrozen
    ImplementsLedger
