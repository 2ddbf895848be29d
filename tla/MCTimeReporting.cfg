SPECIFICATION Spec
CONSTANTS
    ann = ann
    dev = dev
    hour = hour
    Users = {ann}
    Managers = {ann}
    Projects = {dev}
    Items = {hour}
    ProjectOf <- McProjectOf
    HourItems = {hour}
    Days = {1, 2}
    WeekOf <- McWeekOf
    MonthOf <- McMonthOf
    Weeks = {1}
    Months = {1, 2}
    Quantities = {1}
    MaxQuantity <- McMaxQuantity
    MaxDailyHours = 24
    MaxBatch = 1
    NotSent = NotSent
    NoInvoice = NoInvoice
    Lines = {l1}
    LineValues = {1}
    NoRow = NoRow
    NoLine = NoLine
    Invoices = {i1, i2}
    ManualLines = {}
    TypedAmounts = {7}
    Parties = {now}
    NoParties = NoParties
    NoPdf = NoPdf
    NoNumber = NoNumber
    MaxNumber = 1
    ReportMonths = {1}
    Customers = {"acme"}
    CustomerOf <- McCustomerOf
    UnitRate <- McUnitRate
SYMMETRY Symmetry
INVARIANTS
    HoldersAgree
    InvoiceMatchesPeriods
    LocksFollowPeriods
PROPERTIES
    ImplementsTimesheets
    ImplementsExpenses
