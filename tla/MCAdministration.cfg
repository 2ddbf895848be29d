SPECIFICATION Spec
CONSTANTS
    Users = {u1, u2}
    Managers = {u1}
    Customers = {c1}
    Projects = {p1}
    Items = {i1, i2}
    Defaults <- MCDefaults
    NoRow = NoRow
    Nobody = Nobody
    MaxPosition = 2
    MaxReports = 1
SYMMETRY Symmetry
INVARIANTS
    ReferencesResolve
    PositionsDistinct
    SentLinesKept
CHECK_DEADLOCK FALSE
