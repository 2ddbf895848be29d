SPECIFICATION SpecBackups
CONSTANTS
    k1 = k1
    k2 = k2
    trip = trip
    Keys = {k1, k2}
    Reports = {trip}
    ReportOf <- OneReport
    Processes = {server, service}
    Retention = 1
    MaxBackups = 2
    None = None
SYMMETRY Symmetry
INVARIANTS
    RestoredRowsHaveFiles
    KeptTogether
PROPERTIES
    NewestKept
