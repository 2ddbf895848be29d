SPECIFICATION FairSpec
CONSTANTS
    k1 = k1
    k2 = k2
    k3 = k3
    trip = trip
    lunch = lunch
    Keys = {k1, k2, k3}
    Reports = {trip, lunch}
    ReportOf <- ThreeReceipts
INVARIANTS
    RowsHaveFiles
PROPERTIES
    OrphansRemoved
