SPECIFICATION Spec
CONSTANTS
    w1 = w1
    w2 = w2
    trip = trip
    Connections = {c1, c2}
    Weeks = {w1, w2}
    Reports = {trip}
    MaxHours = 1
    MaxSent = 2
    None = None
SYMMETRY Symmetry
INVARIANTS
    UnsettledOvertaken
CHECK_DEADLOCK FALSE
