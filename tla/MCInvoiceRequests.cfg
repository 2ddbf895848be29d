SPECIFICATION FairSpec
CONSTANTS
    Requests = {r1, r2, r3}
    Invoices = {i1, i2}
    NoRequest = NoRequest
    NoNumber = NoNumber
    MaxNumber = 3
INVARIANTS
    AllocationsSerialize
    PagePrintsNumber
PROPERTIES
    RequestsEnd
CHECK_DEADLOCK FALSE
