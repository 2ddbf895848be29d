SPECIFICATION Spec
CONSTANTS
    Users = {ann, bob}
    Managers = {ann}
    Projects = {p}
    Months = {1}
    Lines = {l1, l2}
    LineValues = {v, w}
    Attachments = {a1, a2}
    NoRow = NoRow
    NoLine = NoLine
SYMMETRY Symmetry
INVARIANTS
    LockedApproved
    RowsOwned
    PackageHoldsMonth
PROPERTIES
    ReviewedContentFrozen
