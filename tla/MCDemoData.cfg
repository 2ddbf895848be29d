SPECIFICATION SpecDemo
CONSTANTS
    FirstMonth = 3
    LastMonth = 5
    MaxDisturbed = 3
    Absent = Absent
INVARIANTS
    FailsOnlyIfDisturbed
PROPERTIES
    Idempotent
    ExistingLeftAlone
