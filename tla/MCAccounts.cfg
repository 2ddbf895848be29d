SPECIFICATION SpecAccounts
CONSTANTS
    Ids = {u1, u2, u3}
    e1 = e1
    e2 = e2
    admin = admin
    Emails = {e1, e2}
    Levels = {admin}
    Admin = admin
    Requests = {r1, r2}
    Bodies <- MCBodies
    InUse = {u1}
    Keep = Keep
    NoActor = NoActor
    NoAccount = NoAccount
SYMMETRY Symmetry
INVARIANTS
    AuditTellsTheState
    EmailsUnique
PROPERTIES
    OtherFieldsStay
    LastAdminOvertaken
CHECK_DEADLOCK FALSE
