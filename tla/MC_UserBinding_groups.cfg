\* What a comment says of the code, refuted without any step of the administrator.
SPECIFICATION Spec
CONSTANTS
    Logins = {p1, p2}
    Names = {ann, bob}
    Connectors = {google}
    Subjects = {x, y}
    Local = Local
    None = None
    LookupResults = {TRUE, FALSE}
    MaxAdminOps = 0
CHECK_DEADLOCK FALSE
INVARIANT FailedLookupGrantsNoGroupRoles
