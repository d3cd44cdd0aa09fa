\* Two logins of two Google accounts, under two names.
SPECIFICATION Spec
CONSTANTS
    Logins = {p1, p2}
    Names = {ann, bob}
    Connectors = {google}
    Subjects = {x, y}
    Local = Local
    None = None
    LookupResults = {TRUE}
    MaxAdminOps = 3
CHECK_DEADLOCK FALSE
SYMMETRY Interchangeable
INVARIANTS
    TypeOK
    SubjectBoundUnlessStale
    RolesOfSameSubject
PROPERTY UserKeepsIdentity
