\* Requests wait until every process reports the phase; two Auth Services whose
\* caches lag, an agent; nothing stops.
SPECIFICATION Spec
CONSTANTS
    x = x  y = y  n = n  c1 = c1  c2 = c2
    Care = "reported"
    None = None
    Callers = {c1}
    RequestModes = {"manual", "auto"}
    MaxRotations = 1
    Auths = {x, y}
    Agents = {n}
    MaxCrashes = 0
INVARIANTS
    ReportedPhasesSuffice
CHECK_DEADLOCK FALSE
