\* Two Auth Services whose caches lag, two calls that overlap, an agent; one
\* process stops.
SPECIFICATION Spec
CONSTANTS
    x = x  y = y  n = n  c1 = c1  c2 = c2
    Care = "settled"
    None = None
    Callers = {c1, c2}
    RequestModes = {"auto"}
    MaxRotations = 1
    Auths = {x, y}
    Agents = {n}
    MaxCrashes = 1
SYMMETRY MC_Symmetry
INVARIANTS
    TypeOK
    NoLockout
    NewKeysWithdrawn
PROPERTIES
    TrustOverlap
CHECK_DEADLOCK FALSE
