\* Requests and the schedule wait for nobody, so processes miss phases; one Auth
\* Service, an agent; one of them stops.
SPECIFICATION FairSpec
CONSTANTS
    x = x  y = y  n = n  c1 = c1  c2 = c2
    Care = "none"
    None = None
    Callers = {c1}
    RequestModes = {"auto"}
    MaxRotations = 1
    Auths = {x}
    Agents = {n}
    MaxCrashes = 1
PROPERTIES
    CatchUp
CHECK_DEADLOCK FALSE
