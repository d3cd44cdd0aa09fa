\* Two calls that may be behind by more than the time a lock is left with when it
\* is refreshed; a delay of one is tolerated.
SPECIFICATION FairSpec
CONSTANTS
    Calls = {p1, p2}
    TTL = 7
    MaxDelay = 4
    None = None
INVARIANTS
    TypeOK
    MutualExclusion
PROPERTIES
    NoTakeover
    LossNoticed
