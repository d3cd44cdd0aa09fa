\* Time: one login, two callbacks, everything may expire.
SPECIFICATION Spec
CONSTANTS
    s1 = s1  s2 = s2  p1 = p1  p2 = p2
    b1 = b1  b2 = b2  a1 = a1  a2 = a2  d1 = d1  d2 = d2
    None = None
    States = {s1}
    Callbacks = {p1, p2}
    Browsers = {b1}
    Accounts = {a1}
    Domains = {d1}
    HostedDomain <- MC_Hosted
    EmailDomain <- MC_Email
    TTL = 2
    MaxTime = 4
INVARIANTS
    TypeOK
    OnlyFirstClaimExchanges
