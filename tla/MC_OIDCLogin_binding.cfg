\* Two logins, two browsers, two accounts with one and with two domains,
\* changing allow-lists; no time passes.
SPECIFICATION Spec
CONSTANTS
    s1 = s1  s2 = s2  p1 = p1  p2 = p2
    b1 = b1  b2 = b2  a1 = a1  a2 = a2  d1 = d1  d2 = d2
    None = None
    States = {s1, s2}
    Callbacks = {p1}
    Browsers = {b1, b2}
    Accounts = {a1, a2}
    Domains = {d1, d2}
    HostedDomain <- MC_Hosted
    EmailDomain <- MC_Email
    TTL = 2
    MaxTime = 0
SYMMETRY MC_Symmetry
INVARIANTS
    LoginBinding
    SessionOfOwnLogin
    DomainPolicy
