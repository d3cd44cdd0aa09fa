\* Every listing of up to two pages of two relations, one for each gate; a budget
\* that either page may overrun.
SPECIFICATION FairSpec
CONSTANTS
    devs = devs
    typo = typo
    guest = guest
    Groups = {devs, typo, guest}
    Relations <- Kinds
    Malformed = {typo}
    Foreign = {guest}
    Mapped = {devs, guest}
    MaxPages = 2
    MaxRelations = 3
    MaxBytes = 2
    MaxPageRelations = 2
    None = None
INVARIANTS
    TypeOK
    CompleteOrNothing
    OutcomeMatchesListing
    OnlyConfirmedGroupsCount
    BufferBounded
PROPERTY LookupEnds
