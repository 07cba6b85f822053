SPECIFICATION Spec
CONSTANTS
    Documents = {1, 2}
    Scopes <- TheScopes
    DocumentOf <- TheDocumentOf
    TextScopes = {"a1", "a2", "b2"}
    Blocks = {2, 3, 4, 7}
    Projections = {1, 5, 6, 10}
    Handles = {8, 9}
    Home <- TheHome
    Rows = {2, 3, 4, 7}
    Hits = {1, 2, 3, 4, 5, 6, 10}
    Relevant = {1, 2, 3, 4, 5, 10}
    Body <- TheBody
    Shows <- TheShows
    Cost <- TheCost
    Base = 8
    NoticeCost = 2
    BudgetLimit = 25
    Required = {"visual"}
    PageSize = 1
    Quota = 2
    PrefixSize = 1
    DefaultLimits <- Wide
    LimitsOffered <- BothLimits
    Compilers = {p}
    None = none
    MaxStored = 1
INVARIANTS
    TypeOK
    DiscoveryIsExact
    ReplayReproduces
    ReceiptsAccount
