SPECIFICATION SiteSpec
CONSTANTS
    Listed = {"blend", "kinetic"}
    Interval = 6
    Jitter = 1
    MaxTtl = 3
    MinTtl = 1
    MaxLag = 2
    Watched = {"aquarius", "blend"}
    StaleAfter = 1
    DownMultiplier = 2
    MaxFetches = 2
    Failures = {"500", "unrecognised"}
    Words = {"", "b", "be"}
    Filters = {"all", "scored"}
    Ids = {1, 2, 3}
    Categories <- MCCategories
    CategoryOf <- MCCategoryOf
    StatusOrder <- MCStatusOrder
    Notes <- MCNotes
    Queries <- MCQueries
    Grades = {40, 60}
    Window = 4
    Spacings = {1, 4}
    Versions = {1, 2}
    Oracles = {"fresh", "stale", "not-assessed"}
    GapFactor = 3
INVARIANTS
    HiddenBriefly
    EveryEntryOnce
    RanksMeanScores
    LineHidesNothing
    HistoryReadsAlike
PROPERTIES
    VerdictOnlyWorsens
    OutageReachesPage
    OwnLandingKeepsTyping
