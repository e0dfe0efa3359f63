SPECIFICATION Spec
CONSTANTS
    Protocols <- MCProtocols
    Ids <- MCProtocols
    CategoryOf <- MCCategoryOf
    Methodology <- MCMethodology
    Hash <- MCHash
    Alphabetical <- MCAlphabetical
    SlowestFirst <- MCSlowestFirst
    Registry <- MCRegistry
    HistoryLimit = 1
    Migrators = {m1, m2}
    MaxMigrations = 2
    Slots = {1, 2}
    MaxStamps = 2
    Readers = {r1}
    Checkouts = {1, 3, 4, 8}
    Scenes <- MCScenes
SYMMETRY MCSymmetry
INVARIANTS
    SchemaIsWhatWasApplied
    DeployedBuildWorks
    StampsAreTrue
    DetailNeverAhead
    ShardsPartition
    FailedReplyRecordedNothing
PROPERTY ShownRunNeverGoesBack
CHECK_DEADLOCK FALSE
