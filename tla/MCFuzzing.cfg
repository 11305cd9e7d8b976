SPECIFICATION FuzzingSpec
CONSTANTS
    Sessions = {cli, api}
    Approving = {api}
    Iterations = 2
    Runs <- MCRuns
    SeedDirs <- MCSeedDirs
    Checked = {"fixed"}
    BufSize = 256
    StructSize = 264
    Templated = {"CWE-119"}
    Findings <- MCFindings
    Sources <- MCSources
    Headers <- MCHeaders
    InitTrees <- MCInitTrees
    Torn = "torn"
    Suggest <- MCSuggest
    Misapplied = {"garbled"}
    Companion <- MCCompanion
    MaxRetries = 1
    AsanBuilds <- MCBuilds
    PlainBuilds <- MCBuilds
    AsanClean <- MCAsanClean
    PlainExits <- MCPlainExits
INVARIANTS
    FuzzingTypeOK
    InputsLostOnlyToOthers
    UnusableExeIsExplained
    EveryCrashHasItsOutcome
    CrashesAreLoggedInOrder
    ReportsNeedLongSeeds
PROPERTIES
    SessionsEnd
    OnlyApprovedSessionsPatch
    ReportsAreDroppedOnlyIfStale
CHECK_DEADLOCK FALSE
