SPECIFICATION CrashSpec
CONSTANTS
    Runs = {r1, r2}
    Findings <- MCFindings
    Sources <- MCSources
    Headers <- MCHeaders
    InitTrees <- MCInitTrees
    Torn = "torn"
    Suggest <- Model
    Misapplied = {"garbled"}
    Companion <- MCCompanion
    MaxRetries = 2
    AsanBuilds <- MCAsanBuilds
    PlainBuilds <- MCPlainBuilds
    AsanClean <- MCAsanClean
    PlainExits <- MCPlainExits
INVARIANTS
    CertifiedRowsAreProven
    ChainHolds
    OnlyDeathUnsettles
PROPERTIES
    SourceStaysProven
CHECK_DEADLOCK FALSE
