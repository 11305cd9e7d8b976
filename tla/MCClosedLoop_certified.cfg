SPECIFICATION Spec
CONSTANTS
    Runs = {r1, r2}
    Findings <- MCFindings
    Sources <- MCSources
    Headers <- MCHeaders
    InitTrees <- MCInitTrees
    Torn = "torn"
    Suggest <- Heuristic
    Misapplied = {"garbled"}
    Companion <- MCCompanion
    MaxRetries = 2
    AsanBuilds <- MCAsanBuilds
    PlainBuilds <- MCPlainBuilds
    AsanClean <- MCAsanClean
    PlainExits <- MCPlainExits
INVARIANTS
    CertifiedRowsAreProven
CHECK_DEADLOCK FALSE
