SPECIFICATION Spec
CONSTANTS
    Rules <- MCRules
    Opens <- MCOpens
    Sensitive = {"logout"}
    Heuristics <- MCHeuristics
    Fixes <- MCFixes
    Texts <- MCTextsUnended
    Selections <- MCSelectionsC
    Pasted <- MCPasted
    Blank <- MCBlank
    Placeholder <- MCPlaceholder
    AfterCommas <- MCAfterCommas
    Context = 1
    PlusPlus = {}
    MinusMinus = {"--note"}
    Unended <- MCUnended
    Paged = {"page"}
    Network = TRUE
INVARIANTS
    EveryDiffApplies
