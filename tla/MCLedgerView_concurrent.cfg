SPECIFICATION Spec
CONSTANTS
    Writers = {w1, w2}
    Readers = {r1}
    Payloads = {certified, rejected}
    MaxRows = 3
SYMMETRY Symmetry
INVARIANTS
    ViewTypeOK
    VerdictExplained
    GreenListIsOneChain
PROPERTIES
    TamperEvident
CHECK_DEADLOCK FALSE
