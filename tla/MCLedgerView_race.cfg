SPECIFICATION Spec
CONSTANTS
    Writers = {w1, w2}
    Readers = {r1}
    Payloads = {certified, rejected}
    MaxRows = 2
INVARIANTS
    UntamperedVerifies
CHECK_DEADLOCK FALSE
