SPECIFICATION Spec
CONSTANTS
    e1 = e1
    e2 = e2
    Events = {e1, e2}
    Addresses = {a}
    Processes = {p}
    Severity <- MCSeverity
    Threshold <- MCThreshold
    Depth = 1
    IsolateAt = 5
    MaxDecays = 1
INVARIANTS HandedOnce NoAdditionLost Escalated
PROPERTY HandedOver
CHECK_DEADLOCK FALSE
