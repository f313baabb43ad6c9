SPECIFICATION Spec
CONSTANTS
    Quote = {q1}
    Request = {r1, r2}
    Runner = {n1}
    None = None
    MaxDrafts = 1
    MaxReopens = 0
    MaxFaults = 0
    SendsMayDie = FALSE
CHECK_DEADLOCK FALSE
PROPERTY
    AcceptedIsFinal
