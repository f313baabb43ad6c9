SPECIFICATION Spec
CONSTANTS
    Webhook = {w1, w2}
    Subscribed = {w1}
    Request = {q1, q2}
    None = None
    Concurrent = TRUE
    MaxFaults = 0
PROPERTY
    HandledIsNotRunAgain
CHECK_DEADLOCK FALSE
