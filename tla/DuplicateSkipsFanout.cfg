SPECIFICATION Spec
CONSTANTS
    MaxAttempts = 1
    Initialisers = {i1}
    Webhooks = {w1, w2}
    Verifiers = {}
    MaxFaults = 0
    FaultKinds = {}
CHECK_DEADLOCK FALSE
INVARIANT PaidOrderGetsTasks
