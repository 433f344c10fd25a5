SPECIFICATION Spec
CONSTANTS
    MaxAttempts = 2
    Initialisers = {i1, i2}
    Webhooks = {}
    Verifiers = {}
    MaxFaults = 0
    FaultKinds = {}
CHECK_DEADLOCK FALSE
INVARIANT OneAttemptInFlight
