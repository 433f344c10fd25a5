SPECIFICATION FairSpec
CONSTANTS
    MaxAttempts = 1
    Initialisers = {i1}
    Webhooks = {w1}
    Verifiers = {v1}
    MaxFaults = 1
    FaultKinds = {"verify"}
CHECK_DEADLOCK FALSE
PROPERTY SettledOrderMoves
