SPECIFICATION FairSpec
CONSTANTS
    MaxAttempts = 1
    Initialisers = {i1}
    Webhooks = {w1, w2}
    Verifiers = {v1}
    MaxFaults = 2
    FaultKinds = {"initialise", "webhook", "verify", "fanout"}
CHECK_DEADLOCK FALSE
INVARIANT SuccessAuditedOnce
INVARIANT AckedIsRecorded
PROPERTY OnlyLegalMoves
PROPERTY RecordedSettlementMoves
