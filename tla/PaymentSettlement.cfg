SPECIFICATION Spec
CONSTANTS
    MaxAttempts = 2
    Initialisers = {i1, i2}
    Webhooks = {w1}
    Verifiers = {v1}
    MaxFaults = 1
    FaultKinds = {"initialise", "webhook", "verify", "fanout"}
SYMMETRY HandlerSymmetry
CHECK_DEADLOCK FALSE
INVARIANT TypeOK
INVARIANT OneEffectiveSuccess
INVARIANT PaidIsBacked
INVARIANT TasksOnlyForPaidOrder
INVARIANT NothingLeftHalfway
PROPERTY ImplementsPromise
