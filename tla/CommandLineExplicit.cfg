\* A success that is reported as an internal error.
CHECK_DEADLOCK FALSE
SPECIFICATION Spec
CONSTANTS
    Asked <- EveryInvocation
    Snapshots <- SomeSnapshots
    Heights = {24}
    MaxSignals = 0
    MaxTrouble = 0
INVARIANT
    SuccessReported
