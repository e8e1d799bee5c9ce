\* Every command in every output format, and sessions of the dashboard.
\* An invocation ends.
CHECK_DEADLOCK FALSE
SPECIFICATION FairSpec
CONSTANTS
    Asked <- EveryInvocation
    Snapshots <- SomeSnapshots
    Heights = {23, 24}
    MaxSignals = 2
    MaxTrouble = 1
INVARIANTS
    ReportAgrees
    ChangedIsTrue
    TerminalRestored
    SelectionShown
PROPERTY
    InterruptEnds
