\* Commands, a prune and others in one workspace.
\* Each command runs once, so the instance ends.
CHECK_DEADLOCK FALSE
SPECIFICATION FairSpec
CONSTANTS
    r0 = r0
    r1 = r1
    r2 = r2
    Runs = {r0, r1, r2}
    Earlier <- InHistory
    Pruners = {p1}
    Syncs = {s1}
    Keeps = {1}
    Asked <- AnyOf
    NoProc = NoProc
    NoUndo = NoUndo
    None = None
    MaxVersion = 1
    MaxTrouble = 2
INVARIANTS
    ReferencesResolve
    EvidenceMatchesRun
    ResultsPublished
    InventoryRemoved
PROPERTIES
    RecordsKept
    EveryCommandEnds
