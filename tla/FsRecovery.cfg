\* One of the processes that may recover is not killed again.
SPECIFICATION FairSpec
CONSTANTS
    t1 = t1
    t2 = t2
    f1 = f1
    f2 = f2
    Procs = {p1, p2}
    Txns = {t1, t2}
    Files = {f1}
    Existing = {f1}
    Footprint <- SingleFiles
    NoProc = NoProc
    NoTxn = NoTxn
    Absent = Absent
    Original = Original
    MaxOps = 1
    MaxFaults = 1
    MaxCrashes = 2
PROPERTIES
    EventuallyRecovered
