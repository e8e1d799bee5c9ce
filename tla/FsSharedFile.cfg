\* Two transactions on one file; processes are killed and calls fail, also
\* after a commit is durable and before an interrupted one is recovered.
SPECIFICATION Spec
CONSTANTS
    t1 = t1
    t2 = t2
    f1 = f1
    f2 = f2
    Procs = {p1, p2}
    Txns = {t1, t2}
    Files = {f1, f2}
    Existing = {f1}
    Footprint <- SharedFile
    NoProc = NoProc
    NoTxn = NoTxn
    Absent = Absent
    Original = Original
    MaxOps = 2
    MaxFaults = 1
    MaxCrashes = 2
SYMMETRY Interchangeable
INVARIANTS
    TypeOK
    OneWorker
PROPERTIES
    CommittedContentKept
    TransactionsAtomic
