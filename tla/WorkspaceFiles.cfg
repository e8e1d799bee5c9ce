\* Three commands on one directory.  Commands end.
CHECK_DEADLOCK FALSE
SPECIFICATION Spec
CONSTANTS
    Procs = {p1, p2, p3}
    Entries = {n1, n2}
    NoProc = NoProc
    NoFile = NoFile
    MaxTrouble = 2
SYMMETRY Interchangeable
INVARIANT
    OpenedIsComplete

    
