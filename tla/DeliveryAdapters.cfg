\* One call of either adapter.  A call ends.
CHECK_DEADLOCK FALSE
SPECIFICATION Spec
CONSTANTS
    Sockets = {inspected, replaced, foreign}
    Private = {inspected, replaced, foreign}
    SameUser = {inspected, replaced}
    NoSocket = NoSocket
    Body = 2
    Deadline = 2
    MaxReplacements = 2
    a1 = a1
    a2 = a2
    a3 = a3
    a4 = a4
    Addresses = {a1, a2, a3, a4}
    Kind <- SomeKinds
    Genuine = {a1, a3, a4}
    MaxChanges = 2
INVARIANTS
    OnlyVerifiedPeers
    OverByDeadline
PROPERTY
    KeepsPromise
