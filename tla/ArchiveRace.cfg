\* Two processes archive the same event; anything may go wrong once.
SPECIFICATION Spec
CONSTANTS
    Writers = {w1, w2}
    Events = {e1}
    Inodes = {i1, i2, i3, i4}
    Foreign = {}
    NoInode = NoInode
    NoEvent = NoEvent
    Stranger = Stranger
    MaxFaults = 1
    MaxCrashes = 1
    MaxLosses = 1
SYMMETRY Interchangeable
INVARIANTS
    LiveStagingKept
    NoPartialFile
    StagingRemoved
    QuietIsDurable
PROPERTIES
    InstalledForGood
