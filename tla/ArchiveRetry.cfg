\* Every event is tried again and again; the name of one is taken.
SPECIFICATION FairSpec
CONSTANTS
    Writers = {w1, w2}
    Events = {e1, e2}
    Inodes = {i1, i2, i3, i4}
    Foreign = {e2}
    NoInode = NoInode
    NoEvent = NoEvent
    Stranger = Stranger
    MaxFaults = 0
    MaxCrashes = 1
    MaxLosses = 0
PROPERTIES
    EventuallyArchived
