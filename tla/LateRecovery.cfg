\* A bank is open again and its incident stays open.
SPECIFICATION HSpec
CONSTANTS
    Entities = {b1}
    Banks = {b1}
    EventIds = {m1, m2}
    NoEntity = NoEntity
    NoEvent = NoEvent
    Slots = {s1}
    Runs = {r1}
    Threshold = 2
    SlidingWindow = 1
    StableOpen = 2
    Retention = 3
    Overlap = FALSE
    Faults = FALSE
SYMMETRY Symmetry
INVARIANT RecoveredAtOnce
