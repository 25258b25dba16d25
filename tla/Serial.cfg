\* One execution or run at a time: the pipeline keeps its promises.
SPECIFICATION HSpec
CONSTANTS
    Entities = {b1, b2}
    Banks = {b1, b2}
    EventIds = {m1, m2, m3}
    NoEntity = NoEntity
    NoEvent = NoEvent
    Slots = {s1}
    Runs = {r1}
    Threshold = 2
    SlidingWindow = 1
    StableOpen = 2
    Retention = 3
    Overlap = FALSE
    Faults = FALSE
SYMMETRY Symmetry
INVARIANTS Announced StateIsLatest AntiSpam
PROPERTY DetectorSpec
