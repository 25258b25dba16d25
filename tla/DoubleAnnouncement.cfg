\* The dedup lock that every caller gets: two executions announce one incident.
SPECIFICATION HSpec
CONSTANTS
    Entities = {b1}
    Banks = {b1}
    EventIds = {m1, m2}
    NoEntity = NoEntity
    NoEvent = NoEvent
    Slots = {s1, s2}
    Runs = {r1}
    Threshold = 2
    SlidingWindow = 1
    StableOpen = 2
    Retention = 3
    Overlap = TRUE
    Faults = FALSE
SYMMETRY Symmetry
INVARIANT AnnouncedAtMostOnce
