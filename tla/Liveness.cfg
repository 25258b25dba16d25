\* Executions and runs overlap; promises settle and the intervals fire.
SPECIFICATION FairSpec
CONSTANTS
    Entities = {b1, b2}
    Banks = {b1, b2}
    EventIds = {m1, m2}
    NoEntity = NoEntity
    NoEvent = NoEvent
    Slots = {s1}
    Runs = {r1}
    Threshold = 1
    SlidingWindow = 0
    StableOpen = 1
    Retention = 1
    Overlap = TRUE
    Faults = FALSE
PROPERTY QuietIncidentsResolve
