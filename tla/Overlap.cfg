\* Executions and runs overlap, calls fail and the service restarts.
SPECIFICATION Spec
CONSTANTS
    Entities = {b1}
    Banks = {b1}
    EventIds = {m1, m2}
    NoEntity = NoEntity
    NoEvent = NoEvent
    Slots = {s1, s2}
    Runs = {r1, r2}
    Threshold = 2
    SlidingWindow = 1
    StableOpen = 2
    Retention = 2
    Overlap = TRUE
    Faults = TRUE
SYMMETRY Symmetry
INVARIANTS TypeOK CountedEventStored ResolveTargetsExist
PROPERTIES NoCountableEventLost NoResolveDecisionDuringRaise
