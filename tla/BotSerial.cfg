\* One thing at a time: timers follow the stored state, and the page the timers.
SPECIFICATION FairBotSpec
CONSTANTS
    bank = bank
    abbr = abbr
    dana = dana
    Banks <- OneBank
    Entities <- OneBankEntities
    Abbreviation <- OneAbbreviation
    EventIds = {m1, m2}
    NoEntity = NoEntity
    NoEvent = NoEvent
    NoMessage = NoMessage
    NoCheck = NoCheck
    Slots = {s1}
    Runs = {r1}
    Checks = {c1}
    Threshold = 1
    SlidingWindow = 0
    StableOpen = 0
    Retention = 0
    Overlap = FALSE
    Faults = FALSE
INVARIANTS WatchFollowsState ClosedIsShown
PROPERTY RecoveredByPage
