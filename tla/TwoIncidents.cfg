\* One bank, two open incidents: one under its name, one under its abbreviation.
SPECIFICATION BotSpec
CONSTANTS
    bank = bank
    abbr = abbr
    dana = dana
    Banks <- OneBank
    Entities <- OneBankEntities
    Abbreviation <- OneAbbreviation
    EventIds = {m1}
    NoEntity = NoEntity
    NoEvent = NoEvent
    NoMessage = NoMessage
    NoCheck = NoCheck
    Slots = {s1}
    Runs = {r1}
    Checks = {c1}
    Threshold = 1
    SlidingWindow = 0
    StableOpen = 0
    Retention = 0
    Overlap = FALSE
    Faults = FALSE
SYMMETRY Symmetry
INVARIANT OneOpenIncidentPerBank
