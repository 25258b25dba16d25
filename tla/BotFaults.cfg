\* Everything overlaps and fails: verification stops all the same.
SPECIFICATION FairBotSpec
CONSTANTS
    bank = bank
    abbr = abbr
    dana = dana
    Banks <- OneSpelling
    Entities <- OneSpelling
    Abbreviation <- SameAbbreviation
    EventIds = {m1}
    NoEntity = NoEntity
    NoEvent = NoEvent
    NoMessage = NoMessage
    NoCheck = NoCheck
    Slots = {s1}
    Runs = {r1}
    Checks = {c1}
    Threshold = 1
    SlidingWindow = 0
    StableOpen = 0
    Retention = 0
    Overlap = TRUE
    Faults = TRUE
INVARIANT BotTypeOK
PROPERTY VerificationStops
