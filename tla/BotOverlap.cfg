\* Messages, jobs and two ticks of one verification job overlap.  One message
\* id and a threshold of two: the incidents are those of the verification.
SPECIFICATION BotSpec
CONSTANTS
    bank = bank
    abbr = abbr
    dana = dana
    Banks <- OneBank
    Entities <- OneBankEntities
    Abbreviation <- OneAbbreviation
    EventIds = {m1}
    NoEntity = NoEntity
    NoEvent = NoEvent
    NoMessage = NoMessage
    NoCheck = NoCheck
    Slots = {s1, s2}
    Runs = {r1}
    Checks = {c1, c2}
    Threshold = 2
    SlidingWindow = 0
    StableOpen = 0
    Retention = 0
    Overlap = TRUE
    Faults = FALSE
SYMMETRY Symmetry
INVARIANT ConfirmedHasIncident
