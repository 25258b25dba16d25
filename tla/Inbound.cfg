SPECIFICATION FairSpec
CONSTANTS
    Payloads <- SamplePayloads
    Listened <- FourChats
    ComplaintChats <- ThreeChats
    Meaning <- MeaningOfPayloads
    Banks <- BankNames
    Abbreviation <- AbbreviationOf
    UpperCase <- SameCase
    MaxMessages = 3
    Horizon = 2
    MaxTicks = 1
    ComplaintWindow = 0
    TimelineWindow = 0
CHECK_DEADLOCK FALSE
INVARIANTS
    InboundTypeOK
    HandledOnce
    HandledInOrder
    HourIsShown
    TimelineIsARun
PROPERTIES
    RowsFollowReports
    ComplaintsOfTheirBank
    ReportsAreExecuted
