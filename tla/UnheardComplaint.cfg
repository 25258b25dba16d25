\* A bank whose abbreviation is not in capitals.
SPECIFICATION Spec
CONSTANTS
    bank = bank
    capitals = capitals
    mixed = mixed
    Banks <- OneBank
    Abbreviation <- InMixedCase
    UpperCase <- ToUpperCase
    Dashboards <- SmallDashboards
    LabelOf <- InDashboard
    ComplaintWindow = 1
    MetricWindow = 2
    DayLength = 2
    Horizon = 3
    MaxComplaints = 3
    MaxTicks = 3
INVARIANT ComplaintsAreHeard
CHECK_DEADLOCK FALSE
