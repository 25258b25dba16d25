\* Two complaints and two windows, on a clock that passes both.
SPECIFICATION Spec
CONSTANTS
    bank = bank
    capitals = capitals
    mixed = mixed
    Banks <- OneBank
    Abbreviation <- InCapitals
    UpperCase <- ToUpperCase
    Dashboards <- SmallDashboards
    LabelOf <- InDashboard
    ComplaintWindow = 1
    MetricWindow = 2
    DayLength = 2
    Horizon = 3
    MaxComplaints = 3
    MaxTicks = 3
INVARIANT HeardAsVoiced
PROPERTIES ConfirmedIsSupported SlowestAreKept
CHECK_DEADLOCK FALSE
