SPECIFICATION PollsSpec
CONSTANTS
    None = None
    scheduler = scheduler
    web = web
    cli = cli
    server = server
    shell = shell
    tag = tag
    bag = bag
    Times <- MCTimes
    AwayAlertFor <- MCAway
    NamedPlaces <- MCHome
    NotifyOn <- MCNotifyOn
    Pollers <- MCTwoPrograms
    Processes <- MCTwoProcesses
    ProcessOf <- MCTwoProgramsOf
    AirTags = {tag}
    MaxTime = 2
    HistoryWindow = 1
    AppleReports <- MCFlaggedReports
    OwnerTrack <- MCOwnerTrack
    Cfg <- MCCfg
    Faults = {"crash", "database", "apple", "late"}
    one = one
    other = other
    Bots = {one, other}
    NoBot = NoBot
    MaxCalls = 3
INVARIANTS
    AlertsAreBacked
    OrderedTrailIsPlausible
    OrderedAlertsComplete
    EnabledBotHears
    PanelIsTruthful
PROPERTIES
    KeepsReportLog
