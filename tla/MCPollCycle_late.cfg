SPECIFICATION Spec
CONSTANTS
    None = None
    scheduler = scheduler
    web = web
    cli = cli
    server = server
    shell = shell
    tag = tag
    bag = bag
    Times <- MCTimes
    AwayAlertFor <- MCAway
    NamedPlaces <- MCHome
    NotifyOn <- MCNotifyOn
    Pollers <- MCOneThread
    Processes <- MCOneProcess
    ProcessOf <- MCOneThreadOf
    AirTags = {tag}
    MaxTime = 2
    HistoryWindow = 2
    AppleReports <- MCFlaggedReports
    OwnerTrack <- MCOwnerTrack
    Cfg <- MCCfg
    Faults = {"late"}
INVARIANTS
    OneAlertPerAwayEpisode
