SPECIFICATION ThreadsSpec
CONSTANTS
    None = None
    scheduler = scheduler
    web = web
    cli = cli
    server = server
    shell = shell
    tag = tag
    bag = bag
    Times <- MCTimes
    AwayAlertFor = {}
    NamedPlaces <- MCHome
    NotifyOn <- MCNotifyOn
    Pollers <- MCThreads
    Processes <- MCOneProcess
    ProcessOf <- MCThreadsOf
    AirTags = {tag, bag}
    MaxTime = 1
    HistoryWindow = 1
    AppleReports <- MCTwoTags
    OwnerTrack <- MCOwnerTrack
    Cfg <- MCQuietCfg
    Faults = {"crash", "database", "apple"}
    Threads = {"poller", "request"}
    Queries = {"p", "q"}
    Interval = 2
    NoThread = NoThread
INVARIANTS
    OnePollPerProcess
PROPERTIES
    BackfillIsSilent
    PollsEnd
    ReportsArrive
    AnswersAreFollowedByAPause
    LookUpsEnd
    PollingGoesOn
