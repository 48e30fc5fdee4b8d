SPECIFICATION DevicesSpec
CONSTANTS
    NoLogin = NoLogin
    own = own
    shared = shared
    phone = phone
    laptop = laptop
    pods = pods
    poller = poller
    request = request
    AppleDevices = {own, shared}
    FamilyDevices = {shared}
    Pollers = {poller}
    WebThreads = {request}
    None = None
    Devices = {phone, laptop, pods}
    Primary = phone
    AwayAlertFor = {laptop, pods}
    Spots = {0, 9}
    NamedPlaces = {0}
    NotifyOn <- MCReasons
    AwayCfg <- MCBackfillCfg
    Offline = {phone, laptop}
    FetchMayFail = TRUE
    MaxTime = 3
INVARIANTS
    PrimaryIsOneTrackedDevice
    AlertsHaveAWitness
    AlertsFollowTransitions
PROPERTIES
    SyncsOptNobodyIn
    FamilyDevicesLeave
