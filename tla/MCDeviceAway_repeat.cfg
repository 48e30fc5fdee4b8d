SPECIFICATION AwaySpec
CONSTANTS
    None = None
    phone = phone
    laptop = laptop
    pods = pods
    Primary = phone
    Spots = {0, 9}
    NamedPlaces = {0}
    NotifyOn <- MCReasons
    Devices = {phone, laptop}
    AwayAlertFor = {laptop}
    AwayCfg <- MCCfg
    Offline = {laptop}
    FetchMayFail = FALSE
    MaxTime = 4
INVARIANTS
    OneAlertPerStay
