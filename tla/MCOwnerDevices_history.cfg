SPECIFICATION Spec
CONSTANTS
    NoLogin = NoLogin
    own = own
    shared = shared
    poller = poller
    request = request
    AppleDevices = {own, shared}
    FamilyDevices = {shared}
    Pollers = {poller}
    WebThreads = {}
PROPERTIES
    HistoryIsKept
