SPECIFICATION Spec
CONSTANTS
    None = None
    tab1 = tab1
    tab2 = tab2
    MaxAttempts = 1
    Requests = {tab1}
PROPERTIES
    OnlyPollsConnectedSessions
