SPECIFICATION PagesSpec
CHECK_DEADLOCK FALSE
CONSTANTS
    Thresholds = {0, 1, 2}
    Palettes = {"p", "q"}
    DefaultSettings <- MCSettings
    MaxPuts = 2
    MaxVisits = 2
    NoSettings = NoSettings
    GetAsked = GetAsked
    Positions = {"h", "f", "x"}
    Addresses = {"x"}
    Here = "h"
    Fallback = "f"
    Ids = {"i"}
    MaxSaves = 1
    NoPosition = NoPosition
    MaxSubscriptions = 2
    Trails <- MCTrails
    Points = {"p", "q"}
    Extent = Extent
    Elsewhere = Elsewhere
    NoPoint = NoPoint
    Icons = {"i", "j"}
    Colors = {"c", "d"}
    Names = {"n", "m"}
    DefaultObject <- MCObject
    MaxChanges = 2
    Gone = Gone
    MaxRequests = 3
    Requests = {"tab", "again"}
    MaxAttempts = 3
    None = None
    BaseIds = {"bike", "bike-2"}
    Numbered <- MCNumbered
    MaxCreated = 3
    Nothing = Nothing
INVARIANTS
    UnsavedIsMarked
    EditorShowsTheChoice
    RowsAreLive
    AddressAndRouteBelong
    ChangesAreKept
    PanelFollowsServer
    SavedSessionsAreLoggedIn
    CreatedAirtagsStay
    RowsBelongToTheirAirtag
PROPERTIES
    QuietRefresh
