SPECIFICATION Spec
CONSTANTS
    None = None
    a = a
    b = b
    r1 = r1
    r2 = r2
    AirTags = {a, b}
    Refreshes = {r1}
    MaxActs = 4
    InitialList <- TwoAirtags
PROPERTY FreshTrailStays
