SPECIFICATION Spec
CONSTANTS
    NoObject = NoObject
    a = a
    b = b
    c = c
    AirTags = {a, b}
    Devices = {c}
    MaxStays = 2
INVARIANTS
    TitleNamesTheObjectOnScreen
