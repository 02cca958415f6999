SPECIFICATION Spec
CONSTANTS
    Items = {a, b}
    Screen <- MCScreen
    Visits <- MCVisits
    Tasks = {1, 2}
    MaxEdits = 2
    MaxForeign = 1
PROPERTY HandWrittenKept
CHECK_DEADLOCK FALSE
