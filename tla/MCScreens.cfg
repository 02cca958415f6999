SPECIFICATION Spec
CONSTANTS
    Items = {a, b}
    Screen <- MCScreen
    Visits <- MCVisits
    Tasks = {1, 2, 3, 4, 5, 6}
    MaxEdits = 4
    MaxForeign = 1
INVARIANT ScreensInv
INVARIANT SavedKept
PROPERTY StagedKept
PROPERTY TasksEnd
CHECK_DEADLOCK FALSE
