SPECIFICATION Spec
CONSTANTS
    Barrels <- MCBarrels
    Programs <- MCPrograms
    Profiles <- MCProfiles
    Recipes <- MCRecipes
    Shells = {1, 2}
    MaxCommands = 4
    MaxFaults = 1
    Vessels = {"v"}
    MaxLaunches = 4
    MaxToolFaults = 1
INVARIANT LaunchersInv
INVARIANT ExitZeroComplete
INVARIANT VesselInv
PROPERTY DiskKept
CHECK_DEADLOCK FALSE
