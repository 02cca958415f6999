SPECIFICATION Spec
CONSTANTS
    Steps <- RootlessSteps
    Disks = {d1}
    Live = live
    Fallible = {"Create user accounts"}
    Skippable = {}
    MaxFaults = 1
    MaxKills = 0
    MaxReboots = 0
    MaxTroubles = 2
    MaxUnmounts = 0
    Admin <- AliceAdmin
INVARIANTS
    AdminReachable
