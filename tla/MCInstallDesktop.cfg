SPECIFICATION Spec
CONSTANTS
    Steps <- DesktopSteps
    Disks = {d1}
    Live = live
    Fallible <- SoundlyGated
    Skippable = {"emerge_world"}
    MaxFaults = 2
    MaxKills = 0
    MaxReboots = 0
    MaxTroubles = 2
    MaxUnmounts = 1
    Admin <- AliceAdmin
INVARIANTS
    CompleteMeansInstalled
    ChrootInv
