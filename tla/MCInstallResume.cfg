SPECIFICATION Spec
CONSTANTS
    Steps <- RootlessSteps
    Disks = {d1}
    Live = live
    Fallible <- SoundlyGated
    Skippable = {"emerge_world", "admin_lock_root"}
    MaxFaults = 1
    MaxKills = 1
    MaxReboots = 1
    MaxTroubles = 2
    MaxUnmounts = 0
    Admin <- AliceAdmin
INVARIANTS
    StoreMatchesFiles
    AdminReachable
    NoFaultNoFailure
PROPERTIES
    SessionNeverRepartitions
    MarksNeverLost
