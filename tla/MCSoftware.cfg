SPECIFICATION Spec
CONSTANTS
    Pkgs = {"app", "lib"}
    Requires <- AppNeedsLib
    MaxFlows = 3
    MaxMarkings = 2
    MaxAsides = 1
    MaxTroubles = 1
    SetNames = {"s"}
    Entries = {"app", "lib"}
    MaxEdits = 3
    MaxCommits = 2
    MaxSetFaults = 1
INVARIANT PackagesInv
INVARIANT ListTrue
PROPERTY AskedOnly
PROPERTY CommitKeeps
CHECK_DEADLOCK FALSE
