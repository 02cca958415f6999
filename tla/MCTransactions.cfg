SPECIFICATION Spec
CONSTANTS
    Users = {"u1"}
    Groups = {"g1", "g2"}
    MaxStages = 3
    MaxApplies = 2
    MaxFaults = 1
    Repos = {"gentoo", "r1", "r2"}
    MainRepo = "gentoo"
    MaxMarks = 2
    MaxAccepts = 2
    MaxRepoFaults = 1
INVARIANT UsersInv
INVARIANT ReposInv
PROPERTY StagedSafe
PROPERTY NeverForgotten
CHECK_DEADLOCK FALSE
