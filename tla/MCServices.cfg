SPECIFICATION Spec
CONSTANTS
    Bytes = {a}
    NL = nl
    Commands = 2
    BatchMax = 2
    MaxChunk = 4
    MaxBytes = 5
    Requests = {r1, r2}
    Roots = {mnt, slash}
    SafeRoots = {mnt}
    HasGpg = TRUE
    Ctls = {c1}
    Daemon = daemon
    Passphrases = {p1, p2}
    Values = {v1, v2}
    Attrs = {a1}
    Aliases = {dflt, other}
    Default = dflt
    None = none
    Alone = TRUE
    MaxCols = 2
    MaxItems = 2
    MaxSessions = 1
    MaxFaults = 1
    MaxKills = 1
    TextKeys = {"a", "b"}
    Vals = {"x", "y"}
    MaxLines = 3
    MaxEdits = 2
    Methods <- AllMethods
    MaxCalls = 2
INVARIANTS StreamInv OnlyVerifiedUnpacked Stage3Inv PromisesKept ObjectsMatchVault
    TextInv SvcInv AnswersTrue
PROPERTIES LinesGetOut EveryRunEnds Answered
CHECK_DEADLOCK FALSE
