CONSTANTS
    Workspaces = {w1}
    Inputs = {HEAD}
    HEAD = HEAD
    Editable = {HEAD}
    Jobs = {j1, j2}
    NoJob = NoJob
    All = All
    MAX_ATTEMPTS = 2
    MaxEdits = 1
    MaxManual = 1
    MaxFaults = 2
    MaxUpgrades = 1
    MaxDisturbances = 2
SPECIFICATION FairSpec
INVARIANT
    CheckpointIsComplete
PROPERTIES
    PublishedNeverRegresses
    EventuallyIndexed
CHECK_DEADLOCK FALSE
