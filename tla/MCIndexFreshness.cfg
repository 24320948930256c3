CONSTANTS
    Workspaces = {w1}
    Inputs = {p1}
    HEAD = HEAD
    Editable = {p1}
    Jobs = {j1, j2}
    NoJob = NoJob
    All = All
    MAX_ATTEMPTS = 2
    MaxEdits = 1
    MaxManual = 1
    MaxFaults = 0
    MaxUpgrades = 0
    MaxDisturbances = 2
SPECIFICATION Spec
INVARIANT
    HonestFreshness
CHECK_DEADLOCK FALSE
