SPECIFICATION FairSpec
CONSTANTS
    Files = {"a", "b", "c"}
    Snapshots <- MCSnapshots
    Order <- MCOrder
    MaxCalls = 3
    MaxProcesses = 2
    MaxFaults = 1
INVARIANTS
    AnswersAreCurrent
    WorkersAreOwned
PROPERTY CallsReturn
CHECK_DEADLOCK FALSE
