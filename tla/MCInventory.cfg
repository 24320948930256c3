CONSTANTS
    Paths = {1, 2}
    Configuration = {2}
    MAX_PENDING_PATHS = 1
    MAX_PENDING_EVENTS = 1
    MaxGeneration = 3
    NoJob = NoJob
    None = None
    MaxChanges = 2
    MaxIncidents = 1
SPECIFICATION InventorySpec
INVARIANTS
    NoIntentLost
    BoundedPending
    PublishedExisted
    ManifestIsHonest
    CompletedIsCurrent
CHECK_DEADLOCK FALSE
