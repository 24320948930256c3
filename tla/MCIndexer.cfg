SPECIFICATION IndexerSpec
CONSTANTS
    Repositories <- MCRepositories
    Contents <- MCContents
    Builds <- MCBuilds
    MaxChanges = 3
    MaxFaults = 1
INVARIANT
    AnalysisIsFresh
CHECK_DEADLOCK FALSE
