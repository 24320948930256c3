CONSTANTS
    Meanings = {m1, m2}
    Layouts = {l1}
    Inactive <- InactiveSomewhere
    IndexJobs = {i1, i2, i3}
    Rows = {r1, r2, r3}
    None = None
    MAX_ATTEMPTS = 1
    MaxEdits = 1
    MaxManual = 1
    MaxIncidents = 1
SPECIFICATION FairSpec
INVARIANTS
    TypeOK
    QueueIsCoalesced
    SelectionIsOfItsInput
PROPERTIES
    PublishedWorkIsKept
    EventuallyEnriched
CHECK_DEADLOCK FALSE
