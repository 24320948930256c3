CONSTANTS
    Meanings = {m1}
    Layouts = {l1, l2}
    Inactive <- AlwaysActive
    IndexJobs = {i1, i2, i3}
    Rows = {r1, r2, r3}
    None = None
    MAX_ATTEMPTS = 1
    MaxEdits = 1
    MaxManual = 0
    MaxIncidents = 0
SPECIFICATION Spec
INVARIANTS
    NewerWorkRemainsEligible
CHECK_DEADLOCK FALSE
