CONSTANTS
    Runs = {r1}
    Request = request
    Checkpointer = checkpointer
    Collectors = {g1, g2, g3}
    Nobody = nobody
    MaxEvents = 2
SPECIFICATION Spec
INVARIANTS
    CleanExitIsQuiet
    OneCollector
    NextKeepsItsSocket
PROPERTIES
    ShutdownEnds
    WaitersAreWoken
    GarbageIsSwept
CHECK_DEADLOCK FALSE
