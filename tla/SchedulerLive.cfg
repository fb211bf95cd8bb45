CONSTANTS
    Task = {s1, a1}
    Sync = {s1}
    Thread = {main}
    Main = main
    Worker = {w1}
    Plugin = {p1}
    NoTask = NoTask
    NoPlugin = NoPlugin
    Delays = {0}
    Periods = {0, 1}
    LevelStart = {7}
    TickMod = 8
    IdLimit = 4
    MaxTick = 2
    RegTick = 1
SPECIFICATION LiveSpec
CHECK_DEADLOCK FALSE
PROPERTIES
    PendingRuns
    CancelledLeaves
