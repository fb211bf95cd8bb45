CONSTANTS
    Task = {s1}
    Sync = {s1}
    Thread = {main, th}
    Main = main
    Worker = {w1}
    Plugin = {p1}
    NoTask = NoTask
    NoPlugin = NoPlugin
    Delays = {0}
    Periods = {0}
    LevelStart = {7}
    TickMod = 8
    IdLimit = 4
    MaxTick = 2
    RegTick = 0
SPECIFICATION Spec
CHECK_DEADLOCK FALSE
INVARIANT CancelTasksIsComplete
