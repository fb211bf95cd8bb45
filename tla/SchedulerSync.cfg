CONSTANTS
    Task = {s1}
    Sync = {s1}
    Thread = {main, th}
    Main = main
    Worker = {w1}
    Plugin = {p1}
    NoTask = NoTask
    NoPlugin = NoPlugin
    Delays = {0, 2}
    Periods = {0, 2}
    LevelStart = {0, 7}
    TickMod = 16
    IdLimit = 4
    MaxTick = 4
    RegTick = 1
SPECIFICATION Spec
CHECK_DEADLOCK FALSE
INVARIANTS
    SingleEntry
    NoLostTask
    RunsOnItsTick
    CancelledIsPurged
