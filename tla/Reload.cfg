CONSTANTS
    Task = {a1}
    Sync = {}
    Thread = {main, th}
    Main = main
    Worker = {w1, w2}
    Plugin = {p1}
    NoTask = NoTask
    NoPlugin = NoPlugin
    Delays = {0, 2}
    Periods = {0, 1}
    LevelStart = {7}
    TickMod = 8
    IdLimit = 4
    MaxTick = 3
    RegTick = 1
    MaxPolls = 2
SPECIFICATION ReloadSpec
CHECK_DEADLOCK FALSE
SYMMETRY WorkerSymmetry
INVARIANTS
    NoUseAfterDestroy
    CallbacksReleased
    Cancellable
    LastOneRemoves
    DisabledIsQuiet
