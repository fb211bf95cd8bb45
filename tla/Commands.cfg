SPECIFICATION CommandSpec
CONSTANTS
    p1 = p1
    p2 = p2
    Plugin = {p1, p2}
    Server = server
    Word = {"home", "h", "version", "ver", "reload", "spawn", "sp", "x", "y", "int", "message", "bool", "Mode", "help", "PluginName", "nothing", "entity_type"}
    Label = {"home", "h", "version", "ver", "reload", "spawn", "sp", "help"}
    GameCommand = {"reload", "help"}
    GameEnum = {"Boolean", "Block", "EntityType"}
    Default <- MCDefault
    Described <- MCDescribed
    MaxSuffix = 4
CONSTRAINT FewOrphans
INVARIANTS
    TablesAgree
    DefaultsResolve
    OwnersLoaded
    EnumsAccountedFor
    ParsesUsages
