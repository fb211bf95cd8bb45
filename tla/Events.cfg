CONSTANTS
    p1 = p1
    p2 = p2
    ping = ping
    chat = chat
    h1 = h1
    h2 = h2
    h3 = h3
    Plugin = {p1, p2}
    LoadOrder <- MCLoadOrder
    Main = main
    Thread = {main, th}
    Event = {ping, chat, toggle}
    Async = {chat}
    Cancellable = {ping}
    EnableEvent = toggle
    DisableEvent = toggle
    Handler = {h1, h2, h3}
    Info <- MCInfo
    Priorities = 2
    MaxDepth <- MCMaxDepth
    main = main
    th = th
    Owner = {p1, p2}
    ServiceName = {n1}
    Service = {s1}
    ServiceRank = {1, 2}
    MaxProviders = 2
SPECIFICATION HostSpec
CONSTRAINT Separately
INVARIANTS
    BakedIsFresh
    DanglingOnlyWhenDisabled
    DispatchIsComplete
    GetIsHighest
