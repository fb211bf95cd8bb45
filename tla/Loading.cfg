SPECIFICATION LiveSpec
CONSTANTS
    p1 = p1
    p2 = p2
    p3 = p3
    nameA = nameA
    nameB = nameB
    nameC = nameC
    api = api
    Candidate = {p1, p2, p3}
    Name = {nameA, nameB, nameC, api}
    NoPlugin = NoPlugin
    Descriptions <- AllDescriptions
INVARIANTS
    DependenciesFirst
    CrossedOffIsLoaded
    NoneLeftOut
    SoftOrder
PROPERTY LoadingEnds
CHECK_DEADLOCK FALSE
