SPECIFICATION Spec
CONSTANTS
    na = na
    nb = nb
    m1 = m1
    m2 = m2
    m3 = m3
    Name = {na, nb}
    NameOrder <- MCNameOrder
    Perm = {m1, m2, m3}
    PermName <- MCPermName
    Player = {q1}
    Console = console
    Attachment = {t1}
    Defaults = {"NotOperator", "Operator"}
    Links <- MCLinks
CONSTRAINT Small
INVARIANTS
    TablesExact
    SubscriptionsExact
    CacheFresh
    OpChangeIsNoticed
CHECK_DEADLOCK FALSE
