CONSTANTS
    Ids = {a, b, c, d}
    a = a
    b = b
    c = c
    d = d
    Names = {n1, n2, n3, n4}
    n1 = n1
    n2 = n2
    n3 = n3
    n4 = n4
    Txs = {t1, t2}
    t1 = t1
    t2 = t2
    MaxLayoutsPerUser = 2
    NoName = NoName
    NoId = NoId
SPECIFICATION Spec
SYMMETRY Interchangeable
INVARIANTS
    NamesDiffer
    LimitBounded
    SomebodyProceeds
PROPERTY KeepsOne
