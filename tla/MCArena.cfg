CONSTANTS
    x = x
    y = y
    p1 = p1
    p2 = p2
    p3 = p3
    Vars = {v1, v2}
    Pages = {p1, p2, p3}
    PageCapacity = 3
    MaxLen = 4
    Capacities = {1, 2}
    Chars = {x, y}
    Digits = {x}
    Garbage = Garbage
    Null = Null
    Static = Static
    StaticText <- MCStaticText
    NoText = NoText
CONSTRAINT FewAllocated
SYMMETRY ArenaSymmetry
VIEW Shown
SPECIFICATION Spec
INVARIANTS
    TypeOK
    PagesAccounted
PROPERTY TextsKept
