CONSTANTS
    Catalogue <- Kinds
    Size = 1
    MaxCount = 2
    Asks = {1, 2}
    MaxPos = 5
    IntMax = 2
    Files = {f1, f2}
    Procs = {p1, p2}
    Objects = {o1, o2}
    Null = Null
SYMMETRY Interchangeable
SPECIFICATION Spec
INVARIANTS TypeOK InDevice NothingOnlyAtTheEnd UsesLiveMemory ClosedLeavesNothing
