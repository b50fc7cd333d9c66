SPECIFICATION Spec
CONSTANTS
    Objects = {o1, o2, o3}
    Alien = alien
    Hole = hole
    Lists <- ShortLists
    Caller = {}
    SlotBound = 5
INVARIANTS
    IndexAgrees
PROPERTY KeepsOrder
