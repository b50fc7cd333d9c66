\* Table and cache at their limits: 4 places, 2 of them cached.
SPECIFICATION TableSpec
CONSTANTS
    a = a
    b = b
    c = c
    d = d
    e = e
    Owners <- FiveOwners
    TableSize = 4
    CacheSize = 2
    MaxTables = 2
SYMMETRY Symmetry
INVARIANTS
    OwnersKeepTheirBlocks
