SPECIFICATION PairSpec
CONSTANTS
    Spills = {s1, s2, s3, s4}
    Objects <- PairObjects
    Hole = hole
    PairCaller = {}
    PairBound = 5
INVARIANTS
    CopiesInStep
