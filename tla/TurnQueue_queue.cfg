SPECIFICATION OrderedSpec
CONSTANTS
    i1 = i1
    i2 = i2
    i3 = i3
    c1 = c1
    c2 = c2
    Item = {i1, i2, i3}
    Caller = {c1, c2}
    Resender = {c2}
    Cap = 1
    MaxGen = 2
INVARIANTS CountsExact QuietBarrier OneLiveTurn
PROPERTIES NobodyWaitsForever
CHECK_DEADLOCK FALSE
