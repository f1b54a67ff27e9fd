CONSTANTS
    a1 = a1
    a2 = a2
    f1 = f1
    d1 = d1
    r1 = r1
    r2 = r2
    Asset = {a1, a2}
    Content = {f1}
    Draft = {d1}
    Req = {r1, r2}
    Forceable = {a1}
    MaxFaults = 1
    MaxTries <- Tries
SYMMETRY Symmetry
SPECIFICATION BoundedSpec
PROPERTIES MaterialsSound
CHECK_DEADLOCK FALSE
