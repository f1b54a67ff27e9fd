SPECIFICATION BoundedSpec
CONSTANTS
    s1 = s1
    s2 = s2
    Session = {s1, s2}
    TTL = 2
    MaxDelay = 1
    Punctual = {s2}
    MaxFaults = 1
    MaxVersion = 2
INVARIANTS NoGhostLease NoLostEdit
PROPERTIES Fenced ManualKeptOut LeasesEnd
CHECK_DEADLOCK FALSE
