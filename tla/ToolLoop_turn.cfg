SPECIFICATION BoundedSpec
CONSTANTS
    Rounds = 2
    Passes = 2
    Retries = 1
    Messages <- MCMessages
    MaxVersion = 3
    MaxPlan = 1
    MaxMishaps = 2
INVARIANTS EndsWhole
PROPERTIES TurnEnds RepliesSound
