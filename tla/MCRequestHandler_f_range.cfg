\* A request with a number that no double holds.
SPECIFICATION HandlerSpec
CONSTANTS
    t1 = t1
    t2 = t2
    Targets = {t1, t2}
    Documents <- CheckedDocuments
    MaxOptimization = 4
    IntModulus = 16384
    NotANumber = nan
    NotAString = nas
    One = 2
    None = none
    NumCases = 2
    MaxMagnitude = 1
    Messages <- CheckedMessages
    WithRobotics = TRUE
    JointCount = 2
INVARIANTS
    EveryRequestCompletes
CHECK_DEADLOCK FALSE
