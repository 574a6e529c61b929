\* Two targets, a grid of nine scales, documents with up to two defects, every
\* tolerance and iteration limit up to the bounds; messages with any set of
\* defects around them.
SPECIFICATION HandlerFairSpec
CONSTANTS
    t1 = t1
    t2 = t2
    Targets = {t1, t2}
    Documents <- CheckedDocuments
    Messages <- CheckedMessages
    WithRobotics = TRUE
    JointCount = 2
    MaxOptimization = 4
    IntModulus = 16384
    NotANumber = nan
    NotAString = nas
    One = 8
    None = none
    NumCases = 2
    MaxMagnitude = 1
INVARIANTS
    HandlerTypeOK
    FinalVerificationHolds
    BracketHalves
    SuccessIsVerified
    CoverageFits
    PeakRetainsItsCase
    FirstIssueIsFirstBreach
    VerdictIgnoresGarbage
    AcceptedInputIsUsable
    ReaderNeverWorks
    JobIsAnsweredAsItself
PROPERTIES
    MessageIsAnswered
\* One message: when it is answered, nothing is left to do.
CHECK_DEADLOCK FALSE
