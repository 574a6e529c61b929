\* Executors return only once asked to stop, or when they like.
SPECIFICATION CooperativeSpec
CONSTANTS
    Ids = {i1, i2}
    Jobs = {j1, j2}
    Main = main
    None = none
    MaxFrames = 2
    MaxProgress = 0
PROPERTIES
    EventuallyAnswered
    FinishTerminates
    ShutdownTerminates
    CancelTakesEffect
    CancelIsFinal
    KeepsItsWord
