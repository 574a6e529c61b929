\* A handler that throws.
SPECIFICATION Spec
CONSTANTS
    Ids = {i1}
    Jobs = {j1, j2}
    Main = main
    None = none
    MaxFrames = 2
    MaxProgress = 0
INVARIANTS
    AnswersAreCorrelated
