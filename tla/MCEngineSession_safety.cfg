\* Two ids, two workers, three frames: duplicates, reuse of a reaped id,
\* cancellation and the reader's own answers all race with two workers.
SPECIFICATION Spec
CONSTANTS
    Ids = {i1, i2}
    Jobs = {j1, j2}
    Main = main
    None = none
    MaxFrames = 3
    MaxProgress = 1
SYMMETRY IdsAndJobs
INVARIANTS
    TypeOK
    FramesNeverInterleave
    TerminalIsLast
    NoWorkerOutlivesSession
    ExitZeroMeansDrained
PROPERTIES
    StopAllReachesAccepted
