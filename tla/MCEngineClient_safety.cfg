\* Two calls and two shutdowns against a sidecar that sends up to two frames.
SPECIFICATION Spec
CONSTANTS
    Calls = {c1, c2}
    Closers = {s1, s2}
    Reader = reader
    None = none
    PipeCap = 1
    MaxEvents = 2
SYMMETRY CallsAndClosers
INVARIANTS
    TypeOK
    NoCallStranded
    OneCompletion
    ShutdownIsComplete
    CancelFollowsTimeout
PROPERTIES
    KeepsThePromise
\* The client rests when every call has returned and the sidecar is silent.
CHECK_DEADLOCK FALSE
