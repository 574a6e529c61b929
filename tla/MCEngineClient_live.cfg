\* A sidecar that reads its stdin or dies, and says what it likes.
SPECIFICATION ReadingEngineSpec
CONSTANTS
    Calls = {c1, c2}
    Closers = {s1}
    Reader = reader
    None = none
    PipeCap = 1
    MaxEvents = 1
PROPERTIES
    CallsReturn
    ShutdownReturns
\* The client rests when every call has returned and the sidecar is silent.
CHECK_DEADLOCK FALSE
