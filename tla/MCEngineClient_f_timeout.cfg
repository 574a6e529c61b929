\* A sidecar that stops reading while a call writes.
SPECIFICATION AnyEngineSpec
CONSTANTS
    Calls = {c1, c2}
    Closers = {s1}
    Reader = reader
    None = none
    PipeCap = 1
    MaxEvents = 0
PROPERTIES
    CallsReturn
\* The client rests when every call has returned and the sidecar is silent.
CHECK_DEADLOCK FALSE
