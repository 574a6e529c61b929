\* An output failure during the drain.
SPECIFICATION Spec
CONSTANTS
    Ids = {i1, i2}
    Jobs = {j1, j2}
    Main = main
    None = none
    MaxFrames = 2
    MaxProgress = 0
PROPERTIES
    OutputFailureCancelsInFlight
