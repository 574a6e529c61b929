\* Two invocations at a time, three in all, over three engine clients.
SPECIFICATION FairViewSpec
CONSTANTS
    Commands = {1, 2}
    Clients = {1, 2, 3}
    None = none
    MaxInvocations = 3
INVARIANTS
    ViewTypeOK
    OneShutdown
    RestartStopsPrevious
    PageAgrees
    OneRefresh
PROPERTIES
    RacesSettle
    ExitStopsEngines
    RestartComesBack
\* The application rests when its commands are done; it also ends.
CHECK_DEADLOCK FALSE
