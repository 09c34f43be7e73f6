\* Standalone mode: two concurrent probes whose checks may hang.
SPECIFICATION Spec
CONSTANTS
    r1 = r1
    r2 = r2
    Request <- TwoRequests
    Endpoint = {"livez", "startupz"}
    SupervisorMode = FALSE
    HealthCmd = TRUE
    ReadyCmd = FALSE
    StartupCmd = TRUE
    ListenCanFail = TRUE
INVARIANTS
    TypeOK
    StartupLatch
    StartupCmdDecides
    ZeroMeansStopped
PROPERTIES
    SignalEndsShim
    StartupFailsOpen
