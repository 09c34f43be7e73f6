\* Supervisor mode with and without a command, as PID 1.  livez reports the child;
\* startupz runs a command, which may hang.
SPECIFICATION Spec
CONSTANTS
    r1 = r1
    sigterm = sigterm
    sigint = sigint
    Request <- OneRequest
    Endpoint = {"livez", "startupz"}
    SupervisorMode = TRUE
    HealthCmd = FALSE
    ReadyCmd = FALSE
    StartupCmd = TRUE
    Signal <- TwoSignals
    NoSignal = NoSignal
    ChildCode <- ExitCodes
    PidOne = TRUE
    ListenCanFail = TRUE
    MaxSent = 1
INVARIANTS
    IInv
    SignalLedger
    ExitHonest
    NoProbeVouchesForTheDead
    NoProbeVouchesForTheUnborn
    GracefulExit
PROPERTIES
    ImplementsWrapper
    ChildEndEndsShim
    SomeSignalForwarded
    SignalEndsIdleShim
