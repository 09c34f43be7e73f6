\* Two kinds of signals compete for the one slot of the channel.
SPECIFICATION Spec
CONSTANTS
    r1 = r1
    sigterm = sigterm
    sigint = sigint
    Request <- OneRequest
    Endpoint = {"livez"}
    SupervisorMode = TRUE
    HealthCmd = FALSE
    ReadyCmd = FALSE
    StartupCmd = FALSE
    Signal <- TwoSignals
    NoSignal = NoSignal
    ChildCode <- ExitCodes
    PidOne = TRUE
    ListenCanFail = TRUE
    MaxSent = 1
PROPERTIES
    EverySignalForwarded
