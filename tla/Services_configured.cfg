SPECIFICATION Spec
CONSTANTS
    LastPid = 2
    Inodes = {1}
    Exe <- RestartExe
    Parent <- RestartParent
    Opens <- ReopenOpens
    Source <- RestartSource
    Units = {}
    UnitOf <- NoUnits
    NoUnit = "none"
    BaseName <- Names
    TypeOf <- SshdType
    Dynamic = {}
    HaveBus = FALSE
    Listed = {}
    BlackList = {}
    LoopBack = {}
    Configured <- SshdConfigured
    MaxBusErrors = 0
PROPERTY NetworkServicesDetected
