SPECIFICATION Spec
CONSTANTS
    LastPid = 3
    Inodes = {1, 3}
    Exe <- RestartExe
    Parent <- RestartParent
    Opens <- RestartOpens
    Source <- RestartSource
    Units = {"ssh"}
    UnitOf <- RestartUnit
    NoUnit = "none"
    BaseName <- Names
    TypeOf <- SshdType
    Dynamic = {}
    HaveBus = TRUE
    Listed = {"ssh"}
    BlackList = {}
    LoopBack = {}
    Configured <- NoneConfigured
    MaxBusErrors = 1
INVARIANT OneOwner
PROPERTIES NetworkServicesDetected UnitsDetected
