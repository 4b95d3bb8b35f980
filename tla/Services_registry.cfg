SPECIFICATION Spec
CONSTANTS
    LastPid = 4
    Inodes = {1, 2, 4}
    Exe <- RestartExe
    Parent <- RestartParent
    Opens <- RestartOpens
    Source <- RestartSource
    Units = {}
    UnitOf <- NoUnits
    NoUnit = "none"
    BaseName <- Names
    TypeOf <- SshdType
    Dynamic = {}
    HaveBus = FALSE
    Listed = {}
    BlackList = {}
    LoopBack = {}
    Configured <- NoneConfigured
    MaxBusErrors = 0
INVARIANT TypeOK
PROPERTIES NoneForgotten StatusConverges TemplatesConverge
