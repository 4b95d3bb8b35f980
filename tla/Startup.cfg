SPECIFICATION BootSpec
CONSTANTS
    Services = {"sshd", "cupsd"}
    MaxCollectors = 2
    Options = {"port"}
    Names = {"self", "socket", "cpu", "mem"}
    Files <- SomeFiles
    UserFiles <- SomeUserFiles
    Torn = torn
    MaxCrashes = 2
    MaxEdits = 1
INVARIANTS NoDanglingCall BootTypeOK SettingsKept StableConfig LibraryFirst
INVARIANTS CollectorsConfigured
PROPERTY EventuallyServes
