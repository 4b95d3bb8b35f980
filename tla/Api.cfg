SPECIFICATION Spec
CONSTANTS
    Names = {"avahi", "sshd"}
    Dynamic = {"avahi"}
    Sources = {"tcp_A", "tcp_B"}
    Keys <- AllKeys
    Plugins = {"cpu", "alias"}
    Handlers = {"watch"}
    NameOf <- CfgNames
    Directories <- AllDirectories
    Script <- AllScripts
    Configurations <- AllConfigurations
    Enabled <- AllEnabled
    System <- Collectors
    Fixed <- FixedNames
    Shown = {"diskusage"}
    None = "none"
    MaxServices = 2
    MaxRestarts = 1
INVARIANTS TypeOK LinksAnswered DynamicLinksSurvive RefsDefined CrashExplained
CHECK_DEADLOCK FALSE
