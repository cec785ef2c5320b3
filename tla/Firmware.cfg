SPECIFICATION FirmwareSpec
CONSTANTS
    Templates <- MCTemplates
    Kind <- MCKind
    Priority <- MCPriority
    ByPassFilters <- MCByPassFilters
    Booleans <- MCBooleans
    Rules <- MCRules
    Type <- MCType
    Size <- MCSize
    Actions <- MCActions
    Configs <- MCConfigs
    AppConfigs <- MCAppConfigs
    Version <- MCVersion
    Properties <- MCProperties
    Keys <- MCKeys
    Values <- MCValues
    Requests <- MCRequests
    RoundRobins <- MCRoundRobins
    Deletable = {"middle", "REBOOT_IMMEDIATELY_FILTER"}
    Servers = {s1}
    MaxFwRequests = 3
    MaxActive = 2
    Bounds = 2
    MaxClock = 2
    NoLog = NoLog
    FwProfiles <- MCProfiles
    FwConf <- MCFwConf
INVARIANTS TypeOK NotHeldBack AnswerSettled FiltersApplied  LogsKept TokenIsBacked
CHECK_DEADLOCK FALSE
