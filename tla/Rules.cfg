SPECIFICATION RulesSpec
CONSTANTS
    Values <- MCValues
    AsNumber <- MCAsNumber
    AsRange <- MCAsRange
    Hash <- MCHash
    Matches <- MCMatches
    Globs <- MCGlobs
    Lists <- MCLists
    Conditions <- MCConditions
    Nested <- MCNested
    Contexts <- MCContexts
    FilterContexts <- MCFilterContexts
    Filters <- MCFilters
    RiFilters <- MCRiFilters
    TimeType = "TIME"
    MaxParts = 3
    MaxDepth = 3
    BeanIds = {"r1", "r2", "r3"}
    Apps = {"stb", "sky"}
    LowerName <- MCLowerName
    FwConfigs <- MCFwConfigs
    PercentageBeans <- MCBeans
    IpRuleBeans <- MCIpBeans
    IpFilterForms <- MCIpFilters
    TimeForms <- MCTimeForms
    MacForms <- MCMacForms
    ActivationVersions <- MCActivations
    LocationForms <- MCLocations
    GlobalFilters <- MCGlobals
    RoundRobinForms <- MCRoundRobins
    MacLists = {"L2"}
    MacParts <- MCMacParts
    BeanContexts <- MCBeanContexts
    Addresses4 = {"A", "B", "1"}
    NameRank <- MCNameRank
    LocationRules <- MCLocationRules
    Trim <- MCTrim
    ToUpper <- MCToUpper
    MacOf <- MCMacOf
    EditRules <- MCEditRules
    EditContexts <- MCEditContexts
    Renames <- MCRenames
INVARIANTS EvaluatesInGroups  EditsKeepSelection FormsReadBack BeansSound 
CHECK_DEADLOCK FALSE
