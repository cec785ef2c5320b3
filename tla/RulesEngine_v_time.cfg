SPECIFICATION Spec
CONSTANTS
    Values <- MCValues
    AsNumber <- MCAsNumber
    AsRange <- MCAsRange
    Hash <- MCHash
    Matches <- MCMatches
    Globs <- MCGlobs
    Lists <- MCLists
    Conditions <- MCConditions
    Nested <- MCNested
    Contexts <- MCContexts
    FilterContexts <- MCFilterContexts
    Filters <- MCFilters
    RiFilters <- MCRiFilters
    TimeType = "STRING"
    MaxParts = 3
    MaxDepth = 2
INVARIANTS
    TimeFilterBlocks
CHECK_DEADLOCK FALSE
