CONSTANTS
    None = None
    Zones = {"utc", "east"}
    DAY = 4
    local_minute <- MCLocalMinute
    MAX_LINE_ITEM_NODES = 5
    U32Max = 3
    SecondsPerDay = 4
    instant_range <- MCInstantRange
    add_months <- MCAddMonths
    Mandates <- MCMandates
    Closed <- MCClosed
    Envs <- MCEnvs
    MaxLinks = 4
SPECIFICATION ChainSpec
INVARIANT LeafWithinEveryLink
INVARIANT DepthAllowsChain
INVARIANT CoverageIsExact
INVARIANT FlowFindsAssignment
CHECK_DEADLOCK FALSE
