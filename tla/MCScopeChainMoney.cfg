CONSTANTS
    None = None
    Zones = {"utc"}
    U32 = 4096
    Instants <- MCInstants
    LocalMinute <- MCLocalMinute
    Scopes <- MCMoneyScopes
    Requests <- MCRequests
    MaxLinks = 3
SPECIFICATION ChainSpec
INVARIANT NarrowingNeverEscalates
CHECK_DEADLOCK FALSE
