CONSTANTS
    None = None
    Zones = {"utc"}
    U32 = 4096
    Instants <- MCInstants
    LocalMinute <- MCLocalMinute
    Scopes <- MCScopes
    Requests <- MCRequests
    MaxLinks = 3
SPECIFICATION ChainSpec
INVARIANT NarrowingSound
CHECK_DEADLOCK FALSE
