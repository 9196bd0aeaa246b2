CONSTANTS
    None = None
    Bad = Bad
    Zones = {"utc"}
    DAY = 4
    local_minute <- MCLocalMinute
    MAX_LINE_ITEM_NODES = 5
    U32Max = 3
    U64Max = 9
    SecondsPerDay = 4
    instant_range <- MCInstantRange
    add_months <- MCAddMonths
    Threads = {t1, t2}
    Requests <- MCRequests
    StatusRefs = {"s1"}
    Unreachable = {"s3"}
    MaxClock = 2
    MaxCalls = 2
SYMMETRY Symmetry
SPECIFICATION Spec
INVARIANT CallsInv
INVARIANT ReplayOnlyAfterExpiry
INVARIANT NonceOnlySpentOnAuthorization
INVARIANT RevokedNeverAuthorized
INVARIANT AuthorizedByEveryMandate
INVARIANT BudgetsAreShared
CHECK_DEADLOCK FALSE
