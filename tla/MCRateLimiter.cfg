CONSTANTS
    None = None
    Threads = {t1, t2}
    Routes = {"challenge", "assertion"}
    limit <- MCLimit
    Addresses <- MCAddresses
    Proxy <- MCProxy
    ClientIpHeader = TRUE
    Requests <- MCRequests
    WINDOW = 2
    MAX_TRACKED = 2
    MaxStall = 1
    MaxClock = 4
    MaxRequests = 5
SYMMETRY ThreadSymmetry
SPECIFICATION Spec
INVARIANT TablesInv
INVARIANT AtMostTwiceTheLimit
PROPERTY TurnedAwayForCause
CHECK_DEADLOCK FALSE
