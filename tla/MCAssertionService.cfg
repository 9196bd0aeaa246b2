CONSTANTS
    None = None
    Handlers = {h1, h2}
    Devices = {"dev", "foreign"}
    Allowed = {"dev"}
    Requests <- MCRequests
    MaxRequests = 3
SPECIFICATION Spec
INVARIANT TransactionsInv
INVARIANT AuditTellsTheCounter
INVARIANT FlaggedOnlyOnConflict
INVARIANT NothingVerifiedOnceFlagged
INVARIANT ReplayIsNeverAConflict
PROPERTY ImplementsRegister
PROPERTY EveryRequestAnswered
CHECK_DEADLOCK FALSE
