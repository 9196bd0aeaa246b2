CONSTANTS
    None = None
    Zones = {"utc"}
    U32 = 4096
    Instants <- MCInstants
    LocalMinute <- MCLocalMinute
    Registry <- MCRegistry
    Audience = "verifier"
    MaxAge = 1
    MaxSkew = 1
    Handlers = {h1, h2}
    Requests <- MCRequests
    Pairable <- MCPairable
    Revocable = {"d1", "d2"}
    KnownAtStart = {"d2"}
    Margin = 1
    MaxStall = 1
    MaxRequests = 3
SPECIFICATION Spec
CONSTRAINT Scenes
SYMMETRY HandlerSymmetry
INVARIANT ServiceInv
INVARIANT ReceiptsTellAnswers
INVARIANT AcceptedOnCurrentStatus
PROPERTY ImplementsReplayGuard
CHECK_DEADLOCK FALSE
