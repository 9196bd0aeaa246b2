CONSTANTS
    None = None
    Zones = {"utc"}
    U32 = 4096
    Instants <- MCInstants
    LocalMinute <- MCLocalMinute
    Registry <- MCRegistry
    Audience = "verifier"
    MaxAge = 1
    MaxSkew = 1
    Threads = {t1, t2}
    Presentations <- MCPresentations
    Delegations = {"d1"}
    MaxCalls = 2
SYMMETRY ThreadSymmetry
SPECIFICATION Spec
INVARIANT StoresInv
INVARIANT AcceptedByEveryLink
INVARIANT RevokedNeverAccepted
INVARIANT NoReplay
CHECK_DEADLOCK FALSE
