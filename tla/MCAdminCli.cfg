CONSTANTS
    None = None
    Err = Err
    Partial = Partial
    Elsewhere = Elsewhere
    Terminals = {t1, t2}
    Ids = {"r1"}
    PairingRequests <- MCPairingRequests
    Passphrases = {"pw", "typo"}
    MaxSeeds = 2
    MaxCommands = 5
SYMMETRY TerminalSymmetry
SPECIFICATION Spec
INVARIANT AdminInv
INVARIANT EverySignatureApproved
PROPERTY SavedUntilAccepted
CHECK_DEADLOCK FALSE
