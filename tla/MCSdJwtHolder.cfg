CONSTANTS
    None = None
    Bad = Bad
    Build <- build
    SaltsOf <- salts_of
    Process <- process
    Selectable <- selectable
    SelectFrom <- select
    PlaceOf <- Original
    PathsOf <- PathsIn
    Roots <- MCRoots
    LinkPayloads <- MCLinkPayloads
    LinkAlg = "sha-512"
    MaxLinks = 2
    MaxPointers = 2
    MaxSteps = 3
SPECIFICATION Spec
INVARIANT SelectionIsExact
INVARIANT VerifiesIfSealsHold
INVARIANT TextIsUnambiguous
CHECK_DEADLOCK FALSE
