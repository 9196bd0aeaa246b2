CONSTANTS
    None = None
    Handlers = {h1, h2}
    Challenges = {"c1", "c2"}
    Requests <- MCRequests
    Ttl = 1
    PurgeAfter = 2
    MaxClock = 4
    MaxRequests = 2
SPECIFICATION Spec
INVARIANT TablesInv
INVARIANT ChallengeIsGoodOnce
INVARIANT DeviceProvedItsChallenge
INVARIANT AnswerMatchesTable
PROPERTY EveryRequestAnswered
CHECK_DEADLOCK FALSE
