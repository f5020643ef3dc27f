SPECIFICATION Spec
CONSTANTS
    LocalBits = 2
    NViews = 13
    ByteBits = 3
    Seeds <- MCSeeds
    Draws <- MCDraws
    FieldBits = 2
    MinViewSupport = 10
    MaxPreCandidates = 3
    Orderings <- MCOrderings
    RandomOrders <- MCRandomOrders
    Scenes <- MCScenes
    MaxMisses = 4
    MaxComponents = 3
    TimeBits = 3
    Turns <- MCTurns
INVARIANTS
    ChallengesAreCharacters
    BucketsBalanced
    PassesBalanceTime
    GrayTimeIsSparse
    FiberMatchesSchedule
    MatchIsCorrelation
    SupportedIdentitiesReturned
PROPERTY
    MatchingPlansAgree
CHECK_DEADLOCK FALSE
