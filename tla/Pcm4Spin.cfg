\* The build the repository ships: USE_CONDITION_VARS is not defined.
SPECIFICATION FairSpec
CONSTANTS
    Producers = {p1, p2}
    Consumers = {c1, c2}
    Iterations = 2
    STACK_MAX_SIZE = 1
    UseConditionVars = FALSE
    NoBlock = NoBlock
    NoThread = NoThread
    BLOCK_GENERATE_SIZE = 7
    Text <- MCText
    SearchString <- MCSearchString
    Matches <- MCMatches
INVARIANTS
    TypeOK
    MutualExclusion
    BlockAccounting
    FoundExact
PROPERTIES
    RefinesWorkPool
    MainReports
