\* The build with USE_CONDITION_VARS defined.
SPECIFICATION FairSpec
CONSTANTS
    Producers = {p1, p2}
    Consumers = {c1, c2}
    Iterations = 2
    STACK_MAX_SIZE = 2
    UseConditionVars = TRUE
    NoBlock = NoBlock
    NoThread = NoThread
    BLOCK_GENERATE_SIZE = 7
    Text <- MCText
    SearchString <- MCSearchString
    Matches <- MCMatches
PROPERTY
    MainReports
