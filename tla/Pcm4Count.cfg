\* A block that ends with the string.
SPECIFICATION Spec
CONSTANTS
    Producers = {p1, p2}
    Consumers = {c1, c2}
    Iterations = 2
    STACK_MAX_SIZE = 1
    UseConditionVars = FALSE
    NoBlock = NoBlock
    NoThread = NoThread
    BLOCK_GENERATE_SIZE = 7
    Text <- MCText
    SearchString <- MCSearchString
    Matches <- MCMatches
INVARIANT
    ReportCounts
