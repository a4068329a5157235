SPECIFICATION FairSpec
CONSTANTS
    p1 = p1
    p2 = p2
    c1 = c1
    NoOne = NoOne
    Overlap = FALSE
    Procs <- MCProcs
    Calls <- MCCalls
    Ports <- MCPorts
INVARIANTS TypeOK OneReachableAgent AnswersAreTrue
PROPERTIES NothingHangs
CHECK_DEADLOCK FALSE
