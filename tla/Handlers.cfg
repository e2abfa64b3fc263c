CONSTANTS
    q1 = q1
    q2 = q2
    Requests = {q1, q2}
    None = None
    SinkFaults = {"fail"}
    MaxSwaps = 1
    Mixes <- MCMixes
SPECIFICATION FairSpec
CHECK_DEADLOCK FALSE
INVARIANTS
    AnswersAreAudited
    EveryRequestCounted
PROPERTIES
    RequestsAreAnswered
