SPECIFICATION FairSpec
CONSTANTS
    Workers = {w1, w2}
    NoWorker = NoWorker
    c1 = c1
    o1 = o1
    o2 = o2
    Objects <- TwoOrders
    Queries = 1
    QueryOf <- QueryOfTwoOrders
    NoOp = NoOp
    MaxVersion = 1
    MaxFailures = 1
    MaxCrashes = 1
    ResultsExpire = TRUE
PROPERTIES
    EveryChangeMaterialised
