SPECIFICATION Spec
CONSTANTS
    Workers = {w1, w2}
    NoWorker = NoWorker
    c1 = c1
    o1 = o1
    o2 = o2
    Objects <- OneOrder
    Queries = 2
    QueryOf <- QueryOfOneOrder
    NoOp = NoOp
    MaxVersion = 2
    MaxFailures = 1
    MaxCrashes = 0
    ResultsExpire = FALSE
INVARIANTS CompletedJobIsIngested
