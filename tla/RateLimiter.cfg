SPECIFICATION FairSpec
CONSTANTS
    w1 = w1
    w2 = w2
    t1 = t1
    t2 = t2
    t3 = t3
    Workers <- MCWorkers
    Threads <- MCThreads
    WorkerOf <- MCWorkerOf
    Rates <- MCRates
    PeriodTicks <- MCPeriodTicks
    DefaultCount = 1
    MaxLag = 1
    MaxFaults = 1
    None = None
INVARIANTS
    TypeOK
    BudgetPerSpan
    ExpiryIsOnItsWay
PROPERTIES
    FreeAgain
