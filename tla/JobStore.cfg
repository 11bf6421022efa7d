SPECIFICATION FairSpec
CONSTANTS
    w1 = w1
    w2 = w2
    Workers <- MCWorkers
    Home = w1
    Total = 3
    BatchSize = 2
    ErrorCap = 2
    Ttl = 2
    MaxFaults = 1
    None = None
    Unknown = Unknown
CHECK_DEADLOCK FALSE
INVARIANTS
    TypeOK
    CountersAgree
    ErrorsAreTheFirst
PROPERTIES
    TheEndIsTheLastWord
    PollsGoForward
    FinishedJobsExpire
    PollerLearnsTheEnd
