SPECIFICATION FairSpec
CONSTANTS
    alice = alice
    bob = bob
    None = None
    Names <- TwoDirectories
    Pairs <- SevenImages
    BatchSize = 2
    Outages = TRUE
INVARIANT TypeOK
INVARIANT FacesHaveAPerson
INVARIANT FiledUnderTheDirectory
INVARIANT ProgressCoversTheCommits
INVARIANT BatchesAreAtomic
PROPERTY ImportEnds
CHECK_DEADLOCK FALSE
