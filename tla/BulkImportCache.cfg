SPECIFICATION Spec
CONSTANTS
    alice = alice
    bob = bob
    None = None
    Names <- TwoDirectories
    Pairs <- SevenImages
    BatchSize = 2
    Outages = TRUE
INVARIANT BatchFailureIsIsolated
CHECK_DEADLOCK FALSE
