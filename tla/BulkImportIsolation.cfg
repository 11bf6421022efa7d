SPECIFICATION Spec
CONSTANTS
    alice = alice
    bob = bob
    None = None
    Names <- TwoDirectories
    Pairs <- SevenImages
    BatchSize = 2
    Outages = FALSE
INVARIANT PerImageIsolation
CHECK_DEADLOCK FALSE
