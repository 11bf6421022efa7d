SPECIFICATION Spec
CONSTANTS
    r1 = r1
    r2 = r2
    r3 = r3
    s1 = s1
    n1 = n1
    x1 = x1
    None = None
    Requests = {r1, r2, r3}
    Seeds = {s1}
    Names = {n1}
    ExtIds = {x1}
    Kinds <- AllKinds
SYMMETRY Symmetry
INVARIANT TypeOK
INVARIANT FacesHaveAPerson
INVARIANT EmbeddingsAreAudited
INVARIANT MatchesWereEnrolled
INVARIANT ExternalIdsAreUnique
INVARIANT OnlyRacedFacesAreStale
PROPERTY ImplementsRegistry
CHECK_DEADLOCK FALSE
