CONSTANTS
    c1 = c1
    c2 = c2
    c3 = c3
    Callers <- MCCallers
    FailureThreshold = 3
    SuccessThreshold = 2
    OpenTimeout = 2
SPECIFICATION FairSpec
INVARIANTS
    TypeOK
    ClosedCountsConsecutiveFailures
    HalfOpenCountsConsecutiveSuccesses
    FailureCountBounded
PROPERTIES
    TransitionsAreEarned
    OpenAdmitsNobody
    RecoversWhenHealthy
