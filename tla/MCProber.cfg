SPECIFICATION FairSpec
CONSTANTS
    b1 = b1
    b2 = b2
    Backends = {b1, b2}
    Targets <- TwoTargets
    Queries = {q1}
    NoQuery = NoQuery
    Modes = {"up", "down", "over"}
    StatusFallbackWhenUnhealthy = TRUE
    Enabled = TRUE
    FailureThreshold = 2
    SuccessThreshold = 2
    CircuitBreakerTTL = 1
INVARIANTS TypeOK FollowsRuns CircuitAddsNothing NoBlameWithoutFailure
PROPERTIES HealthSpec FlipsOnlyAfterRuns Recovers Detects
