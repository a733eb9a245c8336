SPECIFICATION FairSpec
CONSTANTS
    b1 = b1
    b2 = b2
    Backends = {b1}
    Targets <- OneTarget
    Queries = {q1}
    NoQuery = NoQuery
    Modes = {"up", "long"}
    StatusFallbackWhenUnhealthy = TRUE
    Enabled = TRUE
    FailureThreshold = 2
    SuccessThreshold = 1
    CircuitBreakerTTL = 1
PROPERTY LongStatusIsServed
