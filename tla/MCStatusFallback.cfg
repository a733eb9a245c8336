SPECIFICATION Spec
CONSTANTS
    Conns = {c1, c2}
    b1 = b1
    h1 = h1
    h2 = h2
    v1 = v1
    v2 = v2
    Backends = {b1}
    Requests <- OneRequest
    Cached <- OneRequest
    NoRequest = NoRequest
    NoEntry = NoEntry
    NoAnswer = NoAnswer
    MOTDCacheEnabled = TRUE
    StatusCacheTTL = 1
    MOTDFallbackTTL = 1
    StatusFallbackWhenUnhealthy = FALSE
    Enabled = TRUE
    FailureThreshold = 2
    SuccessThreshold = 1
    CircuitBreakerTTL = 1
    WriteLag = 1
    Horizon = 4
PROPERTY FailedQueriesFallBack
