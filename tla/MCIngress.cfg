SPECIFICATION Spec
CONSTANT
    Cases <- MCCases
INVARIANTS
    TypeOK
    BackendGetsTheStream
    
    AcceptedFitsModels
CHECK_DEADLOCK FALSE
