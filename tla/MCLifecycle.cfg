SPECIFICATION FairSpec
CONSTANTS
    BufSize = 2
    MaxBytes <- FewBytes
    Management = TRUE
INVARIANTS TypeOK CountsExact ExitHasCause ReadyMeansServing
PROPERTIES TwoStreams StopsWhenTold SessionEnds
CHECK_DEADLOCK FALSE
