SPECIFICATION Spec
CONSTANTS
    Keys = {k1}
    Enabled = TRUE
    MaxFailures = 3
    Window = 3
    BanDuration = 3
    Lag = 1
    Horizon = 7
    MaxRecorded = 6
INVARIANTS TypeOK BanJustified BurstBanned
PROPERTY BanShrinksAtMostLag
