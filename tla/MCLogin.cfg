SPECIFICATION Spec
CONSTANTS
    Conns = {c1, c2, c3}
    Routes = {r1, r2}
    IPs = {i1}
    Steve = Steve
    blank = blank
    p1 = p1
    Names = {Steve, blank}
    NoPlayer = NoPlayer
    PlayerOf <- MCPlayerOf
    EarlyDisconnect = 1
    Enabled = TRUE
    MaxFailures = 2
    Window = 2
    BanDuration = 2
    Horizon = 3
SYMMETRY Symmetry
INVARIANTS TypeOK NoAdmissionWhileBanned BanNeedsDistinctLogins
PROPERTY GuardSpec
