SPECIFICATION Spec
CONSTANTS
    Conns = {c1, c2}
    Routes = {r1}
    IPs = {i1}
    Steve = Steve
    blank = blank
    p1 = p1
    Names = {blank}
    NoPlayer = NoPlayer
    PlayerOf <- MCPlayerOf
    EarlyDisconnect = 1
    Enabled = TRUE
    MaxFailures = 1
    Window = 2
    BanDuration = 2
    Horizon = 4

PROPERTY BanLasts
