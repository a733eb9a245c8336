SPECIFICATION FairSpec
CONSTANTS
    Conns = {c1, c2}
    Scrapers = {s1}
    Checker = Checker
    None = None
    MaxConns = 2
    MaxProbes = 1
INVARIANT
    TypeOK
PROPERTIES
    ScrapesAreCuts
    CallsReturn
