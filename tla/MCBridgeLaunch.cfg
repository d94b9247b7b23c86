\* Two launches, two other bridges, three hours.
SPECIFICATION FairSpec
CONSTANTS
    DefaultCap = 3
    MaxSafe = 8
    prod = prod
    test = test
    us = us
    them = them
    Bridge = {prod, test}
    Advertisers = {prod}
    Region = {us, them, system}
    Home = us
    Own = us
    Never = system
    system = system
    Torn = Torn
    NoKey = NoKey
    MinUptime = 1
    MaxAge = 1
    MaxTime = 3
    MaxKeys = 2
    RegionOf <- MCRegionOf
    Installations <- MCInstallations
    Self = Self
    NoUrl = NoUrl
    Defaults = {prod}
    MaxLaunches = 2
INVARIANTS Isolated ServesAsAsked AuthorIsDurable
PROPERTIES BookMovesForward EstablishedFirst NothingLingers Advertised
CHECK_DEADLOCK FALSE
