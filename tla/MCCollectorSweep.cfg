SPECIFICATION Spec
CONSTANTS
    A = A
    B = B
    Jobs = {j1, j2}
    Places = {1, 2, 3}
    Regions = {A, B}
    RegionOf <- MCRegionOf
    NameOf <- MCNameOf
    ShortNamed = {3}
    Posts = {x1, x2}
    PlaceOf <- MCPlaceOf
    Licences = {L1, L2}
    NoLicence = NoLicence
    Outcomes = {"clean", "bad", "stop"}
    Limit = 2
    MaxPairs = 2
    Writers = {w1, w2}
    MaxPages = 3
    Refresh = 1
    MaxClock = 3
    InitialFiles <- MCInitialFiles
INVARIANTS CreditSound ReplayIsNoOp LicenceResolves CountsNewest
PROPERTY EvidenceKept
SYMMETRY Symmetry
CHECK_DEADLOCK FALSE
