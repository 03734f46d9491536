\* Two places of one name share the weekly row.
SPECIFICATION IngestSpec
CONSTANTS
    A = A
    x1 = x1
    x2 = x2
    Jobs = {j1}
    Places = {1, 2}
    Regions = {A}
    RegionOf <- MCRegionOf
    NameOf <- MCNameOf
    ShortNamed = {}
    Posts = {x1, x2}
    PlaceOf <- MCPlaceOf
    Licences = {L1, L2}
    NoLicence = NoLicence
    Outcomes = {"clean", "partial", "bad", "stop", "stopLate"}
    Limit = 2
    MaxPairs = 2
INVARIANT EachPlaceCounted
CHECK_DEADLOCK FALSE
