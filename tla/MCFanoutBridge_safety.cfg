\* Two overlapping stops and three generations that can be alive, stale or held.
SPECIFICATION FairSpec
CONSTANTS
    Generations = {g1, g2, g3}
    Stoppers = {c1, c2}
    Slots = 2
    BatchLimit = 2
    NoGeneration = NoGeneration
INVARIANTS
    OneListener
    ConnectionOwned
    NoSilentDeath
    SlotsConserved
    StoppedSchedulesOnce
PROPERTIES
    StopTakesEffect
    ServesAgain
CHECK_DEADLOCK FALSE
