\* A delivery the old generation scheduled runs after its successor started.
SPECIFICATION Spec
CONSTANTS
    Generations = {g1, g2}
    Stoppers = {c1}
    Slots = 1
    BatchLimit = 1
    NoGeneration = NoGeneration
PROPERTY ReplacedNeverDelivers
CHECK_DEADLOCK FALSE
