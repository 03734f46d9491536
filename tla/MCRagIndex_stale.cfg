\* One chunk that is edited, upserted and embedded again.
SPECIFICATION Spec
CONSTANTS
    Chunks = {k1}
    Upserters = {u1}
    Reindexers = {r1}
    BatchSize = 1
    r1 = r1
    ChunkCap <- MCChunkCap
    Edited = {k1}
    MaxText = 2
    MaxGeneration = 2
INVARIANTS
    FreshMeansCurrent
