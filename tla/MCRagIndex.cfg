\* Two chunks, a run that may embed one of them again, and two runs that overlap.
SPECIFICATION FairSpec
CONSTANTS
    Chunks = {k1, k2}
    Upserters = {u1}
    Reindexers = {r1, r2}
    BatchSize = 2
    r1 = r1
    ChunkCap <- MCChunkCap
    Edited = {k1}
    MaxText = 2
    MaxGeneration = 2
INVARIANTS
    SerialRunsSound
    CompleteMeansDone
PROPERTY ReindexConverges
