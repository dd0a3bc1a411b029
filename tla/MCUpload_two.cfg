\* Two callers, contents of 3 and 2 bytes, chunk sizes 2 and 3.
SPECIFICATION Spec
CONSTANTS
    Uploads = {u1, u2}
    a = a
    b = b
    Sources <- TwoSources
    SizeOf <- TwoSizes
    AskedSizes <- Sizes2and3
    DefaultChunkSize = 2
    MinChunkSize = 1
    MaxChunkSize = 4
    ParralUpload = 2
    DefaultConcurrency = 1
    MaxConcurrentUploadChunks = 3
    Burst = 4
    NoEntry = NoEntry
    NoChunk = NoChunk
VIEW LiveState
SYMMETRY Symmetry
INVARIANTS
    TypeOK
    EntriesTile
    VisibleSize
    ArrayFollowsPlan
PROPERTIES
    PublishedSize
